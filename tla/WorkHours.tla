------------------------------ MODULE WorkHours ------------------------------
(***************************************************************************)
(* The working hours of one terminal, from the set-up wizard to the        *)
(* sidecar (splashscreen.tsx, app-context.tsx, Admin.tsx, work_hours.rs,   *)
(* setup.rs, sidecar.rs).                                                  *)
(*                                                                         *)
(* There are five copies: the page of each window, localStorage, the       *)
(* mirror, PostgreSQL and the schedule of the sidecar. Every window mounts *)
(* an AppProvider, which reads the mirror and, in the same breath, saves   *)
(* what localStorage had; commands of the two windows run side by side.    *)
(***************************************************************************)
EXTENDS Integers, FiniteSets, SequencesExt

CONSTANTS
    Hours,          \* configurations of the working day that the pages can hold
    Refused,        \* those save_work_hours_cmd does not take: no u32 for the tolerance
    Parsed,         \* what loadWorkHours makes of those it finds: parseInt(...) || 10
    Default,        \* the one of loadWorkHours
    None,
    MaxLaunches,    \* bound: starts of the program
    MaxChoices,     \* bound: configurations a person sends
    MaxQueue,       \* bound: rows a start of the program may find queued
    MaxHoursOdd,    \* bound: different oddities that one behaviour meets
    HoursEnv        \* what else happens, a subset of HoursOddities

\* "overtake": a command passes one that was sent before it. "crash": the program
\* ends while a command runs. "outage": PostgreSQL goes away. "failed": SQLite
\* does. "reread": with the mirror empty, localStorage is read as other hours.
HoursOddities == {"overtake", "crash", "outage", "failed", "reread"}

ASSUME WorkHoursAssumption ==
    /\ Default \in Hours \ Refused /\ None \notin Hours \cup Refused
    /\ Parsed \in [Hours -> Hours] /\ Parsed[Default] = Default
    /\ {MaxLaunches, MaxChoices, MaxQueue, MaxHoursOdd} \subseteq Nat
    /\ HoursEnv \subseteq HoursOddities

Windows == {"splash", "main"}
Rank == [sent |-> 0, local |-> 1, queued |-> 2, read |-> 3]
CommandStages == DOMAIN Rank
Call == [op : {"get", "save"}, by : Windows \cup {"wizard", "migration"},
         hours : Hours \cup {None}, at : CommandStages]

VARIABLES
    pgUp,       \* PostgreSQL answers
    online,     \* DbState.is_online
    stored,     \* localStorage: HorarioEntrada and the other three keys
    ready,      \* localStorage: AppConfigured
    lite,       \* app_config in the mirror
    outbox,     \* its upsert_app_config rows
    central,    \* app_config in PostgreSQL
    keyring,    \* URI and name of the database
    admin,      \* PostgreSQL has an administrator
    schedule,   \* the sidecar: "off", or the hours pushed to it
    page,       \* workHours of each window's AppProvider; None: no such window
    step,       \* the splash screen: setupStep, "loading", or "closed"
    busy,       \* PostgresSetup: the part of Setup under way
    calls,      \* commands under way, in the order they were sent
    boot,       \* setup() of the backend
    replay,     \* run_sync: how many rows of the outbox it still has to send
    launches, choices,
    chosen,     \* history: what a person last sent that can be taken; before that,
                \* what was there
    odd         \* history: the oddities that have happened

link == <<pgUp, online>>
copies == <<stored, lite, outbox, central, schedule>>
windows == <<page, step, busy, ready>>
backend == <<boot, replay>>
outside == <<keyring, admin>>
hoursHistory == <<launches, choices, chosen, odd>>
hoursVars == <<link, copies, windows, calls, backend, outside, hoursHistory>>

MaybeHours == Hours \cup {None}
Taken == Hours \ Refused
MaybeTaken == Taken \cup {None}
HoursTypeOK ==
    /\ stored \in MaybeHours /\ {lite, central, chosen} \subseteq MaybeTaken
    /\ outbox \in Seq(Taken) /\ replay \in 0..Len(outbox)
    /\ {pgUp, online, ready, keyring, admin} \subseteq BOOLEAN
    /\ schedule \in MaybeTaken \cup {"off"}
    /\ page \in [Windows -> MaybeHours]
    /\ step \in {"welcome", "hours", "database", "administrator", "loading", "closed"}
    /\ busy \in {"no", "database", "services", "administrators"}
    /\ calls \in Seq(Call)
    /\ boot \in {"no", "connect", "sidecar", "sync", "finish", "done"}
    /\ launches \in 0..MaxLaunches /\ choices \in 0..MaxChoices
    /\ odd \subseteq HoursOddities

\* A terminal that was never set up, one that was before app_config existed, or
\* one that has run: its copies agree.
HoursInit ==
    /\ pgUp \in BOOLEAN /\ online = FALSE
    /\ \/ /\ stored = None /\ lite = None /\ central = None
          /\ ready = FALSE /\ keyring = FALSE /\ admin = FALSE
       \/ \E h \in Hours :
              /\ stored = h
              /\ lite \in {None, h} \ Refused /\ central = lite
              /\ ready = TRUE /\ keyring = TRUE /\ admin = TRUE
    /\ chosen = IF stored \in Refused THEN None ELSE stored
    /\ outbox = <<>> /\ replay = 0 /\ calls = <<>>
    /\ schedule = "off" /\ page = [w \in Windows |-> None] /\ step = "closed" /\ busy = "no"
    /\ boot = "no"
    /\ launches = 0 /\ choices = 0 /\ odd = {}

-----------------------------------------------------------------------------
IsOdd(what) ==
    /\ what \subseteq HoursEnv /\ odd' = odd \cup what
    /\ what = {} \/ Cardinality(odd') <= MaxHoursOdd

Get(by) == [op |-> "get", by |-> by, hours |-> None, at |-> "sent"]
Save(by, h) == [op |-> "save", by |-> by, hours |-> h, at |-> "sent"]
Wait(c) == c.op = "get" /\ c.by \in Windows
Asking(w) == \E i \in DOMAIN calls : Wait(calls[i]) /\ calls[i].by = w
Settled == calls = <<>>

\* loadWorkHours; the migration reads the four keys in the same way.
Loaded == IF stored = None THEN Default ELSE Parsed[stored]

\* The effects of AppProvider at its first render. (setWorkHours(loadWorkHours())
\* renders it again and repeats the save, which changes nothing.)
Mounts(w) == <<Get(w), Save(w, Loaded)>>

\* Mutant: the effect saves to the backend alone.
KeepsUnstored(w, h, rest) ==
    /\ page' = [page EXCEPT ![w] = h]
    /\ calls' = Append(rest, Save(w, h))
    /\ UNCHANGED stored

\* The effect on workHours: localStorage at once, the command after.
Keeps(w, h, rest) ==
    /\ page' = [page EXCEPT ![w] = h]
    /\ stored' = h
    /\ calls' = Append(rest, Save(w, h))

-----------------------------------------------------------------------------
(* The commands, each statement a step of its own.                         *)

\* i takes the step that a call sent before it has yet to take.
Overtakes(i) ==
    \E j \in 1..(i - 1) : Rank[calls[j].at] <= Rank[calls[i].at]

Stands(i, op, at) == i \in DOMAIN calls /\ calls[i].op = op /\ calls[i].at = at

Steps(i, op, at) ==
    /\ Stands(i, op, at)
    /\ IsOdd(IF Overtakes(i) THEN {"overtake"} ELSE {})

\* get_work_hours_cmd: the mirror, never PostgreSQL.
ReadsHours(i) ==
    /\ Steps(i, "get", "sent")
    /\ calls' = [calls EXCEPT ![i].hours = lite, ![i].at = "read"]
    /\ UNCHANGED <<link, copies, windows, backend, outside, launches, choices, chosen>>

\* get_local fails: .ok()?? makes it an empty mirror.
ReadFails(i) ==
    /\ Stands(i, "get", "sent") /\ IsOdd({"failed"})
    /\ calls' = [calls EXCEPT ![i].at = "read"]
    /\ UNCHANGED <<link, copies, windows, backend, outside, launches, choices, chosen>>

\* The answer to AppProvider; a window that was closed does not hear it.
Answers(i) ==
    /\ i \in DOMAIN calls /\ Wait(calls[i]) /\ calls[i].at = "read"
    /\ LET w == calls[i].by
           rest == RemoveAt(calls, i)
       IN  IF page[w] # None /\ calls[i].hours # None
           THEN Keeps(w, calls[i].hours, rest)
           ELSE calls' = rest /\ UNCHANGED <<page, stored>>
    /\ UNCHANGED <<link, lite, outbox, central, schedule, step, busy, ready, backend, outside, hoursHistory>>

\* Mutant: what the mirror has is not looked at.
MigratesAlways(i) ==
    /\ i \in DOMAIN calls /\ calls[i].by = "migration" /\ calls[i].at = "read"
    /\ calls' = Append(RemoveAt(calls, i), Save("migration", Loaded))
    /\ UNCHANGED <<link, copies, windows, backend, outside, hoursHistory>>

\* The migration of the splash screen: what localStorage had, if the mirror has
\* nothing; then complete_setup, which starts setup().
Migrates(i) ==
    /\ i \in DOMAIN calls /\ calls[i].by = "migration" /\ calls[i].at = "read"
    /\ LET rest == RemoveAt(calls, i)
       IN  IF calls[i].hours = None
           THEN calls' = Append(rest, Save("migration", Loaded)) /\ UNCHANGED boot
           ELSE calls' = rest /\ boot' = "connect"
    /\ UNCHANGED <<link, copies, windows, replay, outside, hoursHistory>>

\* A save ends. The page goes on, whatever came of it: the wizard has the error
\* logged, AppProvider drops it, and the migration sets up in any case.
Returns(i) ==
    /\ calls' = RemoveAt(calls, i)
    /\ step' = IF calls[i].by = "wizard" /\ step \notin {"loading", "closed"} THEN "database" ELSE step
    /\ boot' = IF calls[i].by = "migration" THEN "connect" ELSE boot

\* The arguments of save_work_hours_cmd are refused, or set_local or enqueue fails.
Drops(i) ==
    /\ \/ Steps(i, "save", "sent") /\ calls[i].hours \in Refused
       \/ (Stands(i, "save", "sent") \/ Stands(i, "save", "local")) /\ IsOdd({"failed"})
    /\ Returns(i)
    /\ UNCHANGED <<link, copies, page, busy, ready, replay, outside, launches, choices, chosen>>

\* save_work_hours: set_local,
SavesLocal(i) ==
    /\ Steps(i, "save", "sent") /\ calls[i].hours \notin Refused
    /\ lite' = calls[i].hours
    /\ calls' = [calls EXCEPT ![i].at = "local"]
    /\ UNCHANGED <<link, stored, outbox, central, schedule, windows, backend, outside, launches, choices, chosen>>

\* Mutant: a row is queued only offline, as for the punches.
QueuesOffline(i) ==
    /\ Steps(i, "save", "local")
    /\ outbox' = IF online THEN outbox ELSE Append(outbox, calls[i].hours)
    /\ calls' = [calls EXCEPT ![i].at = "queued"]
    /\ UNCHANGED <<link, stored, lite, central, schedule, windows, backend, outside, launches, choices, chosen>>

\* enqueue, online or not,
Queues(i) ==
    /\ Steps(i, "save", "local")
    /\ outbox' = Append(outbox, calls[i].hours)
    /\ calls' = [calls EXCEPT ![i].at = "queued"]
    /\ UNCHANGED <<link, stored, lite, central, schedule, windows, backend, outside, launches, choices, chosen>>

\* and upsert_pg, whose failure is dropped.
Upserts(i) ==
    /\ Steps(i, "save", "queued")
    /\ central' = IF online /\ pgUp THEN calls[i].hours ELSE central
    /\ Returns(i)
    /\ UNCHANGED <<link, stored, lite, outbox, schedule, page, busy, ready, replay, outside, launches, choices, chosen>>

CallWorks == \E i \in DOMAIN calls :
    \/ ReadsHours(i) \/ ReadFails(i) \/ Answers(i) \/ Migrates(i)
    \/ SavesLocal(i) \/ Drops(i) \/ Queues(i) \/ Upserts(i)

-----------------------------------------------------------------------------
(* The splash screen.                                                      *)

Off == page = [w \in Windows |-> None]

\* setBackendSetup(true): AppConfigured, then the migration.
Loads(rest) ==
    /\ ready' = TRUE /\ step' = "loading"
    /\ calls' = Append(rest, Get("migration"))

Launches ==
    /\ Off /\ launches < MaxLaunches /\ launches' = launches + 1
    /\ Len(outbox) <= MaxQueue
    /\ IsOdd(IF lite = None /\ stored # None /\ Loaded # stored THEN {"reread"} ELSE {})
    /\ page' = [page EXCEPT !["splash"] = Loaded] /\ stored' = Loaded
    /\ IF ready THEN Loads(Mounts("splash"))
       ELSE step' = "welcome" /\ calls' = Mounts("splash") /\ UNCHANGED ready
    /\ UNCHANGED <<link, lite, outbox, central, schedule, busy, backend, outside, choices, chosen>>

\* "Começar configuração" and "Voltar"
Turns ==
    /\ busy = "no"
    /\ \E t \in {<<"welcome", "hours">>, <<"hours", "welcome">>,
                <<"database", "hours">>, <<"administrator", "database">>} :
           step = t[1] /\ step' = t[2]
    /\ UNCHANGED <<link, copies, page, busy, ready, calls, backend, outside, hoursHistory>>

Chooses(h, w) ==
    /\ choices < MaxChoices /\ choices' = choices + 1
    /\ chosen' = IF h \in Refused THEN chosen ELSE h
    /\ IsOdd(IF Asking(w) THEN {"overtake"} ELSE {})

\* A tolerance left blank is not a number, and so refused.
HoursContinue(h) ==
    /\ step = "hours"
    /\ Chooses(h, "splash")
    /\ calls' = Append(calls, Save("wizard", h))
    /\ UNCHANGED <<link, copies, windows, backend, outside, launches>>

\* handleFinish, after test_db_connection
DatabaseContinue ==
    /\ step = "database" /\ busy = "no" /\ pgUp
    /\ busy' = "database"
    /\ UNCHANGED <<link, copies, page, step, ready, calls, backend, outside, hoursHistory>>

\* Any error of Setup is shown and leaves the step as it is.
SetupFails ==
    /\ busy # "no" /\ ~pgUp /\ ~(busy = "services" /\ schedule # "off")
    /\ busy' = "no"
    /\ UNCHANGED <<link, copies, page, step, ready, calls, backend, outside, hoursHistory>>

\* insert_db_config
DatabaseIsSet ==
    /\ busy = "database" /\ pgUp
    /\ busy' = "services" /\ keyring' = TRUE
    /\ UNCHANGED <<link, copies, page, step, ready, calls, backend, admin, hoursHistory>>

\* auth/sidecar.rs: start pushes the hours once; a sidecar that runs is left alone.
Starts == schedule' = IF schedule = "off" THEN lite ELSE schedule

\* start_backend_services: a pool that is there is not tried again.
ServicesStart ==
    /\ busy = "services" /\ (pgUp \/ schedule # "off")
    /\ busy' = "administrators"
    /\ online' = TRUE /\ Starts
    /\ UNCHANGED <<pgUp, stored, lite, outbox, central, page, step, ready, calls, backend, outside, hoursHistory>>

\* auth_has_admin
AdministratorsKnown ==
    /\ busy = "administrators" /\ pgUp
    /\ busy' = "no"
    /\ IF admin THEN Loads(calls) ELSE step' = "administrator" /\ UNCHANGED <<ready, calls>>
    /\ UNCHANGED <<link, copies, page, backend, outside, hoursHistory>>

\* FirstUser: auth_bootstrap_admin, then onComplete
AdministratorCreated ==
    /\ step = "administrator" /\ pgUp
    /\ admin' = TRUE /\ Loads(calls)
    /\ UNCHANGED <<link, copies, page, busy, backend, keyring, hoursHistory>>

Wizard ==
    \/ Turns \/ DatabaseContinue \/ SetupFails \/ DatabaseIsSet
    \/ ServicesStart \/ AdministratorsKnown \/ AdministratorCreated
    \/ \E h \in Hours : HoursContinue(h)

-----------------------------------------------------------------------------
(* setup() and the main window.                                            *)

\* connect_postgres; without an answer the program starts offline.
Connects ==
    /\ boot = "connect" /\ boot' = "sidecar"
    /\ online' = (online \/ (keyring /\ pgUp))
    /\ UNCHANGED <<pgUp, copies, windows, calls, replay, outside, hoursHistory>>

\* run_sync takes what is pending; offline there is nothing to do.
Syncs ==
    /\ replay' = IF online THEN Len(outbox) ELSE 0
    /\ boot' = IF replay' = 0 THEN "finish" ELSE "sync"

\* The sidecar needs PostgreSQL to answer /health; its failure is only logged.
SidecarStarts ==
    /\ boot = "sidecar"
    /\ IF pgUp THEN Starts ELSE UNCHANGED schedule
    /\ Syncs
    /\ UNCHANGED <<link, stored, lite, outbox, central, windows, calls, outside, hoursHistory>>

\* run_sync replays the oldest row, in setup() or after a reconnection; a save
\* that has queued its row may still send it itself, later.
Replays ==
    /\ replay > 0
    /\ IsOdd(IF \E i \in DOMAIN calls : calls[i].at = "queued" THEN {"overtake"} ELSE {})
    /\ IF pgUp
       THEN /\ central' = Head(outbox) /\ outbox' = Tail(outbox) /\ replay' = replay - 1
            /\ UNCHANGED link
       ELSE online' = FALSE /\ replay' = 0 /\ UNCHANGED <<pgUp, central, outbox>>
    /\ boot' = IF boot = "sync" /\ replay' = 0 THEN "finish" ELSE boot
    /\ UNCHANGED <<stored, lite, schedule, windows, calls, outside, launches, choices, chosen>>

\* finish: the main window opens and mounts its AppProvider; the splash closes.
Opens ==
    /\ boot = "finish"
    /\ IsOdd(IF Asking("splash") THEN {"overtake"} ELSE {})
    /\ boot' = "done" /\ step' = "closed"
    /\ page' = [splash |-> None, main |-> Loaded] /\ stored' = Loaded
    /\ calls' = calls \o Mounts("main")
    /\ UNCHANGED <<link, lite, outbox, central, schedule, busy, ready, replay, outside, launches, choices, chosen>>

\* The tab "jornada": setWorkHours at each change. Nothing bounds the tolerance.
Edits(h) ==
    /\ page["main"] # None /\ h # page["main"]
    /\ Chooses(h, "main")
    /\ Keeps("main", h, calls)
    /\ UNCHANGED <<link, lite, outbox, central, schedule, step, busy, ready, backend, outside, launches>>

-----------------------------------------------------------------------------
(* Around it.                                                              *)

\* watch_loop: a transition to online starts run_sync. (Probe and swap are one
\* step here, and one synchronisation waits for the other; PunchSync takes both apart.)
Watches ==
    /\ boot \notin {"no", "connect"} /\ online # pgUp
    /\ online' = pgUp
    /\ IF pgUp THEN replay = 0 /\ replay' = Len(outbox) ELSE UNCHANGED replay
    /\ UNCHANGED <<pgUp, copies, windows, calls, boot, outside, hoursHistory>>

PgChanges ==
    /\ ~pgUp \/ "outage" \in HoursEnv
    /\ pgUp' = ~pgUp
    /\ UNCHANGED <<online, copies, windows, calls, backend, outside, hoursHistory>>

\* The program ends, and its sidecar with it.
Ends ==
    /\ ~Off
    /\ IsOdd(IF Settled THEN {} ELSE {"crash"})
    /\ page' = [w \in Windows |-> None] /\ step' = "closed" /\ busy' = "no"
    /\ calls' = <<>> /\ boot' = "no" /\ replay' = 0
    /\ schedule' = "off" /\ online' = FALSE
    /\ UNCHANGED <<pgUp, stored, lite, outbox, central, ready, outside, launches, choices, chosen>>

HoursNext ==
    \/ Launches \/ Wizard \/ CallWorks \/ Connects \/ SidecarStarts \/ Replays \/ Opens
    \/ Watches \/ PgChanges \/ Ends
    \/ \E h \in Hours : Edits(h)

HoursSpec == HoursInit /\ [][HoursNext]_hoursVars

\* The runtime goes on with every command and task.
FairHoursSpec ==
    /\ HoursSpec
    /\ WF_hoursVars(CallWorks) /\ WF_hoursVars(Connects) /\ WF_hoursVars(SidecarStarts)
    /\ WF_hoursVars(Replays) /\ WF_hoursVars(Opens)

-----------------------------------------------------------------------------
InMain == page["main"] # None

\* Once everything was answered, the page and localStorage say the same, and the
\* mirror does unless they are hours it was refused, even after a start that was
\* cut short (app-context.tsx, work_hours.rs).
CopiesAgree ==
    InMain /\ Settled /\ odd \cap {"overtake", "failed"} = {} =>
        page["main"] = stored /\ (stored = lite \/ stored \in Refused)

\* What a person last chose in the wizard or the administration that the backend
\* takes is what the terminal goes on with, unless a command was overtaken, cut off
\* or failed, or localStorage was migrated as other hours: a refused choice does
\* not cost it, in the page or in the starts that follow.
HoursKept ==
    InMain /\ Settled /\ odd \subseteq {"outage"} /\ chosen # None => lite = chosen

\* PostgreSQL has the hours of the mirror, or the outbox ends with them
\* (save_work_hours, run_sync).
CentralOrQueued ==
    InMain /\ Settled /\ odd \cap {"overtake", "failed"} = {} =>
        central = lite \/ (outbox # <<>> /\ Last(outbox) = lite)

\* What the comment of app-context.tsx promises, "Read work hours from DB
\* (canonical)": the mirror changes only to what a person chose. False: the main
\* window saves the localStorage of before the wizard first.
CanonicalKept == [][lite # None /\ lite' # lite => lite' = chosen]_hoursVars

\* HoursKept without its exemptions. False: the answer that would undo the save
\* of the main window comes too late, or not at all.
HoursStay == InMain /\ Settled /\ chosen # None /\ choices = 1 => lite = chosen

\* A program that was set up opens its main window, whether or not SQLite takes
\* what it migrates and PostgreSQL answers (splashscreen.tsx, setup.rs).
StartEnds == step = "loading" ~> InMain \/ Off

\* CopiesAgree without its exemption. False: a tolerance below zero stays in the
\* page and localStorage alone, and nobody is told.
CopiesSame == InMain /\ Settled /\ odd = {} => page["main"] = lite

\* What the comment of sidecar.rs promises, the scheduler "knows when to fire".
\* False: only the start of the sidecar pushes the hours.
ScheduleFollows == InMain /\ Settled /\ schedule \in Hours => schedule = lite
=============================================================================
