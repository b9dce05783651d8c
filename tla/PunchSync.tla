----------------------------- MODULE PunchSync ------------------------------
(***************************************************************************)
(* Replication of punches (table time_entries) between the kiosk's SQLite  *)
(* mirror and PostgreSQL:                                                  *)
(*                                                                         *)
(*   - Tauri commands that record a punch (set_field) or remove a day      *)
(*     (delete_day): local write, then PostgreSQL, or the outbox;          *)
(*   - run_sync: replay of the outbox, pull of the central rows, reap of   *)
(*     the local rows that are not central any more;                       *)
(*   - get_users_and_cache: the pull alone;                                *)
(*   - the portal's administrator, who writes PostgreSQL directly;         *)
(*   - the watch loop (DbLink), crashes and restarts of the kiosk.         *)
(*                                                                         *)
(* A day stands for a (employee_id, work_date) key.  A row keeps, for each *)
(* punch column, the time of the write it came from (0 is NULL), and its   *)
(* updated_at.  Times are taken from one clock that every write advances:  *)
(* the kiosk's and the server's clocks agree.                              *)
(***************************************************************************)
EXTENDS DbLink, Naturals, FiniteSets

CONSTANTS
    Days,       \* (employee_id, work_date) keys
    Fields,     \* punch columns
    Commands,   \* Tauri commands that can be in flight at once
    Workers,    \* run_sync / get_users_and_cache tasks that can run at once
    NoRow,      \* no row under that key
    MaxClock,   \* bound: writes made by people
    MaxOdd,     \* bound: hazards that meet in one behaviour
    Env         \* what may happen around the code, a subset of Hazards

\* "crash": the kiosk's process may die at any step.
\* "kiosk_delete", "portal_set", "portal_delete", "refresh": that operation
\* is used (no page of the frontend calls get_users_and_cache).
\* "overlap": a command starts while a synchronisation task runs, or the
\* other way round, or two tasks run at once.
Hazards == {"crash", "kiosk_delete", "portal_set", "portal_delete", "refresh",
            "overlap"}

Row == [cols : [Fields -> Nat], at : Nat]
MaybeRow == Row \cup {NoRow}

\* The payloads of the outbox: upsert_time_entry carries the whole row,
\* delete_time_entry only the key.
Msg == [op : {"upsert"}, day : Days, row : Row] \cup
       [op : {"delete"}, day : Days, row : {NoRow}]
Entry == [id : Nat, msg : Msg]

ASSUME PunchSyncAssumption ==
    /\ NoRow \notin Row
    /\ MaxClock \in Nat /\ MaxOdd \in Nat
    /\ Env \subseteq Hazards
    /\ Days # {}

VARIABLES
    app,        \* "down", "booting" (setup running) or "ready"
    lite,       \* SQLite time_entries
    pg,         \* PostgreSQL time_entries
    outbox,     \* rows of sync_outbox with synced_at IS NULL
    nextId,     \* next sync_outbox.id
    cmd,        \* program counter and payload of each command
    job,        \* what each task runs: "none", "boot", "sync" or "refresh"
    wpc,        \* program counter of each task
    todo,       \* run_sync's snapshot of the outbox, the part not replayed yet
    fetched,    \* rows a pull has read and not applied yet
    present,    \* keys reap_deleted found in PostgreSQL
    clock,      \* time of the last write
    deletedAt,  \* history: when the deletion of a day was last asked for
    happened    \* history: the hazards met so far

cmdVars == <<cmd, clock>>
taskVars == <<job, wpc, todo, fetched, present>>
queueVars == <<outbox, nextId>>
vars == <<linkVars, app, lite, pg, queueVars, cmdVars, taskVars, deletedAt, happened>>

NoRows == [d \in Days |-> NoRow]
Idle == [pc |-> "idle"]

CmdState == {Idle} \cup [pc : {"read"}, day : Days]
                   \cup [pc : {"call", "queue"}, msg : Msg]

TypeOK ==
    /\ LinkTypeOK
    /\ app \in {"down", "booting", "ready"}
    /\ lite \in [Days -> MaybeRow]
    /\ pg \in [Days -> MaybeRow]
    /\ outbox \subseteq Entry
    /\ nextId \in Nat
    /\ cmd \in [Commands -> CmdState]
    /\ job \in [Workers -> {"none", "boot", "sync", "refresh"}]
    /\ wpc \in [Workers -> {"idle", "begin", "replay", "mark", "pull",
                            "apply", "reap", "reaping"}]
    /\ todo \in [Workers -> SUBSET Entry]
    /\ fetched \in [Workers -> [Days -> MaybeRow]]
    /\ present \in [Workers -> SUBSET Days]
    /\ clock \in Nat
    /\ deletedAt \in [Days -> Nat]
    /\ happened \subseteq Hazards

Init ==
    /\ LinkInit
    /\ app = "down"
    /\ lite = NoRows
    /\ pg = NoRows
    /\ outbox = {}
    /\ nextId = 0
    /\ cmd = [c \in Commands |-> Idle]
    /\ job = [w \in Workers |-> "none"]
    /\ wpc = [w \in Workers |-> "idle"]
    /\ todo = [w \in Workers |-> {}]
    /\ fetched = [w \in Workers |-> NoRows]
    /\ present = [w \in Workers |-> {}]
    /\ clock = 0
    /\ deletedAt = [d \in Days |-> 0]
    /\ happened = {}

-----------------------------------------------------------------------------
(* Statements on time_entries and sync_outbox.                             *)

\* Mutant: the WHERE of UPSERT_ROW is lost, and the last statement wins.
SupersedesAlways(old, new) == TRUE

\* UPSERT_ROW: insert, or update WHERE updated_at <= excluded.updated_at.
Supersedes(old, new) == old = NoRow \/ old.at <= new.at

Upserted(stored, row) == IF Supersedes(stored, row) THEN row ELSE stored

\* Mutant: the statement writes its column and leaves the others NULL.
WithFieldAlone(stored, f, t) ==
    [cols |-> [g \in Fields |-> IF g = f THEN t ELSE 0], at |-> t]

\* One column set to the value given at time t, the others kept.  Neither
\* set_field nor setPunchField has a guard on updated_at.
WithField(stored, f, t) ==
    [cols |-> [g \in Fields |-> IF g = f THEN t
                                ELSE IF stored = NoRow THEN 0 ELSE stored.cols[g]],
     at |-> t]

\* What a payload does to PostgreSQL, sent directly or replayed.
Applied(m) ==
    [pg EXCEPT ![m.day] = IF m.op = "upsert" THEN Upserted(@, m.row) ELSE NoRow]

Enqueue(m) ==
    /\ outbox' = outbox \cup {[id |-> nextId, msg |-> m]}
    /\ nextId' = nextId + 1

\* Mutant: UPDATE sync_outbox without its WHERE id.
MarkAllSynced(q, e) == {}

MarkSynced(q, e) == {x \in q : x.id # e.id}

\* ORDER BY id ASC: the row run_sync replays next.
IsOldest(e, q) == e \in q /\ \A x \in q : e.id <= x.id

-----------------------------------------------------------------------------
(* Commands.                                                               *)

\* Hazards that this step meets; the step is left out where Env or MaxOdd
\* leaves them out.
Meets(hazards) ==
    /\ hazards \subseteq Env
    /\ happened' = happened \cup hazards
    /\ Cardinality(happened') <= MaxOdd

AtSync == IF \A w \in Workers : wpc[w] = "idle" THEN {} ELSE {"overlap"}
AtOthers(w) ==
    IF /\ \A c \in Commands : cmd[c] = Idle
       /\ \A v \in Workers \ {w} : wpc[v] = "idle"
    THEN {} ELSE {"overlap"}

CommandStarts(c) ==
    /\ app = "ready"
    /\ cmd[c] = Idle
    /\ clock < MaxClock
    /\ clock' = clock + 1

\* The flag decides between PostgreSQL and the outbox; the call, or the
\* insert into the outbox, comes later.
Route == IF online THEN "call" ELSE "queue"

\* set_field: find_local and the upsert of one column, stamped now.
SetFieldLocal(c, d, f) ==
    /\ CommandStarts(c)
    /\ lite' = [lite EXCEPT ![d] = WithField(@, f, clock')]
    /\ cmd' = [cmd EXCEPT ![c] = [pc |-> "read", day |-> d]]
    /\ Meets(AtSync)
    /\ UNCHANGED <<linkVars, app, pg, queueVars, taskVars, deletedAt>>

WholeRow(d) == [op |-> "upsert", day |-> d, row |-> lite[d]]

\* set_field re-reads the whole row to replicate it.  The row may have been
\* reaped or deleted since the write: NotFound, and the command fails.
SetFieldRead(c) ==
    /\ cmd[c].pc = "read"
    /\ LET d == cmd[c].day IN
       cmd' = [cmd EXCEPT ![c] = IF lite[d] = NoRow THEN Idle
                                 ELSE [pc |-> Route, msg |-> WholeRow(d)]]
    /\ UNCHANGED <<linkVars, app, lite, pg, queueVars, clock, taskVars, deletedAt, happened>>

\* delete_time_entry_day: the row must exist locally; delete_day removes it.
DeleteDay(c, d) ==
    /\ CommandStarts(c)
    /\ Meets({"kiosk_delete"} \cup AtSync)
    /\ lite[d] # NoRow
    /\ lite' = [lite EXCEPT ![d] = NoRow]
    /\ cmd' = [cmd EXCEPT ![c] =
                 [pc |-> Route, msg |-> [op |-> "delete", day |-> d, row |-> NoRow]]]
    /\ deletedAt' = [deletedAt EXCEPT ![d] = clock']
    /\ UNCHANGED <<linkVars, app, pg, queueVars, taskVars>>

\* upsert_row_pg, or the DELETE, succeeds: the command returns Ok.
CallSucceeds(c) ==
    /\ cmd[c].pc = "call"
    /\ pgUp
    /\ pg' = Applied(cmd[c].msg)
    /\ cmd' = [cmd EXCEPT ![c] = Idle]
    /\ UNCHANGED <<linkVars, app, lite, queueVars, clock, taskVars, deletedAt, happened>>

\* It fails, before or after the statement took effect: mark_offline, and
\* the payload goes to the outbox.
CallFailsOver(c) ==
    /\ cmd[c].pc = "call"
    /\ CallFails
    /\ IF pgUp THEN pg' = Applied(cmd[c].msg) ELSE UNCHANGED pg
    /\ cmd' = [cmd EXCEPT ![c].pc = "queue"]
    /\ UNCHANGED <<app, lite, queueVars, clock, taskVars, deletedAt, happened>>

\* outbox::enqueue, and the command returns Ok.
CommandEnqueues(c) ==
    /\ cmd[c].pc = "queue"
    /\ Enqueue(cmd[c].msg)
    /\ cmd' = [cmd EXCEPT ![c] = Idle]
    /\ UNCHANGED <<linkVars, app, lite, pg, clock, taskVars, deletedAt, happened>>

-----------------------------------------------------------------------------
(* run_sync and get_users_and_cache.                                       *)

Spawn(w, j, pc) ==
    /\ wpc[w] = "idle"
    /\ wpc' = [wpc EXCEPT ![w] = pc]
    /\ job' = [job EXCEPT ![w] = j]
    /\ UNCHANGED <<todo, fetched, present>>

\* The task is over.  setup() finishes, and shows the main window, once its
\* run_sync has returned, with an error or without.
Finish(w) ==
    /\ wpc' = [wpc EXCEPT ![w] = "idle"]
    /\ job' = [job EXCEPT ![w] = "none"]
    /\ todo' = [todo EXCEPT ![w] = {}]
    /\ fetched' = [fetched EXCEPT ![w] = NoRows]
    /\ present' = [present EXCEPT ![w] = {}]
    /\ app' = IF job[w] = "boot" THEN "ready" ELSE app

Goto(w, pc) == wpc' = [wpc EXCEPT ![w] = pc] /\ UNCHANGED <<job, app>>

\* get_users_and_cache, a command of the webview.
Refresh(w) ==
    /\ app = "ready"
    /\ Spawn(w, "refresh", "pull")
    /\ Meets({"refresh"} \cup AtOthers(w))
    /\ UNCHANGED <<linkVars, app, lite, pg, queueVars, cmdVars, deletedAt>>

\* run_sync: nothing to do while offline; else the pending rows are read.
SyncBegins(w) ==
    /\ wpc[w] = "begin"
    /\ Meets(AtOthers(w))
    /\ \/ /\ ~online
          /\ Finish(w)
       \/ /\ online
          /\ todo' = [todo EXCEPT ![w] = outbox]
          /\ Goto(w, "replay")
          /\ UNCHANGED <<fetched, present>>
    /\ UNCHANGED <<linkVars, lite, pg, queueVars, cmdVars, deletedAt>>

\* The oldest row of the snapshot is applied to PostgreSQL.
SyncReplays(w) ==
    /\ wpc[w] = "replay"
    /\ pgUp
    /\ \E e \in todo[w] : IsOldest(e, todo[w]) /\ pg' = Applied(e.msg)
    /\ Goto(w, "mark")
    /\ UNCHANGED <<linkVars, lite, queueVars, cmdVars, todo, fetched, present, deletedAt, happened>>

\* mark_synced, a statement of its own on SQLite.
SyncMarks(w) ==
    /\ wpc[w] = "mark"
    /\ \E e \in todo[w] :
         /\ IsOldest(e, todo[w])
         /\ outbox' = MarkSynced(outbox, e)
         /\ todo' = [todo EXCEPT ![w] = @ \ {e}]
    /\ Goto(w, "replay")
    /\ UNCHANGED <<linkVars, lite, pg, nextId, cmdVars, fetched, present, deletedAt, happened>>

\* Mutant: any error is taken for a malformed row, which is dropped.
ReplayFailsDropping(w) ==
    /\ wpc[w] = "replay"
    /\ todo[w] # {}
    /\ ~pgUp
    /\ Goto(w, "mark")
    /\ UNCHANGED <<linkVars, lite, pg, queueVars, cmdVars, todo, fetched, present, deletedAt, happened>>

\* Mutant: the replay stops without mark_offline.
ReplayFailsOnline(w) ==
    /\ wpc[w] = "replay"
    /\ todo[w] # {}
    /\ ~pgUp
    /\ Finish(w)
    /\ UNCHANGED <<linkVars, lite, pg, queueVars, cmdVars, deletedAt, happened>>

\* The statement fails, with or without effect: mark_offline, stop.
SyncReplayFails(w) ==
    /\ wpc[w] = "replay"
    /\ todo[w] # {}
    /\ CallFails
    /\ \/ pgUp /\ \E e \in todo[w] : IsOldest(e, todo[w]) /\ pg' = Applied(e.msg)
       \/ ~pgUp /\ UNCHANGED pg
    /\ Finish(w)
    /\ UNCHANGED <<lite, queueVars, cmdVars, deletedAt, happened>>

SyncReplayed(w) ==
    /\ wpc[w] = "replay"
    /\ todo[w] = {}
    /\ Goto(w, "pull")
    /\ UNCHANGED <<linkVars, lite, pg, queueVars, cmdVars, todo, fetched, present, deletedAt, happened>>

AfterPull(w) == IF job[w] = "refresh" THEN Finish(w)
                ELSE Goto(w, "reap") /\ UNCHANGED <<todo, fetched, present>>

\* pull_master_data: skipped while offline; SELECT * FROM time_entries.  A
\* failed read ends run_sync and leaves the flag as it is.
SyncPulls(w) ==
    /\ wpc[w] = "pull"
    /\ \/ ~online /\ AfterPull(w)
       \/ online /\ ~pgUp /\ Finish(w)
       \/ /\ online /\ pgUp
          /\ fetched' = [fetched EXCEPT ![w] = pg]
          /\ Goto(w, "apply")
          /\ UNCHANGED <<todo, present>>
    /\ UNCHANGED <<linkVars, lite, pg, queueVars, cmdVars, deletedAt, happened>>

\* pull_from_pg: one guarded upsert for each row that was read.
SyncApplies(w) ==
    /\ wpc[w] = "apply"
    /\ \/ \E d \in Days :
            /\ fetched[w][d] # NoRow
            /\ lite' = [lite EXCEPT ![d] = Upserted(@, fetched[w][d])]
            /\ fetched' = [fetched EXCEPT ![w][d] = NoRow]
            /\ UNCHANGED <<app, job, wpc, todo, present>>
       \/ fetched[w] = NoRows /\ AfterPull(w) /\ UNCHANGED lite
    /\ UNCHANGED <<linkVars, pg, queueVars, cmdVars, deletedAt, happened>>

\* reap_deleted: the keys PostgreSQL holds now.  An error is only logged.
SyncListsPresent(w) ==
    /\ wpc[w] = "reap"
    /\ \/ ~(online /\ pgUp) /\ Finish(w)
       \/ /\ online /\ pgUp
          /\ present' = [present EXCEPT ![w] = {d \in Days : pg[d] # NoRow}]
          /\ Goto(w, "reaping")
          /\ UNCHANGED <<todo, fetched>>
    /\ UNCHANGED <<linkVars, lite, pg, queueVars, cmdVars, deletedAt, happened>>

\* reap_local_absent: list_local, and the rows not present are deleted.
SyncReaps(w) ==
    /\ wpc[w] = "reaping"
    /\ lite' = [d \in Days |-> IF d \in present[w] THEN lite[d] ELSE NoRow]
    /\ Finish(w)
    /\ UNCHANGED <<linkVars, pg, queueVars, cmdVars, deletedAt, happened>>

-----------------------------------------------------------------------------
(* The watch loop, the portal, the process and PostgreSQL.                 *)

Running == app # "down"

WatchProbes ==
    /\ Running
    /\ Probe
    /\ UNCHANGED <<app, lite, pg, queueVars, cmdVars, taskVars, deletedAt, happened>>

\* Mutant: the transition is only reported, and starts no run_sync.
WatchSwapsOnly ==
    /\ Running
    /\ SwapOnline
    /\ UNCHANGED <<app, lite, pg, queueVars, cmdVars, taskVars, deletedAt, happened>>

\* The swap; run_sync is spawned on a transition to online.
WatchSwaps ==
    /\ Running
    /\ SwapOnline
    /\ IF Reconnects THEN \E w \in Workers : Spawn(w, "sync", "begin")
                     ELSE UNCHANGED taskVars
    /\ UNCHANGED <<app, lite, pg, queueVars, cmdVars, deletedAt, happened>>

\* setPunchField: one column of the central row, updated_at = now().
PortalSets(d, f) ==
    /\ Meets({"portal_set"})
    /\ Running /\ pgUp
    /\ clock < MaxClock
    /\ clock' = clock + 1
    /\ pg' = [pg EXCEPT ![d] = WithField(@, f, clock')]
    /\ UNCHANGED <<linkVars, app, lite, queueVars, cmd, taskVars, deletedAt>>

\* deletePunchDay.
PortalDeletes(d) ==
    /\ Meets({"portal_delete"})
    /\ Running /\ pgUp
    /\ pg[d] # NoRow
    /\ clock < MaxClock
    /\ clock' = clock + 1
    /\ pg' = [pg EXCEPT ![d] = NoRow]
    /\ deletedAt' = [deletedAt EXCEPT ![d] = clock']
    /\ UNCHANGED <<linkVars, app, lite, queueVars, cmd, taskVars>>

\* setup: connect (online only when PostgreSQL answers), start the watch
\* loop, run_sync.
Boot ==
    /\ app = "down"
    /\ app' = "booting"
    /\ online' = pgUp
    /\ \E w \in Workers : Spawn(w, "boot", "begin")
    /\ UNCHANGED <<pgUp, probe, lite, pg, queueVars, cmdVars, deletedAt, happened>>

\* The process dies: SQLite and PostgreSQL keep what was written.
Crash ==
    /\ Meets({"crash"})
    /\ Running
    /\ app' = "down"
    /\ online' = FALSE
    /\ probe' = "asleep"
    /\ cmd' = [c \in Commands |-> Idle]
    /\ job' = [w \in Workers |-> "none"]
    /\ wpc' = [w \in Workers |-> "idle"]
    /\ todo' = [w \in Workers |-> {}]
    /\ fetched' = [w \in Workers |-> NoRows]
    /\ present' = [w \in Workers |-> {}]
    /\ UNCHANGED <<pgUp, lite, pg, queueVars, clock, deletedAt>>

PgChanges ==
    /\ PgGoesDown \/ PgComesUp
    /\ UNCHANGED <<app, lite, pg, queueVars, cmdVars, taskVars, deletedAt, happened>>

-----------------------------------------------------------------------------
CommandStep(c) ==
    \/ SetFieldRead(c)
    \/ CallSucceeds(c)
    \/ CallFailsOver(c)
    \/ CommandEnqueues(c)

TaskStep(w) ==
    \/ SyncBegins(w)
    \/ SyncReplays(w)
    \/ SyncReplayFails(w)
    \/ SyncMarks(w)
    \/ SyncReplayed(w)
    \/ SyncPulls(w)
    \/ SyncApplies(w)
    \/ SyncListsPresent(w)
    \/ SyncReaps(w)

Next ==
    \/ \E c \in Commands, d \in Days : \E f \in Fields : SetFieldLocal(c, d, f)
    \/ \E c \in Commands, d \in Days : DeleteDay(c, d)
    \/ \E c \in Commands : CommandStep(c)
    \/ \E w \in Workers : Refresh(w)
    \/ \E w \in Workers : TaskStep(w)
    \/ WatchProbes
    \/ WatchSwaps
    \/ \E d \in Days, f \in Fields : PortalSets(d, f)
    \/ \E d \in Days : PortalDeletes(d)
    \/ Boot
    \/ Crash
    \/ PgChanges

Spec == Init /\ [][Next]_vars

\* The steps the runtime takes by itself: a started process boots, its watch
\* loop wakes every 30 s, its tasks and commands are polled.  Nobody has to
\* punch, edit, refresh, crash, or repair PostgreSQL.
FairSpec ==
    /\ Spec
    /\ WF_vars(Boot)
    /\ WF_vars(WatchProbes) /\ WF_vars(WatchSwaps)
    /\ \A c \in Commands : WF_vars(CommandStep(c))
    /\ \A w \in Workers : WF_vars(TaskStep(w))

-----------------------------------------------------------------------------
(* Properties.                                                             *)

\* The write of day d made at time t is in PostgreSQL, alone or under a later
\* one, or somebody asked for the day's deletion since.
Central(d, t) ==
    \/ pg[d] # NoRow /\ t <= pg[d].at
    \/ t <= deletedAt[d]

Carries(m, d, t) == m.op = "upsert" /\ m.day = d /\ t <= m.row.at

InFlight(d, t) ==
    \E c \in Commands :
        \/ cmd[c].pc = "read" /\ cmd[c].day = d
        \/ cmd[c].pc \in {"call", "queue"} /\ Carries(cmd[c].msg, d, t)

Queued(d, t) == \E e \in outbox : Carries(e.msg, d, t)

Calm(hazards) == happened \cap hazards = {}

Accounted(d, t) == Central(d, t) \/ Queued(d, t) \/ InFlight(d, t)

(* No punch is stranded on the kiosk: a local row newer than the central    *)
(* one is always on its way, carried by a command in flight or waiting in   *)
(* sync_outbox, whatever the order in which commands, replays, pulls,       *)
(* reaps, portal edits and outages interleave (set_field, run_sync), unless *)
(* the process died or the kiosk deleted a day.                             *)
NoneStranded == \A d \in Days : lite[d] # NoRow => Accounted(d, lite[d].at)

NoPunchStranded == Calm({"crash", "kiosk_delete"}) => NoneStranded

(* Last write wins: on neither side does any step (a late replay, a direct  *)
(* write that overtook it, a pull of rows read before) put an older version *)
(* of a day over a newer one (UPSERT_ROW's guard on updated_at).            *)
Older(row, new) == row # NoRow /\ new # NoRow /\ new.at < row.at

LastWriteWins ==
    [][\A d \in Days : ~Older(pg[d], pg'[d]) /\ ~Older(lite[d], lite'[d])]_<<pg, lite>>

(* A deletion is a write too: a day comes back to PostgreSQL only with a    *)
(* punch made after its deletion was asked for (last write wins).           *)
DeletedStaysDeleted ==
    [][\A d \in Days :
        pg[d] = NoRow /\ pg'[d] # NoRow => deletedAt[d] < pg'[d].at]_pg

(* What reap is about to remove from the mirror was deleted by somebody:    *)
(* "any local time entry missing centrally was deleted elsewhere" (the      *)
(* comment in run_sync before reap_deleted).  True while nothing ran beside *)
(* the synchronisation, no crash lost a queued punch and no deletion of the *)
(* kiosk, which waits as blindly, took a later punch with it.               *)
ReapedWereDeleted ==
    \A w \in Workers : wpc[w] = "reaping" =>
        \A d \in Days \ present[w] :
            lite[d] # NoRow => lite[d].at <= deletedAt[d]

ReapsOnlyDeleted == Calm({"crash", "kiosk_delete", "overlap"}) => ReapedWereDeleted

(* A command "sets a single punch field" (set_field): no step replaces a    *)
(* column of a central row by NULL or by an older punch, unless the day was *)
(* deleted since that column was written.  The whole-row upsert does, when  *)
(* the portal wrote the row, or a pull is under way.                        *)
KeepsFields ==
    \A d \in Days : pg[d] # NoRow /\ pg'[d] # NoRow =>
        \A f \in Fields : \/ pg[d].cols[f] <= pg'[d].cols[f]
                          \/ pg[d].cols[f] <= deletedAt[d]

CentralFieldsKept == [][Calm({"portal_set", "overlap"}) => KeepsFields]_pg

Settles == <>[]pgUp

(* What was queued while offline is replayed after the reconnection         *)
(* (watch_loop spawns run_sync on the transition): it leaves the outbox,    *)
(* whatever commands, deletions and edits come in between.                  *)
OfflineQueueDrains ==
    Settles => \A i \in 0..MaxClock :
        (~online /\ \E e \in outbox : e.id = i)
            ~> (~Calm({"crash", "refresh"}) \/ \A e \in outbox : e.id # i)

(* Once PostgreSQL stays up and nobody punches any more, the outbox stays   *)
(* empty and the mirror holds exactly the central rows (run_sync).          *)
Converges == Settles => <>[](~Calm(Hazards) \/ (outbox = {} /\ lite = pg))

(* The queue is replayed on reconnection, so no row waits in it for ever.   *)
QueueDrains ==
    Settles => \A i \in 0..MaxClock :
        (\E e \in outbox : e.id = i) ~> (\A e \in outbox : e.id # i)

(* The kiosk "reconciles on a cycle": while PostgreSQL stays up, a central  *)
(* row reaches the mirror, in that version or in a later one.               *)
EditsReachMirror ==
    Settles => \A d \in Days, t \in 1..MaxClock :
        (pg[d] # NoRow /\ pg[d].at = t)
            ~> (pg[d] = NoRow \/ (lite[d] # NoRow /\ t <= lite[d].at))

\* The properties without their conditions.
AlwaysKeepsFields == [][KeepsFields]_pg
=============================================================================
