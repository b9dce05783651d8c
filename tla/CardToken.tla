----------------------------- MODULE CardToken ------------------------------
(***************************************************************************)
(* One card (one UID) under the rolling token protocol: its row in cards,  *)
(* replicated between the SQLite of each terminal and PostgreSQL, and the  *)
(* token its chip holds.                                                   *)
(*                                                                         *)
(*   - card_await_tap (flows::tap): find the row, read the chip, classify, *)
(*     persist pending, write the chip, promote;                           *)
(*   - provision_card, unprovision_card, set_card_status (reprovision and  *)
(*     employee_terminate block a card by the same calls);                 *)
(*   - cards::upsert and the outbox; run_sync with reconcile_card;         *)
(*   - outages seen by a terminal, its watch loop, crashes and restarts.   *)
(*                                                                         *)
(* Tokens are drawn fresh (16 random bytes) and stand for their hashes.    *)
(* A row's id is the token it was provisioned with: both are new then.     *)
(***************************************************************************)
EXTENDS Naturals, Sequences, FiniteSets

CONSTANTS
    Terminals,  \* kiosks, each with its SQLite
    Slots,      \* commands a kiosk can have in flight
    Chips,      \* physical cards that answer with the UID: more than one is a clone
    NoRow,      \* no row for that UID
    MaxTokens,  \* bound: tokens drawn
    MaxMixed,   \* bound: tokens drawn when a command has overlapped a replay;
                \* below MaxTokens, that and a copied chip do not meet
    MaxQueue,   \* bound: a terminal with more queued rows starts no command,
                \* and with as many no command of an administrator
    Env         \* what happens around the code, a subset of Hazards

\* "outage": PostgreSQL is out of a terminal's reach at times.
\* "crash": a terminal's process may die at any step.
\* "copy": somebody copies the chip.      "admin": cards are (un)blocked.
\* "unprovision": cards that were never tapped are unprovisioned.
\* "recycle": any card is, and provisioned again, as blocked ones are.
\* "concurrent": commands on the card interleave.
\* "overlap": commands overlap the replay of the same terminal's outbox.
Hazards == {"outage", "crash", "copy", "admin", "unprovision", "recycle", "concurrent", "overlap"}

ASSUME CardTokenAssumption ==
    /\ Terminals # {} /\ Slots # {} /\ Chips # {}
    /\ MaxTokens \in Nat /\ MaxMixed \in 0..MaxTokens /\ MaxQueue \in Nat
    /\ Env \subseteq Hazards

Null == 0       \* pending_token_hash IS NULL; a chip that holds no token
Tokens == 1..MaxTokens
MaybeToken == Tokens \cup {Null}

Card == [id : Tokens, active : Tokens, pending : MaybeToken,
         counter : Nat, status : {"active", "blocked"}]
MaybeCard == Card \cup {NoRow}

Commands == Terminals \X Slots
At(c) == c[1]

VARIABLES
    reach,      \* whether PostgreSQL answers each terminal
    online,     \* DbState.is_online of each terminal
    ready,      \* setup() is over: the main window takes commands
    pg,         \* PostgreSQL's row
    lite,       \* each terminal's row
    outbox,     \* each terminal's card_token_rotate rows not synced yet
    job,        \* each terminal's run_sync
    chip,       \* the token on each chip
    cmd,        \* each command
    drawn,      \* tokens drawn so far
    landed,     \* history: tokens that some chip has held
    oks,        \* history: taps answered Ok, by the token that was read
    alarmed,    \* history: some tap or replay blocked the card by itself
    happened,   \* history: "copy", two chips of the UID have held a token together;
                \* "overlap", a command ran while an outbox was replayed
                \* or the watch loop moved the flag
    verdict     \* history: the last decision on the card that was acknowledged

linkVars == <<reach, online, ready>>
history == <<landed, oks, alarmed, happened, verdict>>
started == <<landed, oks, alarmed, verdict>>
vars == <<linkVars, pg, lite, outbox, job, chip, cmd, drawn, history>>

Idle == [pc |-> "idle"]

\* A command's local variables: the row, what follows the upsert that is
\* under way ("write" the chip, "ok", "end"), the token the tap read.
CmdState == {Idle}
    \cup [pc : {"mirror"}, row : Card, flow : {"tap", "provision"}]
    \cup [pc : {"read"}, row : Card]
    \cup {[pc |-> "format"]}
    \cup [pc : {"wipe", "drop", "purge"}, id : Tokens]
    \cup [pc : {"save", "send", "queue", "write"}, row : Card,
          next : {"write", "ok", "end"}, shown : MaybeToken]

\* run_sync's local variables: rows of its snapshot left, the row in hand.
NoJob == [pc |-> "idle"]
JobState == {NoJob, [pc |-> "begin"]}
    \cup [pc : {"replay"}, left : Nat]
    \cup [pc : {"write", "force", "mirror", "mark"}, left : Nat, row : Card]

TypeOK ==
    /\ reach \in [Terminals -> BOOLEAN]
    /\ online \in [Terminals -> BOOLEAN]
    /\ ready \in [Terminals -> BOOLEAN]
    /\ pg \in MaybeCard
    /\ lite \in [Terminals -> MaybeCard]
    /\ outbox \in [Terminals -> Seq(Card)]
    /\ job \in [Terminals -> JobState]
    /\ chip \in [Chips -> MaybeToken]
    /\ cmd \in [Commands -> CmdState]
    /\ drawn \in 0..MaxTokens
    /\ landed \subseteq Tokens
    /\ oks \in [Tokens -> Nat]
    /\ alarmed \in BOOLEAN
    /\ happened \subseteq {"copy", "overlap"}
    /\ verdict \in {"active", "blocked", "unsure"}

\* Terminals that have just been started, blank cards, empty databases.
Init ==
    /\ reach \in [Terminals -> BOOLEAN]
    /\ "outage" \in Env \/ \A k \in Terminals : reach[k]
    /\ online = reach
    /\ ready = [k \in Terminals |-> FALSE]
    /\ pg = NoRow
    /\ lite = [k \in Terminals |-> NoRow]
    /\ outbox = [k \in Terminals |-> <<>>]
    /\ job = [k \in Terminals |-> [pc |-> "begin"]]
    /\ chip = [x \in Chips |-> Null]
    /\ cmd = [c \in Commands |-> Idle]
    /\ drawn = 0
    /\ landed = {}
    /\ oks = [t \in Tokens |-> 0]
    /\ alarmed = FALSE
    /\ happened = {}
    /\ verdict = "active"

-----------------------------------------------------------------------------
(* Statements on cards.                                                    *)

\* UPSERT conflicts on the id alone: another id under the UID breaks the
\* UNIQUE constraint and the statement fails.
Conflicts(stored, row) == stored # NoRow /\ stored.id # row.id

Blocked(row) == [row EXCEPT !.status = "blocked"]

\* reconcile_card: token_counter of the central row against the queued one.
CentralIsNewer(row) == pg # NoRow /\ pg.id = row.id /\ pg.counter > row.counter

-----------------------------------------------------------------------------
(* Commands: what they begin with.                                         *)

Goto(c, state) == cmd' = [cmd EXCEPT ![c] = state]

\* Bound: MaxTokens tokens, fewer once a command has overlapped a replay.
MayDraw == drawn < (IF "overlap" \in happened THEN MaxMixed ELSE MaxTokens)

\* Whether a command and a replay run together from now on.
Overlaps(now) ==
    /\ now => "overlap" \in Env /\ drawn < MaxMixed
    /\ now /\ MaxMixed < MaxTokens => "copy" \notin happened
    /\ happened' = IF now THEN happened \cup {"overlap"} ELSE happened

Starts(c) ==
    /\ ready[At(c)]
    /\ cmd[c] = Idle
    /\ Len(outbox[At(c)]) <= MaxQueue
    /\ "concurrent" \in Env \/ \A d \in Commands : cmd[d] = Idle
    /\ Overlaps(\E k \in Terminals : job[k] # NoJob)

Saving(row, next, shown) ==
    [pc |-> "save", row |-> row, next |-> next, shown |-> shown]

\* tap and provision: find_by_uid.  Online it asks PostgreSQL, an error ends
\* the command; the row is then written over the mirror.
Finds(c, flow, absent) ==
    LET k == At(c) IN
    IF online[k]
    THEN /\ reach[k]
         /\ Goto(c, IF pg = NoRow THEN absent
                    ELSE [pc |-> "mirror", row |-> pg, flow |-> flow])
    ELSE Goto(c, IF lite[k] = NoRow THEN absent
                 ELSE IF flow = "provision" /\ lite[k].status # "blocked" THEN Idle
                 ELSE IF flow = "provision" THEN [pc |-> "format"]
                 ELSE IF lite[k].status = "blocked" THEN Idle
                 ELSE [pc |-> "read", row |-> lite[k]])

\* A tap of an unknown card ends at once.
TapStarts(c) ==
    /\ Starts(c)
    /\ MayDraw
    /\ Finds(c, "tap", Idle)
    /\ cmd'[c] # Idle
    /\ UNCHANGED <<linkVars, pg, lite, outbox, job, chip, drawn, started>>

ProvisionStarts(c) ==
    /\ Starts(c)
    /\ MayDraw
    /\ drawn = 0 \/ "recycle" \in Env
    /\ Finds(c, "provision", [pc |-> "format"])
    /\ cmd'[c] # Idle
    /\ UNCHANGED <<linkVars, pg, lite, outbox, job, chip, drawn, started>>

\* find_by_uid: upsert_local of the central row, and what the flow decides
\* on its status.  A constraint error ends the command.
Mirrors(c) ==
    /\ cmd[c].pc = "mirror"
    /\ LET k == At(c)
           row == cmd[c].row
       IN IF Conflicts(lite[k], row)
          THEN Goto(c, Idle) /\ UNCHANGED lite
          ELSE /\ lite' = [lite EXCEPT ![k] = row]
               /\ Goto(c, CASE cmd[c].flow = "tap" /\ row.status = "active" ->
                                [pc |-> "read", row |-> row]
                            [] cmd[c].flow = "provision" /\ row.status = "blocked" ->
                                [pc |-> "format"]
                            [] OTHER -> Idle)
    /\ UNCHANGED <<linkVars, pg, outbox, job, chip, drawn, history>>

\* set_card_status: find_by_id, and the status changed in the copy.
AdminStarts(c, s) ==
    /\ "admin" \in Env
    /\ Starts(c)
    /\ Len(outbox[At(c)]) < MaxQueue
    /\ LET row == IF online[At(c)] THEN pg ELSE lite[At(c)] IN
       /\ online[At(c)] => reach[At(c)]
       /\ row # NoRow
       /\ row.status # s
       /\ Goto(c, Saving([row EXCEPT !.status = s], "end", Null))
    /\ UNCHANGED <<linkVars, pg, lite, outbox, job, chip, drawn, started>>

\* unprovision_card: find_by_id.
UnprovisionStarts(c) ==
    /\ "recycle" \in Env \/ ("unprovision" \in Env /\ drawn = 1)
    /\ Starts(c)
    /\ LET row == IF online[At(c)] THEN pg ELSE lite[At(c)] IN
       /\ online[At(c)] => reach[At(c)]
       /\ row # NoRow
       /\ Goto(c, [pc |-> "wipe", id |-> row.id])
    /\ UNCHANGED <<linkVars, pg, lite, outbox, job, chip, drawn, started>>

-----------------------------------------------------------------------------
(* Commands: the chip.                                                     *)

Held(tokens) == {tokens[x] : x \in Chips} \ {Null}

\* Mutant: the pending token is not looked at.
ClassifyActiveOnly(token, row) == IF token = row.active THEN "Active" ELSE "Clone"

Classify(token, row) ==
    IF token = row.active THEN "Active"
    ELSE IF token = row.pending THEN "Pending"
    ELSE "Clone"

\* read_state, classify_token, and the copy of the row to persist first: a
\* new pending token, after promoting the pending one that was read, or the
\* status blocked.
TapReads(c, x) ==
    /\ cmd[c].pc = "read"
    /\ chip[x] # Null
    /\ MayDraw
    /\ LET row == cmd[c].row
           promoted == [row EXCEPT !.active = chip[x], !.counter = @ + 1]
           match == Classify(chip[x], row)
       IN IF match = "Clone"
          THEN /\ Goto(c, Saving(Blocked(row), "end", Null))
               /\ alarmed' = TRUE
               /\ UNCHANGED drawn
          ELSE /\ drawn' = drawn + 1
               /\ Goto(c, Saving([(IF match = "Pending" THEN promoted ELSE row)
                                    EXCEPT !.pending = drawn'], "write", chip[x]))
               /\ UNCHANGED alarmed
    /\ UNCHANGED <<linkVars, pg, lite, outbox, job, chip, landed, oks, happened, verdict>>

\* No card comes within 5 s, or it refuses to authenticate.
CardMissing(c) ==
    /\ cmd[c].pc \in {"read", "format", "wipe"}
    /\ Goto(c, Idle)
    /\ UNCHANGED <<linkVars, pg, lite, outbox, job, chip, drawn, history>>

\* Mutant: a token that did not land is promoted all the same.
WritesUnverified(c, x) ==
    /\ cmd[c].pc = "write"
    /\ chip[x] # Null
    /\ LET row == cmd[c].row
           promoted == [row EXCEPT !.active = row.pending, !.pending = Null,
                                   !.counter = @ + 1]
       IN /\ chip' \in {chip, [chip EXCEPT ![x] = row.pending]}
          /\ Goto(c, Saving(promoted, "ok", cmd[c].shown))
    /\ landed' = landed \cup Held(chip')
    /\ UNCHANGED <<linkVars, pg, lite, outbox, job, drawn, oks, alarmed, happened, verdict>>

\* write_token.  It may fail before the token block is written or after (the
\* counter block, the read-back): then the tap ends with pending set.
TapWrites(c, x) ==
    /\ cmd[c].pc = "write"
    /\ chip[x] # Null
    /\ LET row == cmd[c].row
           promoted == [row EXCEPT !.active = row.pending, !.pending = Null,
                                   !.counter = @ + 1]
       IN \/ /\ chip' = [chip EXCEPT ![x] = row.pending]
             /\ cmd' \in {[cmd EXCEPT ![c] = Saving(promoted, "ok", cmd[c].shown)],
                          [cmd EXCEPT ![c] = Idle]}
          \/ Goto(c, Idle) /\ UNCHANGED chip
    /\ landed' = landed \cup Held(chip')
    /\ UNCHANGED <<linkVars, pg, lite, outbox, job, drawn, oks, alarmed, happened, verdict>>

\* service.provision, and the row of the card as new.  The write may fail
\* before the token block or after.
Formats(c, x) ==
    /\ cmd[c].pc = "format"
    /\ MayDraw
    /\ drawn' = drawn + 1
    /\ chip' = [chip EXCEPT ![x] = drawn']
    /\ \/ Goto(c, Saving([id |-> drawn', active |-> drawn', pending |-> Null,
                          counter |-> 0, status |-> "active"], "end", Null))
       \/ Goto(c, Idle)
    /\ landed' = landed \cup Held(chip')
    /\ happened' = IF \E y \in Chips \ {x} : chip[y] # Null
                   THEN happened \cup {"copy"} ELSE happened
    /\ UNCHANGED <<linkVars, pg, lite, outbox, job, oks, alarmed, verdict>>

\* service.unprovision: factory keys, blocks wiped.
Wipes(c, x) ==
    /\ cmd[c].pc = "wipe"
    /\ chip[x] # Null
    /\ chip' = [chip EXCEPT ![x] = Null]
    /\ \/ Goto(c, [pc |-> "drop", id |-> cmd[c].id])
       \/ Goto(c, Idle)
    /\ UNCHANGED <<linkVars, pg, lite, outbox, job, drawn, history>>

\* cards::delete: locally, then in PostgreSQL when online.  Offline nothing
\* is queued.
Drops(c) ==
    /\ cmd[c].pc = "drop"
    /\ LET k == At(c) IN
       /\ lite' = [lite EXCEPT ![k] = IF @ # NoRow /\ @.id = cmd[c].id THEN NoRow ELSE @]
       /\ Goto(c, IF online[k] THEN [cmd[c] EXCEPT !.pc = "purge"] ELSE Idle)
    /\ UNCHANGED <<linkVars, pg, outbox, job, chip, drawn, history>>

\* The DELETE in PostgreSQL, or its error, which ends the command.
Purges(c) ==
    /\ cmd[c].pc = "purge"
    /\ pg' = IF reach[At(c)] /\ pg # NoRow /\ pg.id = cmd[c].id THEN NoRow ELSE pg
    /\ Goto(c, Idle)
    /\ UNCHANGED <<linkVars, lite, outbox, job, chip, drawn, history>>

-----------------------------------------------------------------------------
(* Commands: cards::upsert, and what follows it.                           *)

\* The upsert is done: the tap goes on to write the chip, or the command
\* returns Ok.
Proceeds(c) ==
    LET m == cmd[c] IN
    /\ Goto(c, IF m.next = "write" THEN [m EXCEPT !.pc = "write"] ELSE Idle)
    /\ oks' = IF m.next = "ok" THEN [oks EXCEPT ![m.shown] = @ + 1] ELSE oks
    /\ verdict' = IF m.next = "end" THEN m.row.status ELSE verdict
    /\ UNCHANGED <<landed, alarmed, happened>>

\* upsert_local, and the flag that routes the rest.
Saves(c) ==
    /\ cmd[c].pc = "save"
    /\ LET k == At(c) IN
       IF Conflicts(lite[k], cmd[c].row)
       THEN Goto(c, Idle) /\ UNCHANGED lite
       ELSE /\ lite' = [lite EXCEPT ![k] = cmd[c].row]
            /\ Goto(c, [cmd[c] EXCEPT !.pc = IF online[k] THEN "send" ELSE "queue"])
    /\ UNCHANGED <<linkVars, pg, outbox, job, chip, drawn, history>>

\* upsert_pg succeeds.
Sends(c) ==
    /\ cmd[c].pc = "send"
    /\ reach[At(c)]
    /\ ~Conflicts(pg, cmd[c].row)
    /\ pg' = cmd[c].row
    /\ Proceeds(c)
    /\ UNCHANGED <<linkVars, lite, outbox, job, chip, drawn>>

\* PostgreSQL is lost, maybe when the statement had taken effect: its reach
\* ends and mark_offline is called.
Loses(k, row) ==
    /\ "outage" \in Env
    /\ reach' = [reach EXCEPT ![k] = FALSE]
    /\ pg' = IF reach[k] /\ ~Conflicts(pg, row) THEN row ELSE pg

\* A constraint is violated, which counts as being offline too.
Refused(row) == Conflicts(pg, row) /\ UNCHANGED <<reach, pg>>

\* upsert_pg fails: mark_offline, and the row goes to the outbox.
SendFails(c) ==
    /\ cmd[c].pc = "send"
    /\ LET k == At(c) IN
       /\ Loses(k, cmd[c].row) \/ (reach[k] /\ Refused(cmd[c].row))
       /\ online' = [online EXCEPT ![k] = FALSE]
    /\ Goto(c, [cmd[c] EXCEPT !.pc = "queue"])
    /\ UNCHANGED <<ready, lite, outbox, job, chip, drawn, history>>

\* Mutant: nothing is queued for the replay.
QueuesNothing(c) ==
    /\ cmd[c].pc = "queue"
    /\ Proceeds(c)
    /\ UNCHANGED <<linkVars, pg, lite, outbox, job, chip, drawn>>

\* outbox::enqueue.
Queues(c) ==
    /\ cmd[c].pc = "queue"
    /\ outbox' = [outbox EXCEPT ![At(c)] = Append(@, cmd[c].row)]
    /\ Proceeds(c)
    /\ UNCHANGED <<linkVars, pg, lite, job, chip, drawn>>

-----------------------------------------------------------------------------
(* run_sync on one terminal, for card_token_rotate rows.                   *)

JobGoes(k, state) == job' = [job EXCEPT ![k] = state]

\* The task returns, and lets setup() finish if that is where it runs.
JobEnds(k) == JobGoes(k, NoJob) /\ ready' = [ready EXCEPT ![k] = TRUE]

InHand(k) == Head(outbox[k])

\* run_sync: nothing to do while offline; else a snapshot of the pending rows.
SyncBegins(k) ==
    /\ job[k].pc = "begin"
    /\ IF online[k]
       THEN JobGoes(k, [pc |-> "replay", left |-> Len(outbox[k])]) /\ UNCHANGED ready
       ELSE JobEnds(k)
    /\ UNCHANGED <<reach, online, pg, lite, outbox, chip, cmd, drawn, history>>

\* reconcile_card: the central counter is read; if it is ahead, the queued
\* row will be written as blocked.
SyncCompares(k) ==
    /\ job[k].pc = "replay" /\ job[k].left > 0
    /\ reach[k]
    /\ LET row == InHand(k) IN
       IF CentralIsNewer(row)
       THEN /\ JobGoes(k, [pc |-> "force", left |-> job[k].left, row |-> Blocked(row)])
            /\ alarmed' = TRUE
       ELSE /\ JobGoes(k, [pc |-> "write", left |-> job[k].left, row |-> row])
            /\ UNCHANGED alarmed
    /\ UNCHANGED <<linkVars, pg, lite, outbox, chip, cmd, drawn, landed, oks, happened, verdict>>

\* upsert_pg of the row in hand.
SyncWrites(k) ==
    /\ job[k].pc \in {"write", "force"}
    /\ reach[k]
    /\ ~Conflicts(pg, job[k].row)
    /\ pg' = job[k].row
    /\ JobGoes(k, [job[k] EXCEPT !.pc = IF @ = "force" THEN "mirror" ELSE "mark"])
    /\ verdict' = IF job[k].pc = "force" THEN "blocked" ELSE verdict
    /\ UNCHANGED <<linkVars, lite, outbox, chip, cmd, drawn, landed, oks, alarmed, happened>>

\* upsert_local of the blocked row.
SyncMirrors(k) ==
    /\ job[k].pc = "mirror"
    /\ ~Conflicts(lite[k], job[k].row)
    /\ lite' = [lite EXCEPT ![k] = job[k].row]
    /\ JobGoes(k, [job[k] EXCEPT !.pc = "mark"])
    /\ UNCHANGED <<linkVars, pg, outbox, chip, cmd, drawn, history>>

\* mark_synced.
SyncMarks(k) ==
    /\ job[k].pc = "mark"
    /\ outbox' = [outbox EXCEPT ![k] = Tail(@)]
    /\ JobGoes(k, [pc |-> "replay", left |-> job[k].left - 1])
    /\ UNCHANGED <<linkVars, pg, lite, chip, cmd, drawn, history>>

\* Mutant: the replay stops without mark_offline.
SyncFailsOnline(k) ==
    /\ job[k].pc = "replay" /\ job[k].left > 0
    /\ "outage" \in Env
    /\ reach' = [reach EXCEPT ![k] = FALSE]
    /\ JobEnds(k)
    /\ UNCHANGED <<online, pg, lite, outbox, chip, cmd, drawn, history>>

\* Any error, of the connection or of a constraint: mark_offline, and the
\* rest of the queue stays.
SyncFails(k) ==
    /\ \/ /\ job[k].pc = "replay" /\ job[k].left > 0
          /\ "outage" \in Env
          /\ reach' = [reach EXCEPT ![k] = FALSE]
          /\ UNCHANGED pg
       \/ /\ job[k].pc \in {"write", "force"}
          /\ Loses(k, job[k].row) \/ (reach[k] /\ Refused(job[k].row))
       \/ /\ job[k].pc = "mirror"
          /\ Conflicts(lite[k], job[k].row)
          /\ UNCHANGED <<reach, pg>>
    /\ online' = [online EXCEPT ![k] = FALSE]
    /\ JobEnds(k)
    /\ UNCHANGED <<lite, outbox, chip, cmd, drawn, history>>

\* The snapshot is replayed; what run_sync pulls then holds no cards.
SyncEnds(k) ==
    /\ job[k].pc = "replay" /\ job[k].left = 0
    /\ JobEnds(k)
    /\ UNCHANGED <<reach, online, pg, lite, outbox, chip, cmd, drawn, history>>

-----------------------------------------------------------------------------
(* The watch loop, the process, PostgreSQL and the chips.                  *)

\* watch_loop: what the probe saw replaces the flag; a transition to online
\* spawns run_sync.
Watches(k) ==
    /\ online[k] # reach[k]
    /\ job[k] = NoJob
    /\ Overlaps(\E c \in Commands : cmd[c] # Idle)
    /\ online' = [online EXCEPT ![k] = reach[k]]
    /\ IF reach[k] THEN JobGoes(k, [pc |-> "begin"]) ELSE UNCHANGED job
    /\ UNCHANGED <<reach, ready, pg, lite, outbox, chip, cmd, drawn, started>>

ReachChanges(k) ==
    /\ "outage" \in Env
    /\ reach' = [reach EXCEPT ![k] = ~@]
    /\ UNCHANGED <<online, ready, pg, lite, outbox, job, chip, cmd, drawn, history>>

\* The process dies and is started again: setup() connects and runs run_sync.
\* A decision that was under way may or may not have been stored.
Restarts(k) ==
    /\ "crash" \in Env
    /\ ready[k]
    /\ ready' = [ready EXCEPT ![k] = FALSE]
    /\ online' = [online EXCEPT ![k] = reach[k]]
    /\ JobGoes(k, [pc |-> "begin"])
    /\ cmd' = [c \in Commands |-> IF At(c) = k THEN Idle ELSE cmd[c]]
    /\ verdict' = IF \E c \in Commands :
                        At(c) = k /\ cmd[c].pc \in {"save", "send", "queue"} /\ cmd[c].next = "end"
                  THEN "unsure" ELSE verdict
    /\ UNCHANGED <<reach, pg, lite, outbox, chip, drawn, landed, oks, alarmed, happened>>

\* A chip that holds nothing becomes a copy of one that holds a token.
CopyChip(x, y) ==
    /\ "copy" \in Env
    /\ chip[x] # Null /\ chip[y] = Null
    /\ "overlap" \notin happened \/ MaxMixed = MaxTokens
    /\ chip' = [chip EXCEPT ![y] = chip[x]]
    /\ happened' = happened \cup {"copy"}
    /\ UNCHANGED <<linkVars, pg, lite, outbox, job, cmd, drawn, landed, oks, alarmed, verdict>>

-----------------------------------------------------------------------------
CommandStarts(c) ==
    \/ TapStarts(c)
    \/ ProvisionStarts(c)
    \/ \E s \in {"active", "blocked"} : AdminStarts(c, s)
    \/ UnprovisionStarts(c)

CommandStep(c) ==
    \/ Mirrors(c)
    \/ \E x \in Chips : TapReads(c, x) \/ TapWrites(c, x) \/ Formats(c, x) \/ Wipes(c, x)
    \/ CardMissing(c)
    \/ Drops(c)
    \/ Purges(c)
    \/ Saves(c)
    \/ Sends(c)
    \/ SendFails(c)
    \/ Queues(c)

SyncStep(k) ==
    \/ SyncBegins(k)
    \/ SyncCompares(k)
    \/ SyncWrites(k)
    \/ SyncMirrors(k)
    \/ SyncMarks(k)
    \/ SyncFails(k)
    \/ SyncEnds(k)

Next ==
    \/ \E c \in Commands : CommandStarts(c)
    \/ \E c \in Commands : CommandStep(c)
    \/ \E k \in Terminals : SyncStep(k)
    \/ \E k \in Terminals : Watches(k)
    \/ \E k \in Terminals : ReachChanges(k)
    \/ \E k \in Terminals : Restarts(k)
    \/ \E x, y \in Chips : CopyChip(x, y)

Spec == Init /\ [][Next]_vars

\* The runtime polls commands (waiting for a card times out) and tasks; the
\* watch loop wakes every 30 s, so commands do not keep it from reconnecting
\* for ever.  Nobody has to start a command or repair the network.
FairSpec ==
    /\ Spec
    /\ \A c \in Commands : WF_vars(CommandStep(c))
    /\ \A k \in Terminals : WF_vars(SyncStep(k)) /\ SF_vars(Watches(k))

-----------------------------------------------------------------------------
(* Properties.                                                             *)

\* One terminal, which runs one command on the card at a time.
OneByOne == "concurrent" \notin Env /\ \E k \in Terminals : Terminals = {k}

(* "A stale token means a clone diverged" (flows.rs): neither a tap nor a   *)
(* replay of the only terminal blocks a card of which no copy exists,       *)
(* whatever the failures, crashes and outages in the middle of earlier      *)
(* rotations, as long as no command overlapped a replay and no card was     *)
(* provisioned again (offline, its new row is refused for ever).            *)
NoFalseAlarm == OneByOne /\ "recycle" \notin Env /\ alarmed => happened # {}

(* "A token validates exactly once even if any single step fails" (tap):    *)
(* no token is answered Ok twice, by a chip, its copy or after a crash, on  *)
(* the only terminal; a chip was not copied when a command overlapped a     *)
(* replay, which may then write an older token over a newer one.            *)
ValidatesOnce ==
    OneByOne /\ happened # {"copy", "overlap"} => \A t \in Tokens : oks[t] <= 1

\* Nothing is under way and nothing waits.
Settled ==
    /\ \A c \in Commands : cmd[c] = Idle
    /\ \A k \in Terminals : job[k] = NoJob /\ outbox[k] = <<>>

(* A token becomes active only "after a verified card write" (migration      *)
(* 0001): every database's active token has been on a chip, whatever else   *)
(* goes on.                                                                 *)
ActiveWasWritten ==
    \A row \in ({pg} \cup {lite[k] : k \in Terminals}) \ {NoRow} : row.active \in landed

(* A card that was blocked (by an administrator, a clone detection, a       *)
(* termination or a replacement) stops working: once everything under way   *)
(* and queued is over, the central row is blocked, unless it was unblocked. *)
(* False with two terminals (card_conflict.cfg).                            *)
BlockLasts ==
    Settled /\ verdict = "blocked" /\ pg # NoRow => pg.status = "blocked"

(* The same for the only terminal, as long as no command overlapped a       *)
(* replay.                                                                  *)
BlockHolds == OneByOne /\ "overlap" \notin happened => BlockLasts

(* The replay does not overwrite a newer token (reconcile_card): no step    *)
(* puts a row with a lower counter over the central row of the same card.   *)
NewerTokenKept ==
    [][pg # NoRow /\ pg' # NoRow /\ pg'.id = pg.id => pg.counter <= pg'.counter]_pg

(* A token used offline on two terminals is noticed ("the synchronisation   *)
(* detects the conflict on the token's counter", README): once everything   *)
(* is settled, a token that was accepted twice has raised an alarm.         *)
DoubleUseDetected == Settled /\ (\E t \in Tokens : oks[t] > 1) => alarmed

\* PostgreSQL stays in reach and the kiosks stay up.
Settles == \A k \in Terminals : <>[](reach[k] /\ ready[k])

(* Rotations queued offline are replayed when PostgreSQL is back, "retry on *)
(* next cycle" (run_sync): the outbox of each terminal empties.  A command  *)
(* that overlaps the replay may queue a row it does not take with it.       *)
RotationsReplayed ==
    Settles /\ []("overlap" \notin happened) =>
        \A k \in Terminals : (outbox[k] # <<>>) ~> (outbox[k] = <<>>)
=============================================================================
