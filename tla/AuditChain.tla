----------------------------- MODULE AuditChain -----------------------------
(***************************************************************************)
(* The hash-chained audit trail of the sidecar (auth_audit_log).           *)
(*                                                                         *)
(*   - logAudit: events are written one after the other on chainTail, each *)
(*     by reading the last self_hash and inserting the next row;           *)
(*   - pruneAuditLog: the retention job deletes the rows past the window;  *)
(*   - verifyAuditChain: walks the rows that are left.                     *)
(*                                                                         *)
(* A row's self_hash stands for the row and so does its seq: the hash is   *)
(* taken to be injective, and prev_hash is the seq of the row it names.    *)
(***************************************************************************)
EXTENDS Integers

CONSTANTS
    Sidecars,   \* sidecar processes on the database
    Window,     \* AUDIT_RETENTION_YEARS, in ticks of the clock
    MaxEvents,  \* bound: events logged
    MaxTime,    \* bound: the highest value of the clock
    Env         \* what happens around the code, a subset of Hazards

\* "insert_fails": an insert does not take effect.
\* "restart": a sidecar is killed and started again.
\* "clock_back": the clock is set back.
Hazards == {"insert_fails", "restart", "clock_back"}

ASSUME AuditChainAssumption ==
    /\ Window \in Nat /\ MaxEvents \in Nat /\ MaxTime \in Nat
    /\ Env \subseteq Hazards

Null == 0       \* prev_hash IS NULL

Row == [seq : Nat \ {Null}, prev : Nat, at : Nat]
Write == [by : Sidecars, prev : Nat, at : Nat]

VARIABLES
    log,        \* auth_audit_log
    nextSeq,    \* the BIGSERIAL of seq, from 1
    waiting,    \* events of each sidecar behind the end of its chainTail
    writing,    \* entries whose previous hash was read and that are not inserted yet
    now,        \* the clock
    logged,     \* history: events logged so far
    orderly     \* history: no two sidecars wrote at once, no clock was set back

vars == <<log, nextSeq, waiting, writing, now, logged, orderly>>

TypeOK ==
    /\ log \subseteq Row
    /\ nextSeq \in Nat \ {Null}
    /\ waiting \in [Sidecars -> Nat]
    /\ writing \subseteq Write
    /\ now \in Nat
    /\ logged \in Nat
    /\ orderly \in BOOLEAN

Init ==
    /\ log = {}
    /\ nextSeq = 1
    /\ waiting = [s \in Sidecars |-> 0]
    /\ writing = {}
    /\ now = 0
    /\ logged = 0
    /\ orderly = TRUE

-----------------------------------------------------------------------------
IsFirst(r, rows) == \A q \in rows : r.seq <= q.seq
IsLast(r, rows) == \A q \in rows : q.seq <= r.seq

\* SELECT self_hash ... ORDER BY seq DESC LIMIT 1, or null.
Tails ==
    IF log = {} THEN {Null} ELSE {r.seq : r \in {q \in log : IsLast(q, log)}}

\* Mutant: logAudit does not wait for the write before it.
FreeAlways(s) == TRUE

\* chainTail.then: no other write of this sidecar is under way.
Free(s) == \A w \in writing : w.by # s

\* logAudit: the event joins the end of chainTail; nobody waits for it.
LogAudit(s) ==
    /\ logged < MaxEvents
    /\ logged' = logged + 1
    /\ waiting' = [waiting EXCEPT ![s] = @ + 1]
    /\ UNCHANGED <<log, nextSeq, writing, now, orderly>>

\* writeEntry, first half: the last self_hash, then createdAt.
ReadsTail(s) ==
    /\ waiting[s] > 0
    /\ Free(s)
    /\ waiting' = [waiting EXCEPT ![s] = @ - 1]
    /\ \E p \in Tails : writing' = writing \cup {[by |-> s, prev |-> p, at |-> now]}
    /\ orderly' = (orderly /\ \A w \in writing : w.by = s)
    /\ UNCHANGED <<log, nextSeq, now, logged>>

Executes(w) ==
    /\ log' = log \cup {[seq |-> nextSeq, prev |-> w.prev, at |-> w.at]}
    /\ nextSeq' = nextSeq + 1

\* writeEntry, second half: the INSERT.
Inserts(w) ==
    /\ Executes(w)
    /\ writing' = writing \ {w}
    /\ UNCHANGED <<waiting, now, logged, orderly>>

\* The INSERT fails, and the catch lets the next event through. (One that took
\* effect and is only reported as failed is Inserts.)
InsertFails(w) ==
    /\ "insert_fails" \in Env
    /\ writing' = writing \ {w}
    /\ UNCHANGED <<log, nextSeq, waiting, now, logged, orderly>>

\* The sidecar is killed: its queue is lost, and an INSERT it had sent is
\* executed or not before the next process is up.
Restart(s) ==
    /\ "restart" \in Env
    /\ waiting' = [waiting EXCEPT ![s] = 0]
    /\ writing' = {w \in writing : w.by # s}
    /\ \/ UNCHANGED <<log, nextSeq>>
       \/ \E w \in writing : w.by = s /\ Executes(w)
    /\ UNCHANGED <<now, logged, orderly>>

\* Mutant: the comparison is the wrong way round.
ExpiredSwapped(r) == r.at + Window > now

\* created_at < cutoff.
Expired(r) == r.at + Window < now

\* runRetention: pruneAuditLog, then the event that says so.
Prune(s) ==
    /\ \E r \in log : Expired(r)
    /\ logged < MaxEvents
    /\ log' = {r \in log : ~Expired(r)}
    /\ logged' = logged + 1
    /\ waiting' = [waiting EXCEPT ![s] = @ + 1]
    /\ UNCHANGED <<nextSeq, writing, now, orderly>>

Tick ==
    /\ now < MaxTime
    /\ now' = now + 1
    /\ UNCHANGED <<log, nextSeq, waiting, writing, logged, orderly>>

ClockBack ==
    /\ "clock_back" \in Env
    /\ now > 0
    /\ now' = now - 1
    /\ orderly' = FALSE
    /\ UNCHANGED <<log, nextSeq, waiting, writing, logged>>

Next ==
    \/ \E s \in Sidecars :
         \/ LogAudit(s)
         \/ ReadsTail(s)
         \/ Restart(s)
         \/ Prune(s)
    \/ \E w \in writing : Inserts(w) \/ InsertFails(w)
    \/ Tick
    \/ ClockBack

Spec == Init /\ [][Next]_vars

-----------------------------------------------------------------------------
\* Mutant: each row is hashed with the prev_hash it carries itself.
VerifyOkAlone(rows) ==
    \A r \in rows : IsFirst(r, rows) \/ r.prev < r.seq

\* verifyAuditChain: every row names the one before it; the first is the anchor.
VerifyOk(rows) ==
    \A r \in rows :
        \/ IsFirst(r, rows)
        \/ \E q \in rows : /\ q.seq < r.seq /\ r.prev = q.seq
                            /\ \A x \in rows : x.seq <= q.seq \/ r.seq <= x.seq

\* The chain verifies whatever was pruned, lost or restarted, as long as no two
\* sidecars write at once and no clock is set back (pruneAuditLog: "verifyAuditChain
\* still validates everything that remains").
ChainVerifies == orderly => VerifyOk(log)

\* Removing a row from the middle of the trail is noticed (verifyAuditChain: "any
\* divergence means tampering").
RemovalShows ==
    orderly =>
        \A r \in log :
            (\E a, b \in log : a.seq < r.seq /\ r.seq < b.seq) => ~VerifyOk(log \ {r})

\* The trail grows only at its new end, each row naming the one before it, and is
\* cut only at its old end by the retention job: what Trail promises, under the
\* same conditions.
Chain == INSTANCE Trail WITH trail <- log, top <- nextSeq - 1, trusted <- orderly
IsTrail == Chain!Spec
=============================================================================
