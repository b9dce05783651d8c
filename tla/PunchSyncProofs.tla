-------------------------- MODULE PunchSyncProofs ---------------------------
(***************************************************************************)
(* What TLAPS proves of PunchSync for every number of days, columns,       *)
(* commands and tasks: the type invariant, that no punch is stranded while *)
(* the kiosk neither crashes nor deletes days, that last write wins, what  *)
(* the reap removes and that columns are kept.                             *)
(***************************************************************************)
EXTENDS PunchSync, TLAPS

-----------------------------------------------------------------------------
(* Type correctness.                                                       *)

\* The columns and the timestamp a write leaves behind make a row.
LEMMA WithFieldType ==
    ASSUME NEW stored \in MaybeRow, NEW f \in Fields, NEW t \in Nat
    PROVE  WithField(stored, f, t) \in Row
  BY PunchSyncAssumption DEF WithField, MaybeRow, Row

LEMMA UpsertedType ==
    ASSUME NEW stored \in MaybeRow, NEW row \in Row
    PROVE  Upserted(stored, row) \in Row
  BY DEF Upserted, Supersedes, MaybeRow

LEMMA AppliedType ==
    ASSUME pg \in [Days -> MaybeRow], NEW m \in Msg
    PROVE  Applied(m) \in [Days -> MaybeRow]
  BY UpsertedType DEF Applied, Msg, MaybeRow

LEMMA TypeInit == Init => TypeOK
  <1> SUFFICES ASSUME Init PROVE TypeOK
    OBVIOUS
  <1>1. NoRows \in [Days -> MaybeRow]
    BY DEF NoRows, MaybeRow
  <1>2. cmd \in [Commands -> CmdState]
    BY DEF Init, CmdState
  <1>3. fetched \in [Workers -> [Days -> MaybeRow]]
    BY <1>1 DEF Init
  <1>4. /\ job \in [Workers -> {"none", "boot", "sync", "refresh"}]
        /\ wpc \in [Workers -> {"idle", "begin", "replay", "mark", "pull",
                                "apply", "reap", "reaping"}]
        /\ todo \in [Workers -> SUBSET Entry]
        /\ present \in [Workers -> SUBSET Days]
        /\ deletedAt \in [Days -> Nat]
    BY DEF Init
  <1> QED
    BY <1>1, <1>2, <1>3, <1>4 DEF Init, TypeOK, LinkInit, LinkTypeOK

\* The hazards met are never forgotten.
LEMMA HappenedStep ==
    ASSUME TypeOK, [Next]_vars
    PROVE  happened' \subseteq Hazards /\ happened \subseteq happened'
  <1>1. \/ happened' = happened
        \/ \E h \in SUBSET Hazards : happened' = happened \cup h
    BY PunchSyncAssumption
    DEF Next, SetFieldLocal, DeleteDay, CommandStep, SetFieldRead, CallSucceeds, CallFailsOver,
        CommandEnqueues, Refresh, TaskStep, SyncBegins, SyncReplays, SyncReplayFails, SyncMarks,
        SyncReplayed, SyncPulls, SyncApplies, SyncListsPresent, SyncReaps, WatchProbes,
        WatchSwaps, PortalSets, PortalDeletes, Boot, Crash, PgChanges, Meets, vars
  <1> QED
    BY <1>1 DEF TypeOK

LEMMA TypeStep == TypeOK /\ [Next]_vars => TypeOK'
  <1> SUFFICES ASSUME TypeOK, [Next]_vars PROVE TypeOK'
    OBVIOUS
  <1>0. happened' \subseteq Hazards
    BY HappenedStep
  <1> USE <1>0 DEF TypeOK
  <1>1. ASSUME NEW c \in Commands, NEW d \in Days, NEW f \in Fields, SetFieldLocal(c, d, f)
        PROVE  TypeOK'
    <2>1. clock + 1 \in Nat /\ lite[d] \in MaybeRow
      OBVIOUS
    <2>2. WithField(lite[d], f, clock + 1) \in MaybeRow
      BY <2>1, WithFieldType DEF MaybeRow
    <2>3. lite' \in [Days -> MaybeRow] /\ clock' \in Nat
      BY <1>1, <2>1, <2>2 DEF SetFieldLocal, CommandStarts
    <2>4. cmd' \in [Commands -> CmdState]
      BY <1>1 DEF SetFieldLocal, CmdState
    <2> QED
      BY <1>1, <2>3, <2>4 DEF SetFieldLocal, linkVars, queueVars, taskVars, LinkTypeOK
  <1>2. ASSUME NEW c \in Commands, NEW d \in Days, DeleteDay(c, d)
        PROVE  TypeOK'
    <2>1. cmd' \in [Commands -> CmdState]
      BY <1>2 DEF DeleteDay, CmdState, Msg, Route
    <2> QED
      BY <1>2, <2>1
      DEF DeleteDay, CommandStarts, MaybeRow, linkVars, queueVars, taskVars, LinkTypeOK
  <1>3. ASSUME NEW c \in Commands, CommandStep(c)
        PROVE  TypeOK'
    <2> cmd[c] \in CmdState
      OBVIOUS
    <2>1. CASE SetFieldRead(c)
      <3>1. cmd[c].day \in Days
        BY <2>1 DEF SetFieldRead, CmdState, Idle
      <3>2. lite[cmd[c].day] # NoRow => WholeRow(cmd[c].day) \in Msg
        BY <3>1 DEF WholeRow, Msg, MaybeRow
      <3>3. cmd' \in [Commands -> CmdState]
        BY <2>1, <3>1, <3>2 DEF SetFieldRead, CmdState, Route
      <3> QED
        BY <2>1, <3>3 DEF SetFieldRead, linkVars, queueVars, taskVars, LinkTypeOK
    <2>2. CASE CallSucceeds(c)
      <3>1. cmd[c].msg \in Msg
        BY <2>2 DEF CallSucceeds, CmdState, Idle
      <3>2. pg' \in [Days -> MaybeRow]
        BY <2>2, <3>1, AppliedType DEF CallSucceeds
      <3>3. cmd' \in [Commands -> CmdState]
        BY <2>2 DEF CallSucceeds, CmdState
      <3> QED
        BY <2>2, <3>2, <3>3 DEF CallSucceeds, linkVars, queueVars, taskVars, LinkTypeOK
    <2>3. CASE CallFailsOver(c)
      <3>1. cmd[c].msg \in Msg /\ cmd[c] \in [pc : {"call", "queue"}, msg : Msg]
        BY <2>3 DEF CallFailsOver, CmdState, Idle
      <3>2. pg' \in [Days -> MaybeRow]
        BY <2>3, <3>1, AppliedType DEF CallFailsOver
      <3>3. cmd' \in [Commands -> CmdState]
        BY <2>3, <3>1 DEF CallFailsOver, CmdState
      <3> QED
        BY <2>3, <3>2, <3>3 DEF CallFailsOver, CallFails, queueVars, taskVars, LinkTypeOK
    <2>4. CASE CommandEnqueues(c)
      <3>1. cmd[c].msg \in Msg
        BY <2>4 DEF CommandEnqueues, CmdState, Idle
      <3>2. outbox' \subseteq Entry /\ nextId' \in Nat
        BY <2>4, <3>1 DEF CommandEnqueues, Enqueue, Entry
      <3>3. cmd' \in [Commands -> CmdState]
        BY <2>4 DEF CommandEnqueues, CmdState
      <3> QED
        BY <2>4, <3>2, <3>3 DEF CommandEnqueues, linkVars, taskVars, LinkTypeOK
    <2> QED
      BY <1>3, <2>1, <2>2, <2>3, <2>4 DEF CommandStep
  <1>4. ASSUME NEW w \in Workers, TaskStep(w)
        PROVE  TypeOK'
    <2> USE DEF Goto, linkVars, queueVars, cmdVars, taskVars, LinkTypeOK
    <2>0. NoRow \in MaybeRow /\ NoRows \in [Days -> MaybeRow]
      BY DEF MaybeRow, NoRows
    <2>a. \A e \in todo[w] : e \in Entry /\ e.msg \in Msg
      BY DEF Entry
    <2>b. Finish(w) => /\ wpc' \in [Workers -> {"idle", "begin", "replay", "mark", "pull",
                                                 "apply", "reap", "reaping"}]
                       /\ job' \in [Workers -> {"none", "boot", "sync", "refresh"}]
                       /\ todo' \in [Workers -> SUBSET Entry]
                       /\ fetched' \in [Workers -> [Days -> MaybeRow]]
                       /\ present' \in [Workers -> SUBSET Days]
                       /\ app' \in {"down", "booting", "ready"}
      BY <2>0 DEF Finish
    <2>1. CASE SyncBegins(w)
      BY <2>1, <2>b DEF SyncBegins
    <2>2. CASE SyncReplays(w)
      <3>1. pg' \in [Days -> MaybeRow]
        BY <2>2, <2>a, AppliedType DEF SyncReplays
      <3> QED
        BY <2>2, <3>1 DEF SyncReplays
    <2>3. CASE SyncReplayFails(w)
      <3>1. pg' \in [Days -> MaybeRow]
        BY <2>3, <2>a, AppliedType DEF SyncReplayFails
      <3> QED
        BY <2>3, <2>b, <3>1 DEF SyncReplayFails, CallFails
    <2>4. CASE SyncMarks(w)
      <3>1. outbox' \subseteq Entry /\ todo' \in [Workers -> SUBSET Entry]
        BY <2>4 DEF SyncMarks, MarkSynced
      <3> QED
        BY <2>4, <3>1 DEF SyncMarks
    <2>5. CASE SyncReplayed(w)
      BY <2>5 DEF SyncReplayed
    <2>6. CASE SyncPulls(w)
      BY <2>6, <2>b DEF SyncPulls, AfterPull
    <2>7. CASE SyncApplies(w)
      <3>1. lite' \in [Days -> MaybeRow]
        <4>1. ASSUME NEW d \in Days, fetched[w][d] # NoRow
              PROVE  Upserted(lite[d], fetched[w][d]) \in MaybeRow
          <5>1. lite[d] \in MaybeRow /\ fetched[w][d] \in Row
            BY <4>1 DEF MaybeRow
          <5> QED
            BY <5>1, UpsertedType DEF MaybeRow
        <4> QED
          BY <2>7, <4>1 DEF SyncApplies
      <3>2. \A d \in Days :
              fetched' = [fetched EXCEPT ![w][d] = NoRow]
                 => fetched' \in [Workers -> [Days -> MaybeRow]]
        BY <2>0
      <3> QED
        BY <2>7, <2>b, <3>1, <3>2 DEF SyncApplies, AfterPull
    <2>8. CASE SyncListsPresent(w)
      <3>1. CASE Finish(w)
        BY <2>8, <2>b, <3>1 DEF SyncListsPresent
      <3>2. CASE ~Finish(w)
        <4>1. present' = [present EXCEPT ![w] = {d \in Days : pg[d] # NoRow}] /\ Goto(w, "reaping")
          BY <2>8, <3>2 DEF SyncListsPresent
        <4>2. present' \in [Workers -> SUBSET Days]
          BY <4>1
        <4> QED
          BY <2>8, <3>2, <4>1, <4>2 DEF SyncListsPresent
      <3> QED
        BY <3>1, <3>2
    <2>9. CASE SyncReaps(w)
      <3>1. lite' \in [Days -> MaybeRow]
        BY <2>9, <2>0 DEF SyncReaps
      <3> QED
        BY <2>9, <2>b, <3>1 DEF SyncReaps
    <2> QED
      BY <1>4, <2>1, <2>2, <2>3, <2>4, <2>5, <2>6, <2>7, <2>8, <2>9 DEF TaskStep
  <1>5. ASSUME NEW w \in Workers, Refresh(w)
        PROVE  TypeOK'
    BY <1>5 DEF Refresh, Spawn, linkVars, queueVars, cmdVars, LinkTypeOK
  <1>6. CASE WatchProbes
    BY <1>6 DEF WatchProbes, Probe, queueVars, cmdVars, taskVars, LinkTypeOK
  <1>7. CASE WatchSwaps
    BY <1>7 DEF WatchSwaps, SwapOnline, Spawn, queueVars, cmdVars, taskVars, LinkTypeOK
  <1>8. ASSUME NEW d \in Days, NEW f \in Fields, PortalSets(d, f)
        PROVE  TypeOK'
    <2>0. pg[d] \in MaybeRow /\ clock + 1 \in Nat
      OBVIOUS
    <2>1. WithField(pg[d], f, clock + 1) \in MaybeRow
      BY <2>0, WithFieldType DEF MaybeRow
    <2>2. pg' \in [Days -> MaybeRow] /\ clock' \in Nat
      BY <1>8, <2>1 DEF PortalSets
    <2> QED
      BY <1>8, <2>2 DEF PortalSets, linkVars, queueVars, taskVars, LinkTypeOK
  <1>9. ASSUME NEW d \in Days, PortalDeletes(d)
        PROVE  TypeOK'
    BY <1>9 DEF PortalDeletes, MaybeRow, linkVars, queueVars, taskVars, LinkTypeOK
  <1>10. CASE Boot
    BY <1>10 DEF Boot, Spawn, queueVars, cmdVars, LinkTypeOK
  <1>11. CASE Crash
    BY <1>11 DEF Crash, CmdState, NoRows, MaybeRow, queueVars, LinkTypeOK
  <1>12. CASE PgChanges
    BY <1>12
    DEF PgChanges, PgGoesDown, PgComesUp, queueVars, cmdVars, taskVars, LinkTypeOK
  <1>13. CASE UNCHANGED vars
    BY <1>13 DEF vars, linkVars, queueVars, cmdVars, taskVars, LinkTypeOK
  <1> QED
    BY <1>1, <1>2, <1>3, <1>4, <1>5, <1>6, <1>7, <1>8, <1>9, <1>10, <1>11, <1>12, <1>13
    DEF Next

\* Every reachable state is well typed, whatever the hazards in Env.
THEOREM TypeCorrect == Spec => []TypeOK
  BY TypeInit, TypeStep, PTL DEF Spec

-----------------------------------------------------------------------------
(* The inductive invariant behind NoPunchStranded.                         *)

\* Without kiosk deletions every payload is an upsert.
OnlyUpserts ==
    /\ \A e \in outbox : e.msg.op = "upsert"
    /\ \A w \in Workers : \A e \in todo[w] : e.msg.op = "upsert"
    /\ \A c \in Commands : cmd[c].pc \in {"call", "queue"} => cmd[c].msg.op = "upsert"

Past(m, t) == m.op = "upsert" => m.row.at <= t

StampsBy(t) ==
    /\ \A d \in Days : lite[d] # NoRow => lite[d].at <= t
    /\ \A d \in Days : pg[d] # NoRow => pg[d].at <= t
    /\ \A d \in Days : deletedAt[d] <= t
    /\ \A w \in Workers, d \in Days : fetched[w][d] # NoRow => fetched[w][d].at <= t
    /\ \A e \in outbox : Past(e.msg, t)
    /\ \A w \in Workers : \A e \in todo[w] : Past(e.msg, t)
    /\ \A c \in Commands : cmd[c].pc \in {"call", "queue"} => Past(cmd[c].msg, t)

\* No row, deletion or payload comes from the future.
StampsPast == StampsBy(clock)

\* An id names one row of the outbox, for the table and for the snapshots.
IdsNameEntries ==
    /\ \A x \in outbox : x.id < nextId
    /\ \A w \in Workers : \A x \in todo[w] : x.id < nextId
    /\ \A x, y \in outbox : x.id = y.id => x = y
    /\ \A w \in Workers : \A x \in outbox, y \in todo[w] : x.id = y.id => x = y
    /\ \A w \in Workers : \A x, y \in todo[w] : x.id = y.id => x = y

\* What a task is about to mark as synced is in PostgreSQL.
ReplayedIsCentral ==
    \A w \in Workers : wpc[w] = "mark" =>
        \A e \in todo[w] : IsOldest(e, todo[w]) => Central(e.msg.day, e.msg.row.at)

\* What a pull has read is not newer than PostgreSQL.
FetchedIsCentral ==
    \A w \in Workers, d \in Days :
        fetched[w][d] # NoRow => Central(d, fetched[w][d].at)

NoHarm == Calm({"crash", "kiosk_delete"})

CalmInv ==
    /\ TypeOK
    /\ OnlyUpserts
    /\ StampsPast
    /\ IdsNameEntries
    /\ ReplayedIsCentral
    /\ FetchedIsCentral
    /\ NoneStranded

PunchInv ==
    /\ TypeOK
    /\ StampsPast
    /\ IdsNameEntries
    /\ NoHarm => CalmInv

LEMMA PunchInvInit == Init => PunchInv
  <1> SUFFICES ASSUME Init PROVE PunchInv
    OBVIOUS
  <1>1. TypeOK
    BY TypeInit
  <1>2. OnlyUpserts /\ IdsNameEntries /\ ReplayedIsCentral
    BY DEF Init, OnlyUpserts, IdsNameEntries, ReplayedIsCentral, Idle
  <1>3. StampsPast
    BY DEF Init, StampsPast, StampsBy, NoRows, Idle
  <1>4. FetchedIsCentral /\ NoneStranded
    BY DEF Init, FetchedIsCentral, NoneStranded, NoRows
  <1> QED
    BY <1>1, <1>2, <1>3, <1>4 DEF PunchInv, CalmInv

\* UPSERT_ROW never removes a row and never lowers its updated_at ...
LEMMA AppliedKeepsCentral ==
    ASSUME TypeOK, NEW m \in Msg, m.op = "upsert",
           NEW d \in Days, NEW t \in Nat, Central(d, t),
           pg' = Applied(m), deletedAt' = deletedAt
    PROVE  Central(d, t)'
  <1>1. pg[d] \in MaybeRow /\ m.row \in Row /\ m.day \in Days /\ NoRow \notin Row
    BY PunchSyncAssumption DEF TypeOK, Msg
  <1>2. CASE pg[d] # NoRow /\ t <= pg[d].at
    <2>1. pg'[d] = pg[d] \/ (pg'[d] = m.row /\ pg[d].at <= m.row.at)
      BY <1>1, <1>2 DEF TypeOK, Applied, Upserted, Supersedes
    <2> QED
      BY <1>1, <1>2, <2>1 DEF Central, MaybeRow, Row
  <1> QED
    BY <1>2 DEF Central

\* ... and what it was given is central afterwards.
LEMMA AppliedIsCentral ==
    ASSUME TypeOK, NEW m \in Msg, m.op = "upsert", pg' = Applied(m)
    PROVE  /\ pg'[m.day] # NoRow
           /\ m.row.at <= pg'[m.day].at
  <1>1. pg[m.day] \in MaybeRow /\ m.row \in Row /\ m.day \in Days /\ NoRow \notin Row
    BY PunchSyncAssumption DEF TypeOK, Msg
  <1>2. pg'[m.day] = Upserted(pg[m.day], m.row)
    BY <1>1 DEF TypeOK, Applied
  <1> QED
    BY <1>1, <1>2 DEF Upserted, Supersedes, MaybeRow, Row

\* The payloads the steps apply are upserts from the past.
LEMMA CommandPayload ==
    ASSUME TypeOK, OnlyUpserts, StampsPast, NEW c \in Commands,
           cmd[c].pc \in {"call", "queue"}
    PROVE  /\ cmd[c].msg \in Msg /\ cmd[c].msg.op = "upsert"
           /\ cmd[c].msg.row \in Row /\ cmd[c].msg.row.at <= clock
  <1>1. cmd[c].msg \in Msg
    BY DEF TypeOK, CmdState, Idle
  <1> QED
    BY <1>1 DEF OnlyUpserts, StampsPast, StampsBy, Past, Msg

LEMMA EntryPayload ==
    ASSUME TypeOK, OnlyUpserts, StampsPast, NEW w \in Workers, NEW e \in todo[w]
    PROVE  /\ e \in Entry /\ e.msg \in Msg /\ e.msg.op = "upsert"
           /\ e.msg.row \in Row /\ e.msg.row.at <= clock
  <1>1. e \in Entry /\ e.msg \in Msg
    BY DEF TypeOK, Entry
  <1> QED
    BY <1>1 DEF OnlyUpserts, StampsPast, StampsBy, Past, Msg

\* The two hazards are met by no step after which neither has been met.
LEMMA NoHarmStep ==
    ASSUME NoHarm'
    PROVE  ~Crash /\ \A c \in Commands, d \in Days : ~DeleteDay(c, d)
  BY DEF NoHarm, Calm, Crash, DeleteDay, Meets

\* What is central stays central: only the portal deletes, and it stamps the
\* deletion later than every row.
LEMMA CentralStaysCentral ==
    ASSUME CalmInv, [Next]_vars, NoHarm',
           NEW d \in Days, NEW t \in Nat, Central(d, t)
    PROVE  Central(d, t)'
  <1> USE DEF CalmInv
  <1>0. (pg' = pg /\ deletedAt' = deletedAt) => Central(d, t)'
    BY DEF Central
  <1>1. ASSUME NEW c \in Commands, CommandStep(c)
        PROVE  Central(d, t)'
    <2>1. CASE SetFieldRead(c) \/ CommandEnqueues(c)
      BY <2>1, <1>0 DEF SetFieldRead, CommandEnqueues
    <2>2. CASE CallSucceeds(c) \/ CallFailsOver(c)
      <3>1. cmd[c].msg \in Msg /\ cmd[c].msg.op = "upsert"
        BY <2>2, CommandPayload DEF CallSucceeds, CallFailsOver
      <3>2. (pg' = pg \/ pg' = Applied(cmd[c].msg)) /\ deletedAt' = deletedAt
        BY <2>2 DEF CallSucceeds, CallFailsOver
      <3> QED
        BY <3>1, <3>2, <1>0, AppliedKeepsCentral
    <2> QED
      BY <1>1, <2>1, <2>2 DEF CommandStep
  <1>2. ASSUME NEW w \in Workers, TaskStep(w)
        PROVE  Central(d, t)'
    <2>1. CASE SyncReplays(w) \/ SyncReplayFails(w)
      <3>1. deletedAt' = deletedAt /\ (pg' = pg \/ \E e \in todo[w] : pg' = Applied(e.msg))
        BY <2>1 DEF SyncReplays, SyncReplayFails
      <3> QED
        BY <3>1, <1>0, EntryPayload, AppliedKeepsCentral
    <2> QED
      BY <1>2, <2>1, <1>0
      DEF TaskStep, SyncBegins, SyncMarks, SyncReplayed, SyncPulls, SyncApplies,
          SyncListsPresent, SyncReaps
  <1>3. ASSUME NEW k \in Days, NEW f \in Fields, PortalSets(k, f)
        PROVE  Central(d, t)'
    <2>1. pg[d] \in MaybeRow /\ pg[k] \in MaybeRow /\ clock \in Nat /\ NoRow \notin Row
      BY PunchSyncAssumption DEF TypeOK
    <2>2. WithField(pg[k], f, clock + 1) \in Row /\ WithField(pg[k], f, clock + 1).at = clock + 1
      BY <2>1, WithFieldType DEF WithField
    <2>3. deletedAt' = deletedAt /\ pg' = [pg EXCEPT ![k] = WithField(pg[k], f, clock + 1)]
      BY <1>3 DEF PortalSets
    <2> QED
      BY <2>1, <2>2, <2>3 DEF Central, TypeOK, StampsPast, StampsBy, MaybeRow, Row
  <1>4. ASSUME NEW k \in Days, PortalDeletes(k)
        PROVE  Central(d, t)'
    <2>1. pg[d] \in MaybeRow /\ clock \in Nat /\ deletedAt[d] \in Nat
      BY DEF TypeOK
    <2>2. pg' = [pg EXCEPT ![k] = NoRow] /\ deletedAt' = [deletedAt EXCEPT ![k] = clock + 1]
      BY <1>4 DEF PortalDeletes
    <2> QED
      BY <2>1, <2>2 DEF Central, TypeOK, StampsPast, StampsBy, MaybeRow, Row
  <1>5. ASSUME NEW c \in Commands, NEW k \in Days
        PROVE  ~DeleteDay(c, k)
    BY NoHarmStep
  <1> QED
    BY <1>0, <1>1, <1>2, <1>3, <1>4, <1>5
    DEF Next, SetFieldLocal, Refresh, WatchProbes, WatchSwaps, Boot, Crash, PgChanges, vars

LEMMA OnlyUpsertsStep ==
    ASSUME CalmInv, [Next]_vars, NoHarm'
    PROVE  OnlyUpserts'
  <1> USE DEF CalmInv
  <1>0. (outbox' = outbox /\ todo' = todo /\ cmd' = cmd) => OnlyUpserts'
    BY DEF OnlyUpserts
  <1>1. ASSUME NEW c \in Commands, NEW d \in Days, NEW f \in Fields, SetFieldLocal(c, d, f)
        PROVE  OnlyUpserts'
    BY <1>1 DEF SetFieldLocal, OnlyUpserts, TypeOK, queueVars, taskVars
  <1>2. ASSUME NEW c \in Commands, CommandStep(c)
        PROVE  OnlyUpserts'
    <2>1. CASE SetFieldRead(c)
      BY <2>1 DEF SetFieldRead, WholeRow, Route, Idle, OnlyUpserts, TypeOK, queueVars, taskVars
    <2>2. CASE CallSucceeds(c)
      BY <2>2 DEF CallSucceeds, Idle, OnlyUpserts, TypeOK, queueVars, taskVars
    <2>3. CASE CallFailsOver(c)
      <3>1. cmd[c] \in [pc : {"call", "queue"}, msg : Msg]
        BY <2>3 DEF CallFailsOver, TypeOK, CmdState, Idle
      <3> QED
        BY <2>3, <3>1 DEF CallFailsOver, OnlyUpserts, TypeOK, queueVars, taskVars
    <2>4. CASE CommandEnqueues(c)
      <3>1. \A k \in Commands : cmd'[k] = cmd[k] \/ cmd'[k] = Idle
        BY <2>4 DEF CommandEnqueues, TypeOK
      <3>2. \A e \in outbox' : e \in outbox \/ e.msg = cmd[c].msg
        BY <2>4 DEF CommandEnqueues, Enqueue
      <3>3. todo' = todo /\ cmd[c].msg.op = "upsert"
        BY <2>4 DEF CommandEnqueues, taskVars, OnlyUpserts
      <3> QED
        BY <3>1, <3>2, <3>3 DEF OnlyUpserts, Idle
    <2> QED
      BY <1>2, <2>1, <2>2, <2>3, <2>4 DEF CommandStep
  <1>3. ASSUME NEW w \in Workers, TaskStep(w)
        PROVE  OnlyUpserts'
    <2>1. \A k \in Workers : todo'[k] \subseteq todo[k] \/ todo'[k] \subseteq outbox
      BY <1>3
      DEF TaskStep, SyncBegins, SyncReplays, SyncReplayFails, SyncMarks, SyncReplayed,
          SyncPulls, SyncApplies, SyncListsPresent, SyncReaps, AfterPull, Finish, Goto, TypeOK
    <2>2. outbox' \subseteq outbox /\ cmd' = cmd
      BY <1>3
      DEF TaskStep, SyncBegins, SyncReplays, SyncReplayFails, SyncMarks, SyncReplayed,
          SyncPulls, SyncApplies, SyncListsPresent, SyncReaps, MarkSynced, queueVars, cmdVars
    <2> QED
      BY <2>1, <2>2 DEF OnlyUpserts
  <1>5. ASSUME NEW w \in Workers, Refresh(w)
        PROVE  OnlyUpserts'
    BY <1>5, <1>0 DEF Refresh, Spawn, queueVars, cmdVars
  <1>6. CASE WatchProbes \/ WatchSwaps \/ Boot \/ PgChanges
    BY <1>6, <1>0
    DEF WatchProbes, WatchSwaps, Boot, PgChanges, Spawn, queueVars, cmdVars, taskVars
  <1>7. ASSUME NEW d \in Days, PortalDeletes(d) \/ \E f \in Fields : PortalSets(d, f)
        PROVE  OnlyUpserts'
    BY <1>7, <1>0 DEF PortalDeletes, PortalSets, queueVars, taskVars
  <1> QED
    BY <1>0, <1>1, <1>2, <1>3, <1>5, <1>6, <1>7, NoHarmStep
    DEF Next, vars, queueVars, cmdVars, taskVars

LEMMA IdsNameEntriesStep ==
    ASSUME TypeOK, IdsNameEntries, [Next]_vars
    PROVE  IdsNameEntries'
  <1>0. (outbox' = outbox /\ nextId' = nextId /\ todo' = todo) => IdsNameEntries'
    BY DEF IdsNameEntries
  <1>1. ASSUME NEW c \in Commands, CommandStep(c)
        PROVE  IdsNameEntries'
    <2>1. CASE CommandEnqueues(c)
      <3>1. nextId' = nextId + 1 /\ nextId \in Nat /\ todo' = todo
        BY <2>1 DEF CommandEnqueues, Enqueue, taskVars, TypeOK
      <3>2. PICK e : e.id = nextId /\ outbox' = outbox \cup {e}
        BY <2>1 DEF CommandEnqueues, Enqueue
      <3>3. /\ \A x \in outbox : x.id \in Nat
            /\ \A w \in Workers : \A x \in todo[w] : x.id \in Nat
        BY DEF TypeOK, Entry
      <3> QED
        BY <3>1, <3>2, <3>3 DEF IdsNameEntries
    <2> QED
      BY <1>1, <2>1, <1>0
      DEF CommandStep, SetFieldRead, CallSucceeds, CallFailsOver, queueVars, taskVars
  <1>2. ASSUME NEW w \in Workers, TaskStep(w)
        PROVE  IdsNameEntries'
    <2>1. \A k \in Workers :
            \/ todo'[k] \subseteq todo[k]
            \/ todo'[k] \subseteq outbox /\ outbox' = outbox /\ k = w
      BY <1>2
      DEF TaskStep, SyncBegins, SyncReplays, SyncReplayFails, SyncMarks, SyncReplayed,
          SyncPulls, SyncApplies, SyncListsPresent, SyncReaps, AfterPull, Finish, Goto,
          TypeOK, queueVars
    <2>2. outbox' \subseteq outbox /\ nextId' = nextId
      BY <1>2
      DEF TaskStep, SyncBegins, SyncReplays, SyncReplayFails, SyncMarks, SyncReplayed,
          SyncPulls, SyncApplies, SyncListsPresent, SyncReaps, MarkSynced, queueVars
    <2> QED
      BY <2>1, <2>2 DEF IdsNameEntries
  <1>3. CASE Crash
    BY <1>3 DEF Crash, IdsNameEntries, queueVars
  <1>4. ASSUME NEW w \in Workers, Refresh(w)
        PROVE  IdsNameEntries'
    BY <1>4, <1>0 DEF Refresh, Spawn, queueVars
  <1> QED
    BY <1>0, <1>1, <1>2, <1>3, <1>4
    DEF Next, SetFieldLocal, DeleteDay, WatchProbes, WatchSwaps, Boot, PgChanges,
        PortalSets, PortalDeletes, Spawn, vars, queueVars, taskVars

LEMMA PayloadTypes ==
    ASSUME TypeOK
    PROVE  /\ \A e \in outbox : e.msg \in Msg
           /\ \A w \in Workers : \A e \in todo[w] : e.msg \in Msg
           /\ \A c \in Commands : cmd[c].pc \in {"call", "queue"} => cmd[c].msg \in Msg
  BY DEF TypeOK, Entry, CmdState, Idle

\* What is past stays past when the clock ticks.
LEMMA StampsTick ==
    ASSUME TypeOK, StampsPast
    PROVE  StampsBy(clock + 1)
  <1>1. clock \in Nat /\ \A n \in Nat : n <= clock => n <= clock + 1
    BY DEF TypeOK
  <1>2. \A m \in Msg : Past(m, clock) => Past(m, clock + 1)
    BY <1>1 DEF Past, Msg, Row
  <1>3. /\ \A d \in Days : lite[d] \in MaybeRow /\ pg[d] \in MaybeRow /\ deletedAt[d] \in Nat
        /\ \A w \in Workers, d \in Days : fetched[w][d] \in MaybeRow
    BY DEF TypeOK
  <1> QED
    BY <1>1, <1>2, <1>3, PayloadTypes DEF StampsPast, StampsBy, MaybeRow, Row

LEMMA StampsPastStep ==
    ASSUME TypeOK, StampsPast, [Next]_vars
    PROVE  StampsPast'
  <1> USE DEF StampsPast
  <1>f. UNCHANGED <<lite, pg, deletedAt, fetched, outbox, todo, cmd, clock>> => StampsPast'
    BY DEF StampsBy
  <1>t. clock \in Nat
    BY DEF TypeOK
  <1>1. ASSUME NEW c \in Commands, NEW d \in Days, NEW f \in Fields, SetFieldLocal(c, d, f)
        PROVE  StampsPast'
    <2>1. /\ clock' = clock + 1
          /\ WithField(lite[d], f, clock + 1).at = clock + 1
          /\ lite' = [lite EXCEPT ![d] = WithField(lite[d], f, clock + 1)]
          /\ UNCHANGED <<pg, deletedAt, fetched, outbox, todo>>
      BY <1>1 DEF SetFieldLocal, CommandStarts, WithField, queueVars, taskVars
    <2>2. \A k \in Commands : cmd'[k] = cmd[k] \/ cmd'[k].pc = "read"
      BY <1>1 DEF SetFieldLocal, TypeOK
    <2>3. \A k \in Days : lite'[k] # NoRow => lite'[k].at <= clock'
      BY <1>t, <2>1, StampsTick DEF StampsBy, TypeOK
    <2> QED
      BY <2>1, <2>2, <2>3, StampsTick DEF StampsBy
  <1>2. ASSUME NEW c \in Commands, NEW d \in Days, DeleteDay(c, d)
        PROVE  StampsPast'
    <2>1. /\ clock' = clock + 1
          /\ lite' = [lite EXCEPT ![d] = NoRow]
          /\ deletedAt' = [deletedAt EXCEPT ![d] = clock + 1]
          /\ UNCHANGED <<pg, fetched, outbox, todo>>
      BY <1>2 DEF DeleteDay, CommandStarts, queueVars, taskVars
    <2>2. \A k \in Commands : cmd'[k] = cmd[k] \/ cmd'[k].msg.op = "delete"
      BY <1>2 DEF DeleteDay, TypeOK
    <2>3. /\ \A k \in Days : lite'[k] # NoRow => lite'[k].at <= clock'
          /\ \A k \in Days : deletedAt'[k] <= clock'
      BY <1>t, <2>1, StampsTick DEF StampsBy, TypeOK
    <2> QED
      BY <2>1, <2>2, <2>3, StampsTick DEF StampsBy, Past
  <1>3. ASSUME NEW c \in Commands, CommandStep(c)
        PROVE  StampsPast'
    <2> USE DEF StampsBy
    <2>a. ASSUME pg' = Applied(cmd[c].msg), cmd[c].pc \in {"call", "queue"}
          PROVE  \A d \in Days : pg'[d] # NoRow => pg'[d].at <= clock
      BY <2>a DEF Applied, Upserted, Past, TypeOK
    <2>1. CASE SetFieldRead(c)
      <3>0. cmd[c].pc = "read" /\ cmd[c] \in CmdState
        BY <2>1 DEF SetFieldRead, TypeOK
      <3>1. cmd[c].day \in Days
        BY <3>0 DEF CmdState, Idle
      <3>2. \A k \in Commands : cmd'[k].pc \in {"call", "queue"} => Past(cmd'[k].msg, clock)
        BY <2>1, <3>1 DEF SetFieldRead, WholeRow, Route, Idle, Past, TypeOK
      <3> QED
        BY <2>1, <3>2 DEF SetFieldRead, queueVars, taskVars
    <2>2. CASE CallSucceeds(c)
      <3>1. \A k \in Commands : cmd'[k].pc \in {"call", "queue"} => Past(cmd'[k].msg, clock)
        BY <2>2 DEF CallSucceeds, Idle, TypeOK
      <3> QED
        BY <2>2, <2>a, <3>1 DEF CallSucceeds, queueVars, taskVars
    <2>3. CASE CallFailsOver(c)
      <3>1. cmd[c] \in [pc : {"call", "queue"}, msg : Msg]
        BY <2>3 DEF CallFailsOver, TypeOK, CmdState, Idle
      <3>2. \A k \in Commands : cmd'[k].pc \in {"call", "queue"} => Past(cmd'[k].msg, clock)
        BY <2>3, <3>1 DEF CallFailsOver, TypeOK
      <3> QED
        BY <2>3, <2>a, <3>2 DEF CallFailsOver, queueVars, taskVars
    <2>4. CASE CommandEnqueues(c)
      <3>1. \A k \in Commands : cmd'[k].pc \in {"call", "queue"} => Past(cmd'[k].msg, clock)
        BY <2>4 DEF CommandEnqueues, Idle, TypeOK
      <3>2. \A e \in outbox' : Past(e.msg, clock)
        BY <2>4 DEF CommandEnqueues, Enqueue
      <3> QED
        BY <2>4, <3>1, <3>2 DEF CommandEnqueues, taskVars
    <2> QED
      BY <1>3, <2>1, <2>2, <2>3, <2>4 DEF CommandStep
  <1>4. ASSUME NEW w \in Workers, TaskStep(w)
        PROVE  StampsPast'
    <2>1. UNCHANGED <<cmd, clock, deletedAt>> /\ outbox' \subseteq outbox
      BY <1>4
      DEF TaskStep, SyncBegins, SyncReplays, SyncReplayFails, SyncMarks, SyncReplayed,
          SyncPulls, SyncApplies, SyncListsPresent, SyncReaps, MarkSynced, queueVars, cmdVars
    <2>2. \A k \in Workers : todo'[k] \subseteq todo[k] \/ todo'[k] \subseteq outbox
      BY <1>4
      DEF TaskStep, SyncBegins, SyncReplays, SyncReplayFails, SyncMarks, SyncReplayed,
          SyncPulls, SyncApplies, SyncListsPresent, SyncReaps, AfterPull, Finish, Goto, TypeOK
    <2>3. \A k \in Workers, d \in Days : fetched'[k][d] \in {fetched[k][d], pg[d], NoRow}
      <3>1. CASE SyncPulls(w)
        BY <3>1 DEF SyncPulls, AfterPull, Finish, Goto, NoRows, TypeOK
      <3>2. CASE SyncApplies(w)
        BY <3>2 DEF SyncApplies, AfterPull, Finish, Goto, NoRows, TypeOK
      <3>3. CASE SyncBegins(w) \/ SyncReplayFails(w) \/ SyncReaps(w)
        BY <3>3 DEF SyncBegins, SyncReplayFails, SyncReaps, Finish, Goto, NoRows, TypeOK
      <3>4. CASE SyncReplays(w) \/ SyncMarks(w) \/ SyncReplayed(w) \/ SyncListsPresent(w)
        BY <3>4
        DEF SyncReplays, SyncMarks, SyncReplayed, SyncListsPresent, Finish, Goto, NoRows, TypeOK
      <3> QED
        BY <1>4, <3>1, <3>2, <3>3, <3>4 DEF TaskStep
    <2>4. \A d \in Days : lite'[d] \in {lite[d], fetched[w][d], NoRow}
      BY <1>4
      DEF TaskStep, SyncBegins, SyncReplays, SyncReplayFails, SyncMarks, SyncReplayed,
          SyncPulls, SyncApplies, SyncListsPresent, SyncReaps, Upserted, TypeOK
    <2>5. pg' = pg \/ \E e \in todo[w] : pg' = Applied(e.msg)
      BY <1>4
      DEF TaskStep, SyncBegins, SyncReplays, SyncReplayFails, SyncMarks, SyncReplayed,
          SyncPulls, SyncApplies, SyncListsPresent, SyncReaps
    <2>6. ASSUME NEW e \in todo[w], pg' = Applied(e.msg)
          PROVE  \A d \in Days : pg'[d] # NoRow => pg'[d].at <= clock
      BY <2>6, PayloadTypes DEF Applied, Upserted, StampsBy, Past, TypeOK, Msg
    <2>7. /\ \A d \in Days : lite'[d] # NoRow => lite'[d].at <= clock
          /\ \A k \in Workers, d \in Days : fetched'[k][d] # NoRow => fetched'[k][d].at <= clock
      BY <2>3, <2>4 DEF StampsBy
    <2> QED
      BY <2>1, <2>2, <2>5, <2>6, <2>7 DEF StampsBy
  <1>5. ASSUME NEW w \in Workers, Refresh(w)
        PROVE  StampsPast'
    BY <1>5, <1>f DEF Refresh, Spawn, queueVars, cmdVars
  <1>6. CASE WatchProbes \/ WatchSwaps \/ Boot \/ PgChanges
    BY <1>6, <1>f
    DEF WatchProbes, WatchSwaps, Boot, PgChanges, Spawn, queueVars, cmdVars, taskVars
  <1>7. CASE Crash
    BY <1>7 DEF Crash, StampsBy, Idle, NoRows, queueVars
  <1>8. ASSUME NEW k \in Days, NEW f \in Fields, PortalSets(k, f)
        PROVE  StampsPast'
    <2>1. /\ clock' = clock + 1
          /\ WithField(pg[k], f, clock + 1).at = clock + 1
          /\ pg' = [pg EXCEPT ![k] = WithField(pg[k], f, clock + 1)]
          /\ UNCHANGED <<lite, deletedAt, fetched, outbox, todo, cmd>>
      BY <1>8 DEF PortalSets, WithField, queueVars, taskVars
    <2>2. \A d \in Days : pg'[d] # NoRow => pg'[d].at <= clock'
      BY <1>t, <2>1, StampsTick DEF StampsBy, TypeOK
    <2> QED
      BY <2>1, <2>2, StampsTick DEF StampsBy
  <1>9. ASSUME NEW k \in Days, PortalDeletes(k)
        PROVE  StampsPast'
    <2>1. /\ clock' = clock + 1
          /\ pg' = [pg EXCEPT ![k] = NoRow]
          /\ deletedAt' = [deletedAt EXCEPT ![k] = clock + 1]
          /\ UNCHANGED <<lite, fetched, outbox, todo, cmd>>
      BY <1>9 DEF PortalDeletes, queueVars, taskVars
    <2>2. /\ \A d \in Days : pg'[d] # NoRow => pg'[d].at <= clock'
          /\ \A d \in Days : deletedAt'[d] <= clock'
      BY <1>t, <2>1, StampsTick DEF StampsBy, TypeOK
    <2> QED
      BY <2>1, <2>2, StampsTick DEF StampsBy
  <1> QED
    BY <1>f, <1>1, <1>2, <1>3, <1>4, <1>5, <1>6, <1>7, <1>8, <1>9
    DEF Next, vars, queueVars, cmdVars, taskVars

LEMMA ReplayedIsCentralStep ==
    ASSUME CalmInv, [Next]_vars, NoHarm'
    PROVE  ReplayedIsCentral'
  <1> USE DEF CalmInv
  <1> SUFFICES ASSUME NEW w \in Workers, wpc'[w] = "mark",
                      NEW e \in todo'[w], IsOldest(e, todo'[w])
               PROVE  Central(e.msg.day, e.msg.row.at)'
    BY DEF ReplayedIsCentral, IsOldest
  <1>1. CASE wpc[w] = "mark" /\ todo'[w] = todo[w]
    <2>1. e.msg.day \in Days /\ e.msg.row.at \in Nat
      BY <1>1, EntryPayload DEF Msg, Row
    <2>2. Central(e.msg.day, e.msg.row.at)
      BY <1>1 DEF ReplayedIsCentral
    <2> QED
      BY <2>1, <2>2, CentralStaysCentral
  <1>2. CASE SyncReplays(w)
    <2>1. PICK x \in todo[w] : IsOldest(x, todo[w]) /\ pg' = Applied(x.msg)
      BY <1>2 DEF SyncReplays
    <2>2. todo'[w] = todo[w]
      BY <1>2 DEF SyncReplays
    <2>3. x.id \in Nat /\ e.id \in Nat /\ x.id <= e.id /\ e.id <= x.id
      BY <2>1, <2>2, EntryPayload DEF IsOldest, Entry
    <2>4. e = x
      BY <2>2, <2>3 DEF IdsNameEntries
    <2> QED
      BY <2>1, <2>4, EntryPayload, AppliedIsCentral DEF Central
  <1>3. ASSUME NEW k \in Workers, TaskStep(k), ~SyncReplays(w)
        PROVE  wpc[w] = "mark" /\ todo'[w] = todo[w]
    <2>1. CASE k = w
      BY <1>3, <2>1
      DEF TaskStep, SyncBegins, SyncReplayFails, SyncMarks, SyncReplayed,
          SyncPulls, SyncApplies, SyncListsPresent, SyncReaps, AfterPull, Finish, Goto, TypeOK
    <2>2. CASE k # w
      BY <1>3, <2>2
      DEF TaskStep, SyncBegins, SyncReplays, SyncReplayFails, SyncMarks, SyncReplayed,
          SyncPulls, SyncApplies, SyncListsPresent, SyncReaps, AfterPull, Finish, Goto, TypeOK
    <2> QED
      BY <2>1, <2>2
  <1>4. ASSUME \A k \in Workers : ~TaskStep(k)
        PROVE  wpc[w] = "mark" /\ todo'[w] = todo[w]
    BY <1>4
    DEF Next, CommandStep, SetFieldLocal, SetFieldRead, DeleteDay, CallSucceeds, CallFailsOver,
        CommandEnqueues, Refresh, WatchProbes, WatchSwaps, Boot, Crash, PgChanges, PortalSets,
        PortalDeletes, Spawn, TypeOK, vars, taskVars
  <1> QED
    BY <1>1, <1>2, <1>3, <1>4

LEMMA FetchedIsCentralStep ==
    ASSUME CalmInv, [Next]_vars, NoHarm'
    PROVE  FetchedIsCentral'
  <1> USE DEF CalmInv
  <1> SUFFICES ASSUME NEW w \in Workers, NEW d \in Days, NEW t \in Nat,
                      fetched'[w][d] # NoRow, fetched'[w][d].at = t
               PROVE  Central(d, t)'
    <2>1. \A w \in Workers, d \in Days : fetched'[w][d] # NoRow => fetched'[w][d].at \in Nat
      BY TypeStep DEF TypeOK, MaybeRow, Row
    <2> QED
      BY <2>1 DEF FetchedIsCentral, Central
  <1>1. CASE fetched'[w][d] = fetched[w][d]
    <2>1. Central(d, t)
      BY <1>1 DEF FetchedIsCentral
    <2> QED
      BY <2>1, CentralStaysCentral
  <1>2. CASE fetched'[w][d] = pg[d] /\ pg' = pg
    BY <1>2 DEF Central
  <1>3. ASSUME NEW k \in Workers, TaskStep(k)
        PROVE  \/ fetched'[w][d] = fetched[w][d]
               \/ fetched'[w][d] = pg[d] /\ pg' = pg
    <2>1. Finish(k) => fetched'[w][d] \in {fetched[w][d], NoRow}
      BY DEF Finish, NoRows, TypeOK
    <2>2. CASE SyncPulls(k)
      BY <2>1, <2>2 DEF SyncPulls, AfterPull, TypeOK
    <2>3. CASE SyncApplies(k)
      BY <2>1, <2>3 DEF SyncApplies, AfterPull, TypeOK
    <2>4. CASE SyncBegins(k) \/ SyncListsPresent(k) \/ SyncReaps(k) \/ SyncReplayFails(k)
      BY <2>1, <2>4 DEF SyncBegins, SyncListsPresent, SyncReaps, SyncReplayFails
    <2>5. CASE SyncReplays(k) \/ SyncMarks(k) \/ SyncReplayed(k)
      BY <2>5 DEF SyncReplays, SyncMarks, SyncReplayed
    <2> QED
      BY <1>3, <2>2, <2>3, <2>4, <2>5 DEF TaskStep
  <1>4. ASSUME \A k \in Workers : ~TaskStep(k)
        PROVE  fetched'[w][d] = fetched[w][d]
    <2>1. CASE Crash
      BY <2>1 DEF Crash, NoRows
    <2>2. CASE fetched' = fetched
      BY <2>2
    <2>3. Crash \/ fetched' = fetched
      BY <1>4
      DEF Next, CommandStep, SetFieldLocal, SetFieldRead, DeleteDay, CallSucceeds,
          CallFailsOver, CommandEnqueues, Refresh, WatchProbes, WatchSwaps, Boot, PgChanges,
          PortalSets, PortalDeletes, Spawn, vars, taskVars
    <2> QED
      BY <2>1, <2>2, <2>3
  <1> QED
    BY <1>1, <1>2, <1>3, <1>4

\* A step that leaves the mirror and the commands alone, and takes nothing out
\* of the outbox, strands nothing.
LEMMA NothingStranded ==
    ASSUME CalmInv, [Next]_vars, NoHarm',
           lite' = lite, cmd' = cmd, outbox \subseteq outbox'
    PROVE  NoneStranded'
  <1>1. SUFFICES ASSUME NEW d \in Days, lite[d] # NoRow
                 PROVE  Central(d, lite[d].at)' \/ Queued(d, lite[d].at)' \/ InFlight(d, lite[d].at)'
    BY DEF NoneStranded, Accounted
  <1>2. lite[d].at \in Nat
    BY <1>1 DEF CalmInv, TypeOK, MaybeRow, Row
  <1>3. Central(d, lite[d].at) \/ Queued(d, lite[d].at) \/ InFlight(d, lite[d].at)
    BY <1>1 DEF CalmInv, NoneStranded, Accounted
  <1> QED
    BY <1>2, <1>3, CentralStaysCentral DEF Queued, InFlight

\* The property after a step, a day and a time at once.
LEMMA StrandedNext ==
    ASSUME CalmInv, [Next]_vars,
           \A d \in Days, t \in Nat :
               lite'[d] # NoRow /\ lite'[d].at = t
                   => Central(d, t)' \/ Queued(d, t)' \/ InFlight(d, t)'
    PROVE  NoneStranded'
  <1>1. \A d \in Days : lite'[d] # NoRow => lite'[d].at \in Nat
    BY TypeStep DEF CalmInv, TypeOK, MaybeRow, Row
  <1> QED
    BY <1>1 DEF NoneStranded, Accounted, Central, Queued, InFlight

LEMMA NoneStrandedStep ==
    ASSUME CalmInv, [Next]_vars, NoHarm'
    PROVE  NoneStranded'
  <1> USE DEF CalmInv
  <1>e. NoHarm'
    OBVIOUS
  <1>r. \A d \in Days : lite[d] # NoRow => lite[d] \in Row /\ lite[d].at \in Nat
    BY DEF TypeOK, MaybeRow, Row
  <1>n. \A d \in Days : lite[d] # NoRow =>
            Central(d, lite[d].at) \/ Queued(d, lite[d].at) \/ InFlight(d, lite[d].at)
    BY DEF NoneStranded, Accounted
  <1>m. \A d \in Days, t \in Nat :
            lite[d] # NoRow /\ lite[d].at = t => Central(d, t) \/ Queued(d, t) \/ InFlight(d, t)
    BY <1>n DEF Central, Queued, InFlight
  <1>1. ASSUME NEW c \in Commands, NEW d \in Days, NEW f \in Fields, SetFieldLocal(c, d, f)
        PROVE  NoneStranded'
    <2>1. /\ cmd[c] = Idle /\ cmd' = [cmd EXCEPT ![c] = [pc |-> "read", day |-> d]]
          /\ outbox' = outbox
          /\ \A k \in Days \ {d} : lite'[k] = lite[k]
      BY <1>1 DEF SetFieldLocal, CommandStarts, queueVars, TypeOK
    <2>2. \A t : InFlight(d, t)'
      BY <2>1 DEF InFlight, TypeOK
    <2>3. \A k \in Days, t \in Nat : InFlight(k, t) => InFlight(k, t)'
      BY <2>1 DEF InFlight, Idle, TypeOK
    <2>4. \A k \in Days, t \in Nat : Queued(k, t) => Queued(k, t)'
      BY <2>1 DEF Queued
    <2> QED
      BY <1>e, <1>r, <1>n, <2>1, <2>2, <2>3, <2>4, CentralStaysCentral DEF NoneStranded, Accounted
  <1>2. ASSUME NEW c \in Commands, CommandStep(c)
        PROVE  NoneStranded'
    <2>1. CASE SetFieldRead(c)
      <3>1. cmd[c].pc = "read" /\ cmd[c].day \in Days /\ outbox' = outbox /\ lite' = lite
        BY <2>1 DEF SetFieldRead, queueVars, TypeOK, CmdState, Idle
      <3>2. ASSUME NEW d \in Days, lite[d] # NoRow, InFlight(d, lite[d].at)
            PROVE  InFlight(d, lite[d].at)'
        <4>1. CASE cmd[c].day = d
          <5>1. cmd'[c].pc \in {"call", "queue"} /\ cmd'[c].msg = WholeRow(d)
            BY <2>1, <3>2, <4>1 DEF SetFieldRead, Route, TypeOK
          <5>2. Carries(cmd'[c].msg, d, lite[d].at)
            BY <5>1, <3>2, <1>r DEF Carries, WholeRow
          <5> QED
            BY <5>1, <5>2, <3>1 DEF InFlight, Carries
        <4>2. CASE cmd[c].day # d
          BY <2>1, <3>1, <3>2, <4>2 DEF SetFieldRead, InFlight, TypeOK
        <4> QED
          BY <4>1, <4>2
      <3> QED
        BY <1>e, <1>r, <1>n, <3>1, <3>2, CentralStaysCentral DEF NoneStranded, Accounted, Queued
    <2>2. CASE CallSucceeds(c)
      <3>1. /\ cmd[c].pc = "call" /\ outbox' = outbox /\ lite' = lite
            /\ pg' = Applied(cmd[c].msg) /\ cmd' = [cmd EXCEPT ![c] = Idle]
        BY <2>2 DEF CallSucceeds, queueVars
      <3>2. ASSUME NEW d \in Days, NEW t \in Nat, Carries(cmd[c].msg, d, t)
            PROVE  Central(d, t)'
        <4>1. /\ cmd[c].msg \in Msg /\ cmd[c].msg.op = "upsert" /\ cmd[c].msg.day = d
              /\ t <= cmd[c].msg.row.at /\ cmd[c].msg.row.at \in Nat
          BY <3>1, <3>2, CommandPayload DEF Carries, Row
        <4>2. pg'[d] # NoRow /\ cmd[c].msg.row.at <= pg'[d].at
          BY <3>1, <4>1, AppliedIsCentral
        <4>3. pg'[d].at \in Nat
          BY <4>2, TypeStep DEF TypeOK, MaybeRow, Row
        <4> QED
          BY <4>1, <4>2, <4>3 DEF Central
      <3>3. \A d \in Days, t \in Nat : InFlight(d, t) => InFlight(d, t)' \/ Central(d, t)'
        BY <3>1, <3>2 DEF InFlight, TypeOK
      <3> QED
        BY <1>e, <1>r, <1>n, <3>1, <3>3, CentralStaysCentral DEF NoneStranded, Accounted, Queued
    <2>3. CASE CallFailsOver(c)
      <3>1. /\ cmd[c].pc = "call" /\ outbox' = outbox /\ lite' = lite
            /\ cmd' = [cmd EXCEPT ![c].pc = "queue"]
            /\ cmd[c] \in [pc : {"call", "queue"}, msg : Msg]
        BY <2>3 DEF CallFailsOver, queueVars, TypeOK, CmdState, Idle
      <3>2. \A d \in Days, t \in Nat : InFlight(d, t) => InFlight(d, t)'
        BY <3>1 DEF InFlight, TypeOK
      <3> QED
        BY <1>e, <1>r, <1>n, <3>1, <3>2, CentralStaysCentral DEF NoneStranded, Accounted, Queued
    <2>4. CASE CommandEnqueues(c)
      <3>1. /\ cmd[c].pc = "queue" /\ lite' = lite /\ cmd' = [cmd EXCEPT ![c] = Idle]
            /\ outbox' = outbox \cup {[id |-> nextId, msg |-> cmd[c].msg]}
        BY <2>4 DEF CommandEnqueues, Enqueue
      <3>2. \A d \in Days, t \in Nat : InFlight(d, t) => InFlight(d, t)' \/ Queued(d, t)'
        <4>1. \A d \in Days, t \in Nat : Carries(cmd[c].msg, d, t) => Queued(d, t)'
          <5>1. PICK e \in outbox' : e.msg = cmd[c].msg
            <6> DEFINE new == [id |-> nextId, msg |-> cmd[c].msg]
            <6>1. new.msg = cmd[c].msg /\ new \in outbox'
              BY <3>1
            <6> QED
              BY <6>1
          <5> QED
            BY <5>1 DEF Queued, Carries
        <4>2. \A k \in Commands \ {c} : cmd'[k] = cmd[k]
          BY <3>1 DEF TypeOK
        <4> QED
          BY <3>1, <4>1, <4>2 DEF InFlight
      <3>3. \A d \in Days, t \in Nat : Queued(d, t) => Queued(d, t)'
        BY <3>1 DEF Queued
      <3> QED
        BY <1>e, <1>r, <1>n, <3>1, <3>2, <3>3, CentralStaysCentral DEF NoneStranded, Accounted
    <2> QED
      BY <1>2, <2>1, <2>2, <2>3, <2>4 DEF CommandStep
  <1>3. ASSUME NEW w \in Workers, TaskStep(w)
        PROVE  NoneStranded'
    <2>1. CASE SyncMarks(w)
      <3>1. PICK e \in todo[w] : IsOldest(e, todo[w]) /\ outbox' = MarkSynced(outbox, e)
        BY <2>1 DEF SyncMarks
      <3>2. wpc[w] = "mark" /\ lite' = lite /\ cmd' = cmd
        BY <2>1 DEF SyncMarks, cmdVars
      <3>3. Central(e.msg.day, e.msg.row.at) /\ e.msg.row \in Row
        BY <3>1, <3>2, EntryPayload DEF ReplayedIsCentral
      <3>4. \A x \in outbox : x = e \/ x \in outbox'
        BY <3>1 DEF MarkSynced, IdsNameEntries
      <3>5. ASSUME NEW d \in Days, NEW t \in Nat, Carries(e.msg, d, t)
            PROVE  Central(d, t)
        BY <3>3, <3>5 DEF Carries, Central, Row, TypeOK, MaybeRow
      <3>6. \A d \in Days, t \in Nat : Queued(d, t) => Central(d, t) \/ Queued(d, t)'
        BY <3>4, <3>5 DEF Queued
      <3>7. \A d \in Days, t \in Nat : InFlight(d, t) => InFlight(d, t)'
        BY <3>2 DEF InFlight
      <3> QED
        BY <1>e, <1>r, <1>n, <3>2, <3>6, <3>7, CentralStaysCentral DEF NoneStranded, Accounted
    <2>2. CASE SyncApplies(w)
      <3>1. cmd' = cmd /\ outbox' = outbox
        BY <2>2 DEF SyncApplies, queueVars, cmdVars
      <3>2. ASSUME NEW d \in Days, lite'[d] # NoRow
            PROVE  \/ lite'[d] = lite[d]
                   \/ lite'[d] = fetched[w][d]
        BY <2>2, <3>2 DEF SyncApplies, Upserted, TypeOK
      <3>3. ASSUME NEW d \in Days, lite'[d] # NoRow, lite'[d] = fetched[w][d]
            PROVE  \A t \in Nat : lite'[d].at = t => Central(d, t)
        BY <3>3 DEF FetchedIsCentral, Central
      <3>4. \A d \in Days, t \in Nat :
                /\ InFlight(d, t) => InFlight(d, t)'
                /\ Queued(d, t) => Queued(d, t)'
        BY <3>1 DEF InFlight, Queued
      <3> QED
        <4>1. ASSUME NEW d \in Days, NEW t \in Nat, lite'[d] # NoRow, lite'[d].at = t
              PROVE  Central(d, t) \/ Queued(d, t)' \/ InFlight(d, t)'
          <5>1. CASE lite'[d] = lite[d]
            <6>1. Central(d, t) \/ Queued(d, t) \/ InFlight(d, t)
              BY <1>m, <4>1, <5>1
            <6> QED
              BY <6>1, <3>4
          <5>2. CASE lite'[d] = fetched[w][d]
            BY <4>1, <5>2, <3>3
          <5> QED
            BY <4>1, <5>1, <5>2, <3>2
        <4> QED
          BY <1>e, <4>1, CentralStaysCentral, StrandedNext
    <2>3. CASE SyncReaps(w)
      <3>1. /\ cmd' = cmd /\ outbox' = outbox
            /\ \A d \in Days : lite'[d] # NoRow => lite'[d] = lite[d]
        BY <2>3 DEF SyncReaps, queueVars, cmdVars
      <3>2. \A d \in Days, t \in Nat :
                /\ InFlight(d, t) => InFlight(d, t)'
                /\ Queued(d, t) => Queued(d, t)'
        BY <3>1 DEF InFlight, Queued
      <3> QED
        <4>1. ASSUME NEW d \in Days, NEW t \in Nat, lite'[d] # NoRow, lite'[d].at = t
              PROVE  Central(d, t) \/ Queued(d, t)' \/ InFlight(d, t)'
          <5>1. Central(d, t) \/ Queued(d, t) \/ InFlight(d, t)
            BY <1>m, <4>1, <3>1
          <5> QED
            BY <5>1, <3>2
        <4> QED
          BY <1>e, <4>1, CentralStaysCentral, StrandedNext
    <2> QED
      BY <1>e, <1>3, <2>1, <2>2, <2>3, NothingStranded
      DEF TaskStep, SyncBegins, SyncReplays, SyncReplayFails, SyncReplayed, SyncPulls,
          SyncListsPresent, queueVars, cmdVars
  <1>4. ASSUME NEW w \in Workers, Refresh(w)
        PROVE  NoneStranded'
    BY <1>e, <1>4, NothingStranded DEF Refresh, queueVars, cmdVars
  <1>5. CASE WatchProbes \/ WatchSwaps \/ Boot \/ PgChanges
    BY <1>e, <1>5, NothingStranded DEF WatchProbes, WatchSwaps, Boot, PgChanges, queueVars, cmdVars
  <1>6. ASSUME NEW d \in Days, PortalDeletes(d) \/ \E f \in Fields : PortalSets(d, f)
        PROVE  NoneStranded'
    BY <1>e, <1>6, NothingStranded DEF PortalDeletes, PortalSets, queueVars
  <1>7. CASE UNCHANGED vars
    BY <1>e, <1>7, NothingStranded DEF vars, queueVars, cmdVars
  <1> QED
    BY <1>e, <1>1, <1>2, <1>3, <1>4, <1>5, <1>6, <1>7, NoHarmStep DEF Next

LEMMA PunchInvStep == PunchInv /\ [Next]_vars => PunchInv'
  <1> SUFFICES ASSUME PunchInv, [Next]_vars PROVE PunchInv'
    OBVIOUS
  <1>1. TypeOK' /\ StampsPast' /\ IdsNameEntries'
    BY TypeStep, StampsPastStep, IdsNameEntriesStep DEF PunchInv
  <1>2. ASSUME NoHarm' PROVE CalmInv'
    <2>1. CalmInv
      <3>1. happened \subseteq happened'
        BY HappenedStep DEF PunchInv
      <3> QED
        BY <1>2, <3>1 DEF PunchInv, NoHarm, Calm
    <2> QED
      BY <1>1, <1>2, <2>1, OnlyUpsertsStep, ReplayedIsCentralStep, FetchedIsCentralStep,
         NoneStrandedStep DEF CalmInv
  <1> QED
    BY <1>1, <1>2 DEF PunchInv

\* No punch is stranded on the kiosk, for any number of days, columns,
\* commands and tasks that overlap and whatever else Env holds, as long as the
\* process has not died and nobody has deleted a day from the kiosk.
THEOREM NeverStranded == Spec => []NoPunchStranded
  <1>1. PunchInv => NoPunchStranded
    BY DEF PunchInv, CalmInv, NoHarm, NoPunchStranded
  <1> QED
    BY <1>1, PunchInvInit, PunchInvStep, PTL DEF Spec

-----------------------------------------------------------------------------
(* Last write wins.                                                        *)

NothingOlder == \A d \in Days : ~Older(pg[d], pg'[d]) /\ ~Older(lite[d], lite'[d])

LEMMA UpsertedNotOlder ==
    ASSUME NEW stored \in MaybeRow, NEW row \in MaybeRow
    PROVE  ~Older(stored, Upserted(stored, row))
  BY PunchSyncAssumption DEF Older, Upserted, Supersedes, MaybeRow, Row

LEMMA NothingOlderStep ==
    ASSUME TypeOK, StampsPast, [Next]_vars
    PROVE  NothingOlder
  <1>t. /\ clock \in Nat
        /\ \A d \in Days : lite[d] \in MaybeRow /\ pg[d] \in MaybeRow
        /\ \A w \in Workers, d \in Days : fetched[w][d] \in MaybeRow
        /\ \A r \in MaybeRow : ~Older(r, r) /\ ~Older(r, NoRow)
    BY DEF TypeOK, Older, MaybeRow, Row
  <1>a. ASSUME NEW m \in Msg, pg' = Applied(m)
        PROVE  \A d \in Days : ~Older(pg[d], pg'[d])
    BY <1>a, <1>t, UpsertedNotOlder DEF Applied, TypeOK, Msg, MaybeRow
  <1>w. ASSUME NEW stored \in MaybeRow, NEW f \in Fields, stored # NoRow => stored.at <= clock
        PROVE  ~Older(stored, WithField(stored, f, clock + 1))
    BY <1>w, <1>t DEF WithField, Older, MaybeRow, Row
  <1>1. ASSUME NEW c \in Commands, NEW d \in Days, NEW f \in Fields, SetFieldLocal(c, d, f)
        PROVE  NothingOlder
    <2>1. lite' = [lite EXCEPT ![d] = WithField(lite[d], f, clock + 1)] /\ pg' = pg
      BY <1>1 DEF SetFieldLocal, CommandStarts
    <2>2. ~Older(lite[d], WithField(lite[d], f, clock + 1))
      BY <1>t, <1>w DEF StampsPast, StampsBy
    <2> QED
      BY <1>t, <2>1, <2>2 DEF NothingOlder, TypeOK
  <1>2. ASSUME NEW c \in Commands, NEW d \in Days, DeleteDay(c, d)
        PROVE  NothingOlder
    BY <1>t, <1>2 DEF DeleteDay, NothingOlder, TypeOK
  <1>3. ASSUME NEW c \in Commands, CommandStep(c)
        PROVE  NothingOlder
    <2>1. lite' = lite /\ (pg' = pg \/ (cmd[c].pc = "call" /\ pg' = Applied(cmd[c].msg)))
      BY <1>3 DEF CommandStep, SetFieldRead, CallSucceeds, CallFailsOver, CommandEnqueues
    <2> QED
      BY <1>t, <1>a, <2>1, PayloadTypes DEF NothingOlder
  <1>4. ASSUME NEW w \in Workers, TaskStep(w)
        PROVE  NothingOlder
    <2>1. pg' = pg \/ \E e \in todo[w] : pg' = Applied(e.msg)
      BY <1>4
      DEF TaskStep, SyncBegins, SyncReplays, SyncReplayFails, SyncMarks, SyncReplayed,
          SyncPulls, SyncApplies, SyncListsPresent, SyncReaps
    <2>2. \A d \in Days : lite'[d] \in {lite[d], NoRow, Upserted(lite[d], fetched[w][d])}
      BY <1>4
      DEF TaskStep, SyncBegins, SyncReplays, SyncReplayFails, SyncMarks, SyncReplayed,
          SyncPulls, SyncApplies, SyncListsPresent, SyncReaps, TypeOK
    <2>3. \A d \in Days : ~Older(lite[d], lite'[d])
      BY <1>t, <2>2, UpsertedNotOlder
    <2> QED
      BY <1>t, <1>a, <2>1, <2>3, PayloadTypes DEF NothingOlder
  <1>5. ASSUME NEW d \in Days, NEW f \in Fields, PortalSets(d, f)
        PROVE  NothingOlder
    <2>1. pg' = [pg EXCEPT ![d] = WithField(pg[d], f, clock + 1)] /\ lite' = lite
      BY <1>5 DEF PortalSets
    <2>2. ~Older(pg[d], WithField(pg[d], f, clock + 1))
      BY <1>t, <1>w DEF StampsPast, StampsBy
    <2> QED
      BY <1>t, <2>1, <2>2 DEF NothingOlder, TypeOK
  <1>6. ASSUME NEW d \in Days, PortalDeletes(d)
        PROVE  NothingOlder
    BY <1>t, <1>6 DEF PortalDeletes, NothingOlder, TypeOK
  <1>7. ASSUME lite' = lite, pg' = pg
        PROVE  NothingOlder
    BY <1>t, <1>7 DEF NothingOlder
  <1> QED
    BY <1>1, <1>2, <1>3, <1>4, <1>5, <1>6, <1>7
    DEF Next, Refresh, WatchProbes, WatchSwaps, Boot, Crash, PgChanges, vars

\* Last write wins on both sides, whatever Env holds: crashes, outages,
\* deletions on either side, replays that arrive late.
THEOREM LastWriteAlwaysWins == Spec => LastWriteWins
  <1>1. Init => TypeOK /\ StampsPast
    BY PunchInvInit DEF PunchInv
  <1>2. TypeOK /\ StampsPast /\ [Next]_vars => (TypeOK /\ StampsPast)'
    BY TypeStep, StampsPastStep
  <1>3. TypeOK /\ StampsPast /\ [Next]_vars
           => [\A d \in Days : ~Older(pg[d], pg'[d]) /\ ~Older(lite[d], lite'[d])]_<<pg, lite>>
    BY NothingOlderStep DEF NothingOlder
  <1> QED
    BY <1>1, <1>2, <1>3, PTL DEF Spec, LastWriteWins

-----------------------------------------------------------------------------
(* What the synchronisation may rely on while nothing overlaps it.         *)

Alone == Calm({"overlap"})

\* A task that has taken its snapshot is the only one, and no command runs.
Busy(w) == wpc[w] \notin {"idle", "begin"}

OneAtATime ==
    \A w \in Workers : Busy(w) =>
        /\ \A c \in Commands : cmd[c] = Idle
        /\ \A v \in Workers \ {w} : ~Busy(v)

\* Nobody enqueues behind the snapshot, so the outbox is empty when it has been
\* replayed ("The outbox is now flushed", sync.rs).
Flushed ==
    \A w \in Workers :
        /\ wpc[w] \in {"replay", "mark"} => todo[w] = outbox
        /\ wpc[w] \in {"reap", "reaping"} => outbox = {}
        /\ wpc[w] \in {"pull", "apply"} /\ job[w] # "refresh" => outbox = {}

\* The local variables of a task hold something only where it uses them.
Tidy ==
    \A w \in Workers :
        /\ wpc[w] # "apply" => fetched[w] = NoRows
        /\ wpc[w] \notin {"replay", "mark"} => todo[w] = {}

AloneInv ==
    /\ TypeOK
    /\ IdsNameEntries
    /\ Tidy
    /\ Alone => OneAtATime /\ Flushed

\* A step of a task leaves the commands and the other tasks alone.
LEMMA TaskLocal ==
    ASSUME TypeOK, NEW w \in Workers, TaskStep(w)
    PROVE  /\ wpc[w] # "idle" /\ cmd' = cmd /\ deletedAt' = deletedAt /\ clock' = clock
           /\ \A v \in Workers \ {w} :
                 /\ wpc'[v] = wpc[v] /\ job'[v] = job[v] /\ todo'[v] = todo[v]
                 /\ fetched'[v] = fetched[v] /\ present'[v] = present[v]
  <1> USE DEF TypeOK, Goto, Finish, AfterPull, cmdVars
  <1>1. CASE SyncBegins(w)
    BY <1>1 DEF SyncBegins
  <1>2. CASE SyncReplays(w) \/ SyncMarks(w) \/ SyncReplayed(w)
    BY <1>2 DEF SyncReplays, SyncMarks, SyncReplayed
  <1>3. CASE SyncReplayFails(w)
    BY <1>3 DEF SyncReplayFails
  <1>4. CASE SyncPulls(w)
    BY <1>4 DEF SyncPulls
  <1>5. CASE SyncApplies(w)
    BY <1>5 DEF SyncApplies
  <1>6. CASE SyncListsPresent(w) \/ SyncReaps(w)
    BY <1>6 DEF SyncListsPresent, SyncReaps
  <1> QED
    BY <1>1, <1>2, <1>3, <1>4, <1>5, <1>6 DEF TaskStep

LEMMA TidyStep ==
    ASSUME TypeOK, Tidy, [Next]_vars
    PROVE  Tidy'
  <1> USE DEF TypeOK, Tidy
  <1>1. CASE UNCHANGED <<wpc, todo, fetched>>
    BY <1>1
  <1>2. ASSUME NEW w \in Workers, NEW j, NEW pc \in {"begin", "pull"}, Spawn(w, j, pc)
        PROVE  Tidy'
    BY <1>2 DEF Spawn
  <1>3. CASE Crash
    BY <1>3 DEF Crash
  <1>4. ASSUME NEW w \in Workers, TaskStep(w)
        PROVE  Tidy'
    <2> USE DEF Goto, AfterPull
    <2>1. ASSUME Finish(w)
          PROVE  fetched'[w] = NoRows /\ todo'[w] = {} /\ wpc'[w] = "idle"
      BY <2>1 DEF Finish
    <2>2. /\ wpc'[w] # "apply" => fetched'[w] = NoRows
          /\ wpc'[w] \notin {"replay", "mark"} => todo'[w] = {}
      <3>1. CASE SyncBegins(w)
        BY <2>1, <3>1 DEF SyncBegins
      <3>2. CASE SyncReplays(w) \/ SyncMarks(w) \/ SyncReplayed(w)
        BY <3>2 DEF SyncReplays, SyncMarks, SyncReplayed
      <3>3. CASE SyncReplayFails(w) \/ SyncReaps(w)
        BY <2>1, <3>3 DEF SyncReplayFails, SyncReaps
      <3>4. CASE SyncPulls(w)
        BY <2>1, <3>4 DEF SyncPulls
      <3>5. CASE SyncApplies(w)
        BY <2>1, <3>5 DEF SyncApplies
      <3>6. CASE SyncListsPresent(w)
        BY <2>1, <3>6 DEF SyncListsPresent
      <3> QED
        BY <1>4, <3>1, <3>2, <3>3, <3>4, <3>5, <3>6 DEF TaskStep
    <2> QED
      BY <1>4, <2>2, TaskLocal
  <1> QED
    BY <1>1, <1>2, <1>3, <1>4
    DEF Next, SetFieldLocal, DeleteDay, CommandStep, SetFieldRead, CallSucceeds, CallFailsOver,
        CommandEnqueues, Refresh, WatchProbes, WatchSwaps, PortalSets, PortalDeletes, Boot,
        PgChanges, vars, taskVars

\* What starts a step after which nothing has overlapped yet.
LEMMA StartsAlone ==
    ASSUME TypeOK, Alone'
    PROVE  /\ \A c \in Commands, d \in Days, f \in Fields :
                SetFieldLocal(c, d, f) \/ DeleteDay(c, d) => \A w \in Workers : wpc[w] = "idle"
           /\ \A w \in Workers : SyncBegins(w) \/ Refresh(w) =>
                /\ \A c \in Commands : cmd[c] = Idle
                /\ \A v \in Workers \ {w} : wpc[v] = "idle"
  <1>1. \A h : Meets(h) => "overlap" \notin h
    BY DEF Meets, Alone, Calm
  <1>2. ASSUME NEW c \in Commands, NEW d \in Days, NEW f \in Fields,
               SetFieldLocal(c, d, f) \/ DeleteDay(c, d)
        PROVE  \A w \in Workers : wpc[w] = "idle"
    BY <1>1, <1>2 DEF SetFieldLocal, DeleteDay, AtSync
  <1>3. ASSUME NEW w \in Workers, SyncBegins(w) \/ Refresh(w)
        PROVE  /\ \A c \in Commands : cmd[c] = Idle
               /\ \A v \in Workers \ {w} : wpc[v] = "idle"
    BY <1>1, <1>3 DEF SyncBegins, Refresh, AtOthers
  <1> QED
    BY <1>2, <1>3

\* While a task is past its beginning, only it and the world outside move.
LEMMA BusyStep ==
    ASSUME TypeOK, OneAtATime, Alone', [Next]_vars, NEW w \in Workers, Busy(w)
    PROVE  \/ TaskStep(w)
           \/ Crash
           \/ /\ UNCHANGED <<lite, outbox, nextId, cmd, todo, fetched, present>>
              /\ wpc'[w] = wpc[w] /\ job'[w] = job[w]
              /\ \A v \in Workers \ {w} : wpc'[v] = wpc[v] \/ wpc'[v] = "begin"
              /\ \/ UNCHANGED <<pg, deletedAt, clock>>
                 \/ \E d \in Days : PortalDeletes(d) \/ \E f \in Fields : PortalSets(d, f)
  <1> USE DEF Busy
  <1>1. /\ \A c \in Commands : cmd[c] = Idle
        /\ \A v \in Workers \ {w} : wpc[v] \in {"idle", "begin"}
    BY DEF OneAtATime
  <1>2. ASSUME NEW c \in Commands, CommandStep(c) PROVE FALSE
    BY <1>1, <1>2 DEF CommandStep, SetFieldRead, CallSucceeds, CallFailsOver, CommandEnqueues, Idle
  <1>3. ASSUME NEW v \in Workers \ {w}, TaskStep(v) PROVE FALSE
    <2>1. SyncBegins(v)
      BY <1>1, <1>3
      DEF TaskStep, SyncReplays, SyncReplayFails, SyncMarks, SyncReplayed, SyncPulls,
          SyncApplies, SyncListsPresent, SyncReaps
    <2> QED
      BY <2>1, StartsAlone
  <1>4. ASSUME NEW v \in Workers, Refresh(v) PROVE FALSE
    <2>1. v # w
      BY <1>4 DEF Refresh, Spawn
    <2> QED
      BY <1>4, <2>1, StartsAlone
  <1>5. ASSUME NEW c \in Commands, NEW d \in Days, NEW f \in Fields, SetFieldLocal(c, d, f)
        PROVE  FALSE
    BY <1>5, StartsAlone
  <1>6. ASSUME NEW c \in Commands, NEW d \in Days, DeleteDay(c, d)
        PROVE  FALSE
    <2>1. \A v \in Workers : wpc[v] = "idle"
      <3>1. "overlap" \notin {"kiosk_delete"} \cup AtSync
        BY <1>6 DEF DeleteDay, Meets, Alone, Calm
      <3> QED
        BY <3>1 DEF AtSync
    <2> QED
      BY <2>1
  <1>7. ASSUME NEW v \in Workers, NEW j, Spawn(v, j, "begin")
        PROVE  /\ wpc'[w] = wpc[w] /\ job'[w] = job[w] /\ UNCHANGED <<todo, fetched, present>>
               /\ \A u \in Workers \ {w} : wpc'[u] = wpc[u] \/ wpc'[u] = "begin"
    BY <1>7 DEF Spawn, TypeOK
  <1>8. CASE WatchProbes \/ PgChanges \/ UNCHANGED vars
    BY <1>8 DEF WatchProbes, PgChanges, vars, queueVars, cmdVars, taskVars
  <1>9. CASE WatchSwaps \/ Boot
    BY <1>7, <1>9 DEF WatchSwaps, Boot, queueVars, cmdVars, taskVars
  <1>10. ASSUME NEW d \in Days, PortalDeletes(d) \/ \E f \in Fields : PortalSets(d, f)
         PROVE  /\ UNCHANGED <<lite, outbox, nextId, cmd, todo, fetched, present>>
                /\ wpc' = wpc /\ job' = job
    BY <1>10 DEF PortalDeletes, PortalSets, queueVars, taskVars
  <1> QED
    BY <1>2, <1>3, <1>4, <1>5, <1>6, <1>8, <1>9, <1>10 DEF Next

LEMMA OneAtATimeStep ==
    ASSUME TypeOK, OneAtATime, Alone', [Next]_vars
    PROVE  OneAtATime'
  <1> SUFFICES ASSUME NEW w \in Workers, Busy(w)'
               PROVE  /\ \A c \in Commands : cmd'[c] = Idle
                      /\ \A v \in Workers \ {w} : ~Busy(v)'
    BY DEF OneAtATime
  <1>1. CASE Crash
    BY <1>1 DEF Crash, Busy
  <1>2. CASE Busy(w)
    <2>1. \A c \in Commands : cmd[c] = Idle
      BY <1>2 DEF OneAtATime
    <2>2. \A v \in Workers \ {w} : wpc[v] \in {"idle", "begin"}
      BY <1>2 DEF OneAtATime, Busy
    <2> QED
      BY <1>1, <1>2, <2>1, <2>2, BusyStep, TaskLocal DEF Busy
  <1>3. CASE ~Busy(w) /\ ~Crash
    <2>1. TaskStep(w) \/ Refresh(w)
      <3>1. \A v \in Workers : TaskStep(v) \/ Refresh(v) => w = v
        BY <1>3, TaskLocal DEF Busy, Refresh, Spawn, TypeOK
      <3>2. \A v \in Workers : \A j : Spawn(v, j, "begin") => wpc'[w] \in {wpc[w], "begin"}
        BY DEF Spawn, TypeOK
      <3>3. wpc' = wpc => FALSE
        BY <1>3 DEF Busy
      <3> QED
        BY <1>3, <3>1, <3>2, <3>3
        DEF Next, SetFieldLocal, DeleteDay, CommandStep, SetFieldRead, CallSucceeds,
            CallFailsOver, CommandEnqueues, WatchProbes, WatchSwaps, PortalSets,
            PortalDeletes, Boot, PgChanges, vars, taskVars, Busy
    <2>2. SyncBegins(w) \/ Refresh(w)
      BY <1>3, <2>1
      DEF Busy, TaskStep, SyncReplays, SyncReplayFails, SyncMarks, SyncReplayed, SyncPulls,
          SyncApplies, SyncListsPresent, SyncReaps
    <2>3. /\ \A c \in Commands : cmd[c] = Idle
          /\ \A v \in Workers \ {w} : wpc[v] = "idle"
      BY <2>2, StartsAlone
    <2>4. cmd' = cmd /\ \A v \in Workers \ {w} : wpc'[v] = wpc[v]
      BY <2>1, TaskLocal DEF Refresh, Spawn, TypeOK, cmdVars
    <2> QED
      BY <2>3, <2>4 DEF Busy
  <1> QED
    BY <1>1, <1>2, <1>3

LEMMA FlushedStep ==
    ASSUME TypeOK, IdsNameEntries, Tidy, OneAtATime, Flushed, Alone', [Next]_vars
    PROVE  Flushed'
  <1> DEFINE Part(w) == /\ wpc[w] \in {"replay", "mark"} => todo[w] = outbox
                        /\ wpc[w] \in {"reap", "reaping"} => outbox = {}
                        /\ wpc[w] \in {"pull", "apply"} /\ job[w] # "refresh" => outbox = {}
  <1> SUFFICES ASSUME NEW w \in Workers PROVE Part(w)'
    BY DEF Flushed
  <1>p. Part(w)
    BY DEF Flushed
  <1>1. CASE Crash
    BY <1>1 DEF Crash
  <1>2. ASSUME TaskStep(w)
        PROVE  Part(w)'
    <2> USE DEF Goto, AfterPull, TypeOK, queueVars
    <2>1. CASE Finish(w)
      BY <2>1 DEF Finish
    <2>2. CASE SyncBegins(w) /\ ~Finish(w)
      BY <2>2 DEF SyncBegins
    <2>3. CASE SyncReplays(w)
      BY <1>p, <2>3 DEF SyncReplays
    <2>4. CASE SyncMarks(w)
      <3>1. PICK e \in todo[w] : /\ outbox' = MarkSynced(outbox, e)
                                 /\ todo' = [todo EXCEPT ![w] = @ \ {e}]
        BY <2>4 DEF SyncMarks
      <3>2. todo[w] = outbox /\ wpc'[w] = "replay"
        BY <1>p, <2>4 DEF SyncMarks
      <3>3. outbox' = outbox \ {e}
        BY <3>1, <3>2 DEF MarkSynced, IdsNameEntries
      <3> QED
        BY <3>1, <3>2, <3>3
    <2>5. CASE SyncReplayed(w)
      BY <1>p, <2>5 DEF SyncReplayed
    <2>6. CASE SyncPulls(w) /\ ~Finish(w)
      BY <1>p, <2>6 DEF SyncPulls
    <2>7. CASE SyncApplies(w) /\ ~Finish(w)
      BY <1>p, <2>7 DEF SyncApplies
    <2>8. CASE SyncListsPresent(w) /\ ~Finish(w)
      BY <1>p, <2>8 DEF SyncListsPresent
    <2> QED
      BY <1>2, <2>1, <2>2, <2>3, <2>4, <2>5, <2>6, <2>7, <2>8
      DEF TaskStep, SyncReplayFails, SyncReaps
  <1>3. ASSUME Busy(w), ~TaskStep(w), ~Crash
        PROVE  Part(w)'
    BY <1>p, <1>3, BusyStep DEF Busy
  <1>4. ASSUME ~Busy(w), Busy(w)', ~Crash
        PROVE  TaskStep(w) \/ Refresh(w)
    <2>1. \A v \in Workers : TaskStep(v) \/ Refresh(v) => w = v
      BY <1>4, TaskLocal DEF Busy, Refresh, Spawn, TypeOK
    <2>2. \A v \in Workers : \A j : Spawn(v, j, "begin") => wpc'[w] \in {wpc[w], "begin"}
      BY DEF Spawn, TypeOK
    <2>3. wpc' = wpc => FALSE
      BY <1>4 DEF Busy
    <2> QED
      BY <1>4, <2>1, <2>2, <2>3
      DEF Next, SetFieldLocal, DeleteDay, CommandStep, SetFieldRead, CallSucceeds,
          CallFailsOver, CommandEnqueues, WatchProbes, WatchSwaps, PortalSets,
          PortalDeletes, Boot, PgChanges, vars, taskVars, Busy
  <1>5. CASE Refresh(w)
    BY <1>5 DEF Refresh, Spawn, TypeOK
  <1>6. CASE ~Busy(w)'
    BY <1>6 DEF Busy
  <1> QED
    BY <1>1, <1>2, <1>3, <1>4, <1>5, <1>6

LEMMA AloneInvInit == Init => AloneInv
  <1> SUFFICES ASSUME Init PROVE AloneInv
    OBVIOUS
  <1>1. TypeOK /\ IdsNameEntries
    BY PunchInvInit DEF PunchInv
  <1>2. Tidy /\ OneAtATime /\ Flushed
    BY DEF Init, Tidy, OneAtATime, Flushed, Busy
  <1> QED
    BY <1>1, <1>2 DEF AloneInv

LEMMA AloneInvStep == AloneInv /\ [Next]_vars => AloneInv'
  <1> SUFFICES ASSUME AloneInv, [Next]_vars PROVE AloneInv'
    OBVIOUS
  <1>1. TypeOK' /\ IdsNameEntries' /\ Tidy'
    BY TypeStep, IdsNameEntriesStep, TidyStep DEF AloneInv
  <1>2. Alone' => Alone
    BY HappenedStep DEF AloneInv, Alone, Calm
  <1>3. Alone' => OneAtATime' /\ Flushed'
    BY <1>2, OneAtATimeStep, FlushedStep DEF AloneInv
  <1> QED
    BY <1>1, <1>3 DEF AloneInv

-----------------------------------------------------------------------------
(* Reap removes only what was deleted.                                     *)

\* While a task is about to reap, only the portal moves, and PostgreSQL.
LEMMA ReapingStays ==
    ASSUME AloneInv, Alone', [Next]_vars,
           NEW w \in Workers, wpc'[w] = "reaping", ~SyncListsPresent(w)
    PROVE  /\ wpc[w] = "reaping"
           /\ UNCHANGED <<lite, outbox, nextId, cmd, todo, fetched, present>>
           /\ \/ UNCHANGED <<pg, deletedAt, clock>>
              \/ \E d \in Days : PortalDeletes(d) \/ \E f \in Fields : PortalSets(d, f)
  <1>a. TypeOK /\ OneAtATime
    BY HappenedStep DEF AloneInv, Alone, Calm
  <1>1. ~TaskStep(w)
    BY <1>a
    DEF TaskStep, SyncBegins, SyncReplays, SyncReplayFails, SyncMarks, SyncReplayed,
        SyncPulls, SyncApplies, SyncReaps, Finish, Goto, AfterPull, TypeOK
  <1>2. ~Crash
    BY DEF Crash
  <1>3. wpc[w] = "reaping"
    <2>1. \A v \in Workers : TaskStep(v) => v # w /\ wpc'[w] = wpc[w]
      BY <1>1, <1>a, TaskLocal
    <2>2. \A v \in Workers, pc \in {"begin", "pull"} : \A j :
            Spawn(v, j, pc) => wpc'[w] \in {wpc[w], pc}
      BY <1>a DEF Spawn, TypeOK
    <2> QED
      BY <1>2, <2>1, <2>2
      DEF Next, SetFieldLocal, DeleteDay, CommandStep, SetFieldRead, CallSucceeds,
          CallFailsOver, CommandEnqueues, Refresh, WatchProbes, WatchSwaps, PortalSets,
          PortalDeletes, Boot, PgChanges, vars, taskVars
  <1> QED
    BY <1>1, <1>2, <1>3, <1>a, BusyStep DEF Busy

\* With the outbox flushed and no command under way, what PostgreSQL lacks was
\* deleted there, and it stays so until the reap.
LEMMA ReapedStep ==
    ASSUME CalmInv, AloneInv, Alone', ReapedWereDeleted, [Next]_vars
    PROVE  ReapedWereDeleted'
  <1>a. TypeOK /\ OneAtATime /\ Flushed /\ StampsPast /\ NoneStranded
    BY HappenedStep DEF CalmInv, AloneInv, Alone, Calm
  <1> SUFFICES ASSUME NEW w \in Workers, wpc'[w] = "reaping",
                      NEW d \in Days \ present'[w], lite'[d] # NoRow
               PROVE  lite'[d].at <= deletedAt'[d]
    BY DEF ReapedWereDeleted
  <1>1. CASE SyncListsPresent(w)
    <2>1. /\ wpc[w] = "reap" /\ present'[w] = {k \in Days : pg[k] # NoRow}
          /\ lite' = lite /\ deletedAt' = deletedAt
      BY <1>1, <1>a DEF SyncListsPresent, Finish, TypeOK
    <2>2. outbox = {} /\ \A c \in Commands : cmd[c] = Idle
      BY <1>a, <2>1 DEF Flushed, OneAtATime, Busy
    <2>3. pg[d] = NoRow
      BY <2>1
    <2>4. ~Queued(d, lite[d].at) /\ ~InFlight(d, lite[d].at)
      BY <2>2 DEF Queued, InFlight, Idle
    <2>5. Central(d, lite[d].at)
      BY <1>a, <2>1, <2>4 DEF NoneStranded, Accounted
    <2> QED
      BY <2>1, <2>3, <2>5 DEF Central
  <1>2. CASE ~SyncListsPresent(w)
    <2>1. wpc[w] = "reaping" /\ lite' = lite /\ present' = present
      BY <1>2, ReapingStays
    <2>2. lite[d].at <= deletedAt[d]
      BY <2>1 DEF ReapedWereDeleted
    <2>3. deletedAt[d] \in Nat /\ deletedAt'[d] \in Nat /\ lite[d].at \in Nat /\ clock \in Nat
      BY <1>a, <2>1, TypeStep DEF TypeOK, MaybeRow, Row
    <2>4. deletedAt' = deletedAt \/ \E k \in Days : PortalDeletes(k)
      BY <1>2, ReapingStays DEF PortalSets
    <2>5. deletedAt'[d] = deletedAt[d] \/ deletedAt'[d] = clock + 1
      BY <1>a, <2>4 DEF PortalDeletes, TypeOK
    <2>6. deletedAt[d] <= clock
      BY <1>a DEF StampsPast, StampsBy
    <2> QED
      BY <2>1, <2>2, <2>3, <2>5, <2>6
  <1> QED
    BY <1>1, <1>2

\* "Any local time entry missing centrally was deleted elsewhere", for any
\* number of days, columns, commands and tasks, as long as nothing overlapped
\* a synchronisation, the process has not died and the kiosk deleted no day.
THEOREM OnlyDeletedReaped == Spec => []ReapsOnlyDeleted
  <1> DEFINE Inv == PunchInv /\ AloneInv /\ ReapsOnlyDeleted
  <1>1. Init => Inv
    BY PunchInvInit, AloneInvInit DEF Init, ReapsOnlyDeleted, ReapedWereDeleted
  <1>2. Inv /\ [Next]_vars => Inv'
    <2> SUFFICES ASSUME PunchInv, AloneInv, ReapsOnlyDeleted, [Next]_vars
                 PROVE  PunchInv' /\ AloneInv' /\ ReapsOnlyDeleted'
      OBVIOUS
    <2>1. PunchInv' /\ AloneInv'
      BY PunchInvStep, AloneInvStep
    <2>2. ASSUME Calm({"crash", "kiosk_delete", "overlap"})' PROVE ReapedWereDeleted'
      <3>1. NoHarm' /\ Alone'
        BY <2>2 DEF NoHarm, Alone, Calm
      <3>2. happened \subseteq happened'
        BY HappenedStep DEF PunchInv
      <3>3. NoHarm /\ ReapedWereDeleted
        BY <2>2, <3>2 DEF NoHarm, Calm, ReapsOnlyDeleted
      <3> QED
        BY <2>1, <3>1, <3>3, ReapedStep DEF PunchInv
    <2> QED
      BY <2>1, <2>2 DEF ReapsOnlyDeleted
  <1>3. Inv => ReapsOnlyDeleted
    OBVIOUS
  <1> QED
    BY <1>1, <1>2, <1>3, PTL DEF Spec

-----------------------------------------------------------------------------
(* The versions of a day, wherever they are.                               *)

Payloads ==
    {e.msg : e \in outbox \cup UNION {todo[w] : w \in Workers}}
    \cup {cmd[c].msg : c \in {k \in Commands : cmd[k].pc \in {"call", "queue"}}}

Versions(d) ==
    ({lite[d], pg[d]} \cup {fetched[w][d] : w \in Workers}
       \cup {m.row : m \in {p \in Payloads : p.day = d}}) \ {NoRow}

\* Row s has the columns of row r or later ones, but for what was deleted.
Keeps(d, r, s) ==
    \/ r.at <= deletedAt[d]
    \/ \A f \in Fields : r.cols[f] <= s.cols[f] \/ r.cols[f] <= deletedAt[d]

\* Of two versions the later one keeps the columns of the earlier.
VersionsOrdered ==
    \A d \in Days : \A r, s \in Versions(d) : r.at <= s.at => Keeps(d, r, s)

ColumnsPast == \A d \in Days : \A r \in Versions(d) : \A f \in Fields : r.cols[f] <= r.at

\* The mirror has the last version: the one that the next write starts from.
LiteNewest ==
    \A d \in Days : \A r \in Versions(d) :
        r.at <= deletedAt[d] \/ (lite[d] # NoRow /\ r.at <= lite[d].at)

\* What reap is about to remove has not come back.
ReapedGone ==
    \A w \in Workers : wpc[w] = "reaping" => \A d \in Days \ present[w] : pg[d] = NoRow

NoEdits == Calm({"portal_set", "overlap"})

ColumnsKept == VersionsOrdered /\ ColumnsPast /\ LiteNewest


LEMMA PayloadsAre ==
    ASSUME NEW m
    PROVE  m \in Payloads <=>
             \/ \E e \in outbox : m = e.msg
             \/ \E w \in Workers : \E e \in todo[w] : m = e.msg
             \/ \E c \in Commands : cmd[c].pc \in {"call", "queue"} /\ m = cmd[c].msg
  <1>1. m \in {cmd[c].msg : c \in {k \in Commands : cmd[k].pc \in {"call", "queue"}}}
          <=> \E c \in Commands : cmd[c].pc \in {"call", "queue"} /\ m = cmd[c].msg
    OBVIOUS
  <1>2. m \in {e.msg : e \in outbox \cup UNION {todo[w] : w \in Workers}}
          <=> \/ \E e \in outbox : m = e.msg
              \/ \E w \in Workers : \E e \in todo[w] : m = e.msg
    OBVIOUS
  <1> QED
    BY <1>1, <1>2 DEF Payloads

LEMMA PayloadsTyped ==
    ASSUME TypeOK, StampsPast
    PROVE  \A m \in Payloads : m \in Msg /\ Past(m, clock)
  <1>1. \A e \in outbox : e.msg \in Msg /\ Past(e.msg, clock)
    BY PayloadTypes DEF StampsPast, StampsBy
  <1>2. \A w \in Workers : \A e \in todo[w] : e.msg \in Msg /\ Past(e.msg, clock)
    BY PayloadTypes DEF StampsPast, StampsBy
  <1>3. \A c \in Commands : cmd[c].pc \in {"call", "queue"} =>
          cmd[c].msg \in Msg /\ Past(cmd[c].msg, clock)
    BY PayloadTypes DEF StampsPast, StampsBy
  <1> QED
    BY <1>1, <1>2, <1>3, PayloadsAre

LEMMA VersionsTyped ==
    ASSUME TypeOK, StampsPast, NEW d \in Days
    PROVE  \A r \in Versions(d) : r \in Row /\ r.at \in Nat /\ r.at <= clock
  <1> SUFFICES ASSUME NEW r \in Versions(d)
               PROVE  r \in Row /\ r.at <= clock
    BY DEF Row
  <1>1. CASE r = lite[d] \/ r = pg[d]
    BY <1>1 DEF Versions, TypeOK, MaybeRow, StampsPast, StampsBy
  <1>2. ASSUME NEW w \in Workers, r = fetched[w][d]
        PROVE  r \in Row /\ r.at <= clock
    BY <1>2 DEF Versions, TypeOK, MaybeRow, StampsPast, StampsBy
  <1>3. ASSUME NEW m \in Payloads, r = m.row
        PROVE  r \in Row /\ r.at <= clock
    <2>1. m \in Msg /\ Past(m, clock)
      BY PayloadsTyped
    <2>2. r # NoRow
      BY DEF Versions
    <2> QED
      BY <1>3, <2>1, <2>2 DEF Msg, Past
  <1> QED
    BY <1>1, <1>2, <1>3 DEF Versions

\* Where a version may be.
LEMMA IsVersion ==
    ASSUME NEW d \in Days
    PROVE  /\ lite[d] # NoRow => lite[d] \in Versions(d)
           /\ pg[d] # NoRow => pg[d] \in Versions(d)
           /\ \A w \in Workers : fetched[w][d] # NoRow => fetched[w][d] \in Versions(d)
           /\ \A m \in Payloads : m.day = d /\ m.row # NoRow => m.row \in Versions(d)
  BY DEF Versions

\* A step after which every row is one of known rows.
LEMMA VersionsWithin ==
    ASSUME NEW d \in Days, NEW S,
           lite'[d] # NoRow => lite'[d] \in S,
           pg'[d] # NoRow => pg'[d] \in S,
           \A w \in Workers : fetched'[w][d] # NoRow => fetched'[w][d] \in S,
           \A m \in Payloads' : m.day = d /\ m.row # NoRow => m.row \in S
    PROVE  Versions(d)' \subseteq S
  BY DEF Versions

\* Copies of versions keep them ordered, as long as the mirror stays the last.
LEMMA CopiesKeep ==
    ASSUME TypeOK, TypeOK', StampsPast, StampsPast', VersionsOrdered, ColumnsPast, LiteNewest,
           \A d \in Days : Versions(d)' \subseteq Versions(d),
           \A d \in Days : deletedAt[d] <= deletedAt'[d],
           \A d \in Days :
              \/ lite[d] = NoRow
              \/ lite'[d] # NoRow /\ lite[d].at <= lite'[d].at
              \/ \A r \in Versions(d)' : r.at <= deletedAt'[d]
    PROVE  VersionsOrdered' /\ ColumnsPast' /\ LiteNewest'
  <1>1. \A d \in Days : deletedAt[d] \in Nat /\ deletedAt'[d] \in Nat
    BY DEF TypeOK
  <1>2. \A r \in Row : r.at \in Nat /\ \A f \in Fields : r.cols[f] \in Nat
    BY DEF Row
  <1>3. \A d \in Days : \A r \in Versions(d)' : r \in Versions(d) /\ r \in Row
    BY VersionsTyped
  <1>4. VersionsOrdered'
    <2> SUFFICES ASSUME NEW d \in Days, NEW r \in Versions(d)', NEW s \in Versions(d)',
                        r.at <= s.at
                 PROVE  Keeps(d, r, s)'
      BY DEF VersionsOrdered
    <2>1. Keeps(d, r, s)
      BY <1>3 DEF VersionsOrdered
    <2>2. r \in Row /\ deletedAt[d] \in Nat /\ deletedAt'[d] \in Nat
          /\ deletedAt[d] <= deletedAt'[d]
      BY <1>1, <1>3
    <2> QED
      BY <1>2, <2>1, <2>2 DEF Keeps
  <1>5. ColumnsPast'
    BY <1>3 DEF ColumnsPast
  <1>6. LiteNewest'
    <2> SUFFICES ASSUME NEW d \in Days, NEW r \in Versions(d)', ~(r.at <= deletedAt'[d])
                 PROVE  lite'[d] # NoRow /\ r.at <= lite'[d].at
      BY DEF LiteNewest
    <2>1. lite[d] # NoRow /\ r.at <= lite[d].at
      BY <1>1, <1>2, <1>3 DEF LiteNewest
    <2>2. lite'[d] # NoRow /\ lite[d].at <= lite'[d].at
      BY <2>1
    <2>3. lite[d] \in Row /\ lite'[d] \in Row
      BY <2>1, <2>2 DEF TypeOK, MaybeRow
    <2> QED
      BY <1>2, <1>3, <2>1, <2>2, <2>3
  <1> QED
    BY <1>4, <1>5, <1>6

\* The case of a step that does not touch the mirror and deletes nothing.
LEMMA CopiesAround ==
    ASSUME TypeOK, TypeOK', StampsPast, StampsPast', VersionsOrdered, ColumnsPast, LiteNewest,
           lite' = lite, deletedAt' = deletedAt,
           \A d \in Days : Versions(d)' \subseteq Versions(d)
    PROVE  VersionsOrdered' /\ ColumnsPast' /\ LiteNewest'
  <1>1. \A d \in Days : deletedAt[d] <= deletedAt'[d]
    BY DEF TypeOK
  <1>2. \A d \in Days : lite[d] = NoRow \/ (lite'[d] # NoRow /\ lite[d].at <= lite'[d].at)
    BY DEF TypeOK, MaybeRow, Row
  <1> QED
    BY <1>1, <1>2, CopiesKeep

LEMMA PayloadsWithin ==
    ASSUME NEW S,
           \A e \in outbox' : e.msg \in S,
           \A w \in Workers : \A e \in todo'[w] : e.msg \in S,
           \A c \in Commands : cmd'[c].pc \in {"call", "queue"} => cmd'[c].msg \in S
    PROVE  Payloads' \subseteq S
  <1>1. ASSUME NEW m
        PROVE  m \in Payloads' <=>
                 \/ \E e \in outbox' : m = e.msg
                 \/ \E w \in Workers : \E e \in todo'[w] : m = e.msg
                 \/ \E c \in Commands : cmd'[c].pc \in {"call", "queue"} /\ m = cmd'[c].msg
    <2>1. m \in {cmd'[c].msg : c \in {k \in Commands : cmd'[k].pc \in {"call", "queue"}}}
            <=> \E c \in Commands : cmd'[c].pc \in {"call", "queue"} /\ m = cmd'[c].msg
      OBVIOUS
    <2>2. m \in {e.msg : e \in outbox' \cup UNION {todo'[w] : w \in Workers}}
            <=> \/ \E e \in outbox' : m = e.msg
                \/ \E w \in Workers : \E e \in todo'[w] : m = e.msg
      OBVIOUS
    <2> QED
      BY <2>1, <2>2 DEF Payloads
  <1> QED
    BY <1>1

LEMMA IsPayload ==
    /\ \A e \in outbox : e.msg \in Payloads
    /\ \A w \in Workers : \A e \in todo[w] : e.msg \in Payloads
    /\ \A c \in Commands : cmd[c].pc \in {"call", "queue"} => cmd[c].msg \in Payloads
  BY PayloadsAre

\* What a payload leaves in PostgreSQL was a version before.
LEMMA AppliedVersion ==
    ASSUME TypeOK, StampsPast, NEW m \in Payloads, pg' = Applied(m), NEW d \in Days,
           pg'[d] # NoRow
    PROVE  pg'[d] = pg[d] \/ (m.day = d /\ m.row # NoRow /\ pg'[d] = m.row /\ Supersedes(pg[d], m.row))
  <1>1. m \in Msg
    BY PayloadsTyped
  <1>2. pg'[d] = IF d = m.day
                 THEN IF m.op = "upsert" THEN Upserted(pg[d], m.row) ELSE NoRow
                 ELSE pg[d]
    BY DEF Applied, TypeOK
  <1> QED
    BY <1>1, <1>2 DEF Upserted

\* A step that applies a payload, if any, and copies payloads.
LEMMA AppliedWithin ==
    ASSUME TypeOK, StampsPast, NEW d \in Days,
           lite' = lite, Payloads' \subseteq Payloads,
           pg' = pg \/ \E m \in Payloads : pg' = Applied(m),
           \A w \in Workers : fetched'[w][d] # NoRow =>
              fetched'[w][d] \in {fetched[w][d], pg[d]}
    PROVE  Versions(d)' \subseteq Versions(d)
  <1>1. pg'[d] # NoRow => pg'[d] \in Versions(d)
    BY AppliedVersion, IsVersion
  <1>2. \A w \in Workers : fetched'[w][d] # NoRow => fetched'[w][d] \in Versions(d)
    BY IsVersion
  <1>3. \A m \in Payloads' : m.day = d /\ m.row # NoRow => m.row \in Versions(d)
    BY IsVersion
  <1>4. lite'[d] # NoRow => lite'[d] \in Versions(d)
    BY IsVersion
  <1> QED
    BY <1>1, <1>2, <1>3, <1>4, VersionsWithin

LEMMA CommandColumns ==
    ASSUME TypeOK, TypeOK', StampsPast, StampsPast', ColumnsKept,
           NEW c \in Commands, CommandStep(c)
    PROVE  ColumnsKept'
  <1> USE DEF ColumnsKept
  <1>a. lite' = lite /\ deletedAt' = deletedAt /\ todo' = todo /\ fetched' = fetched
    BY DEF CommandStep, SetFieldRead, CallSucceeds, CallFailsOver, CommandEnqueues, taskVars
  <1>b. \A k \in Commands \ {c} : cmd'[k] = cmd[k]
    BY DEF CommandStep, SetFieldRead, CallSucceeds, CallFailsOver, CommandEnqueues, TypeOK
  <1>c. cmd[c] \in CmdState /\ cmd \in [Commands -> CmdState]
    BY DEF TypeOK
  <1>1. CASE SetFieldRead(c)
    <2> DEFINE k == cmd[c].day
    <2>1. pg' = pg /\ outbox' = outbox /\ k \in Days
      BY <1>1, <1>c DEF SetFieldRead, queueVars, CmdState, Idle
    <2>2. cmd'[c].pc \in {"call", "queue"} => lite[k] # NoRow /\ cmd'[c].msg = WholeRow(k)
      BY <1>1, <1>c DEF SetFieldRead, Idle
    <2>3. Payloads' \subseteq Payloads \cup {m \in {WholeRow(k)} : lite[k] # NoRow}
      <3> DEFINE S == Payloads \cup {m \in {WholeRow(k)} : lite[k] # NoRow}
      <3>1. \A x \in Commands : cmd'[x].pc \in {"call", "queue"} => cmd'[x].msg \in S
        BY <1>b, <2>2, IsPayload
      <3>2. /\ \A e \in outbox' : e.msg \in S
            /\ \A w \in Workers : \A e \in todo'[w] : e.msg \in S
        BY <1>a, <2>1, IsPayload
      <3> HIDE DEF S
      <3>3. Payloads' \subseteq S
        BY <3>1, <3>2, PayloadsWithin
      <3> QED
        BY <3>3 DEF S
    <2>4. ASSUME NEW d \in Days PROVE Versions(d)' \subseteq Versions(d)
      <3>1. \A m \in Payloads' : m.day = d /\ m.row # NoRow => m.row \in Versions(d)
        BY <2>3, IsVersion DEF WholeRow
      <3> QED
        BY <1>a, <2>1, <3>1, IsVersion, VersionsWithin
    <2> QED
      BY <1>a, <2>4, CopiesAround
  <1>2. CASE ~SetFieldRead(c)
    <2>1. cmd[c].pc \in {"call", "queue"}
      BY <1>2 DEF CommandStep, CallSucceeds, CallFailsOver, CommandEnqueues
    <2>2. cmd'[c].pc \in {"call", "queue"} => cmd'[c].msg = cmd[c].msg
      BY <1>2, <1>c DEF CommandStep, CallSucceeds, CallFailsOver, CommandEnqueues, Idle, CmdState
    <2>3. \A e \in outbox' : e \in outbox \/ e.msg = cmd[c].msg
      BY <1>2 DEF CommandStep, CallSucceeds, CallFailsOver, CommandEnqueues, Enqueue, queueVars
    <2>4. Payloads' \subseteq Payloads
      BY <1>a, <1>b, <2>1, <2>2, <2>3, IsPayload, PayloadsWithin
    <2>5. pg' = pg \/ pg' = Applied(cmd[c].msg)
      BY <1>2 DEF CommandStep, CallSucceeds, CallFailsOver, CommandEnqueues
    <2>6. \A d \in Days : Versions(d)' \subseteq Versions(d)
      BY <1>a, <2>1, <2>4, <2>5, IsPayload, AppliedWithin
    <2> QED
      BY <1>a, <2>6, CopiesAround
  <1> QED
    BY <1>1, <1>2

LEMMA TaskColumns ==
    ASSUME AloneInv, Alone', TypeOK', StampsPast, StampsPast', ColumnsKept, ReapedGone,
           NEW w \in Workers, TaskStep(w)
    PROVE  ColumnsKept'
  <1> USE DEF ColumnsKept
  <1>a. TypeOK /\ Tidy /\ cmd' = cmd /\ deletedAt' = deletedAt
        /\ \A v \in Workers \ {w} : todo'[v] = todo[v] /\ fetched'[v] = fetched[v]
    BY TaskLocal DEF AloneInv
  <1>b. /\ outbox' \subseteq outbox
        /\ todo'[w] \subseteq todo[w] \cup outbox
    BY <1>a
    DEF TaskStep, SyncBegins, SyncReplays, SyncReplayFails, SyncMarks, SyncReplayed, SyncPulls,
        SyncApplies, SyncListsPresent, SyncReaps, MarkSynced, Finish, AfterPull, Goto, queueVars,
        TypeOK
  <1>c. Payloads' \subseteq Payloads
    <2>1. \A v \in Workers : \A e \in todo'[v] : e.msg \in Payloads
      BY <1>a, <1>b, IsPayload
    <2> QED
      BY <1>a, <1>b, <2>1, IsPayload, PayloadsWithin
  <1>d. Finish(w) => fetched'[w] = NoRows
    BY <1>a DEF Finish, TypeOK
  <1>e. \A d \in Days : NoRows[d] = NoRow
    BY DEF NoRows
  <1>1. CASE SyncReplays(w) \/ SyncReplayFails(w) \/ SyncPulls(w) \/ SyncBegins(w)
             \/ SyncMarks(w) \/ SyncReplayed(w) \/ SyncListsPresent(w)
    <2>1. lite' = lite
      BY <1>1
      DEF SyncReplays, SyncReplayFails, SyncPulls, SyncBegins, SyncMarks, SyncReplayed,
          SyncListsPresent
    <2>2. pg' = pg \/ \E e \in todo[w] : pg' = Applied(e.msg)
      BY <1>1
      DEF SyncReplays, SyncReplayFails, SyncPulls, SyncBegins, SyncMarks, SyncReplayed,
          SyncListsPresent
    <2>3. fetched'[w] \in {fetched[w], pg, NoRows}
      BY <1>1, <1>a, <1>d
      DEF SyncReplays, SyncReplayFails, SyncPulls, SyncBegins, SyncMarks, SyncReplayed,
          SyncListsPresent, AfterPull, TypeOK
    <2>4. ASSUME NEW d \in Days PROVE Versions(d)' \subseteq Versions(d)
      <3>1. \A v \in Workers : fetched'[v][d] # NoRow => fetched'[v][d] \in {fetched[v][d], pg[d]}
        BY <1>a, <1>e, <2>3
      <3> QED
        BY <1>a, <1>c, <2>1, <2>2, <3>1, IsPayload, AppliedWithin
    <2> QED
      BY <1>a, <2>1, <2>4, CopiesAround
  <1>2. CASE SyncApplies(w)
    <2>0. pg' = pg
      BY <1>2 DEF SyncApplies
    <2>1. \A d \in Days : lite'[d] = lite[d]
            \/ (fetched[w][d] # NoRow /\ lite'[d] = Upserted(lite[d], fetched[w][d]))
      BY <1>2, <1>a DEF SyncApplies, TypeOK
    <2>2. \A d \in Days : fetched'[w][d] \in {fetched[w][d], NoRow}
      BY <1>2, <1>a, <1>d, <1>e DEF SyncApplies, AfterPull, TypeOK
    <2>3. ASSUME NEW d \in Days PROVE Versions(d)' \subseteq Versions(d)
      <3>1. lite'[d] # NoRow => lite'[d] \in Versions(d)
        BY <2>1, IsVersion DEF Upserted
      <3>2. \A v \in Workers : fetched'[v][d] # NoRow => fetched'[v][d] \in Versions(d)
        BY <1>a, <2>2, IsVersion
      <3>3. \A m \in Payloads' : m.day = d /\ m.row # NoRow => m.row \in Versions(d)
        BY <1>c, IsVersion
      <3> QED
        BY <2>0, <3>1, <3>2, <3>3, IsVersion, VersionsWithin
    <2>4. ASSUME NEW d \in Days, lite[d] # NoRow
          PROVE  lite'[d] # NoRow /\ lite[d].at <= lite'[d].at
      <3>1. lite[d] \in Row /\ lite[d].at \in Nat
        BY <1>a, <2>4 DEF TypeOK, MaybeRow, Row
      <3> QED
        BY <2>1, <2>4, <3>1 DEF Upserted, Supersedes
    <2>5. \A d \in Days : deletedAt[d] <= deletedAt'[d]
      BY <1>a DEF TypeOK
    <2> QED
      BY <1>a, <2>3, <2>4, <2>5, CopiesKeep
  <1>3. CASE SyncReaps(w)
    <2>0. OneAtATime /\ Flushed
      BY <1>3, HappenedStep DEF AloneInv, Alone, Calm, SyncReaps
    <2>1. wpc[w] = "reaping" /\ pg' = pg /\ fetched'[w] = NoRows /\ todo'[w] = {}
          /\ \A d \in Days : lite'[d] = IF d \in present[w] THEN lite[d] ELSE NoRow
      BY <1>3, <1>a, <1>d DEF SyncReaps, Finish, TypeOK
    <2>2. outbox' = {} /\ \A c \in Commands : cmd'[c] = Idle
      BY <1>a, <1>b, <2>0, <2>1 DEF OneAtATime, Flushed, Busy
    <2>3. \A v \in Workers : fetched'[v] = NoRows /\ todo'[v] = {}
      BY <1>a, <2>0, <2>1 DEF OneAtATime, Busy, Tidy
    <2>4. Payloads' \subseteq {}
      BY <2>2, <2>3, PayloadsWithin DEF Idle
    <2>5. ASSUME NEW d \in Days \ present[w] PROVE Versions(d)' \subseteq {}
      <3>1. pg'[d] = NoRow /\ lite'[d] = NoRow
        BY <2>1 DEF ReapedGone
      <3> QED
        BY <1>e, <2>3, <2>4, <3>1, VersionsWithin
    <2>6. ASSUME NEW d \in Days PROVE Versions(d)' \subseteq Versions(d)
      <3>1. lite'[d] # NoRow => lite'[d] \in Versions(d)
        BY <2>1, IsVersion
      <3> QED
        BY <1>e, <2>1, <2>3, <2>4, <3>1, IsVersion, VersionsWithin
    <2>7. ASSUME NEW d \in Days
          PROVE  \/ lite[d] = NoRow
                 \/ lite'[d] # NoRow /\ lite[d].at <= lite'[d].at
                 \/ \A r \in Versions(d)' : r.at <= deletedAt'[d]
      <3>1. CASE d \in present[w]
        BY <1>a, <2>1, <3>1 DEF TypeOK, MaybeRow, Row
      <3>2. CASE d \notin present[w]
        BY <2>5, <3>2
      <3> QED
        BY <3>1, <3>2
    <2>8. \A d \in Days : deletedAt[d] <= deletedAt'[d]
      BY <1>a DEF TypeOK
    <2> QED
      BY <1>a, <2>6, <2>7, <2>8, CopiesKeep
  <1> QED
    BY <1>1, <1>2, <1>3 DEF TaskStep

\* The write of a column makes a version that keeps all the others.
LEMMA WriteColumns ==
    ASSUME TypeOK, TypeOK', StampsPast, ColumnsKept,
           NEW c \in Commands, NEW k \in Days, NEW f \in Fields, SetFieldLocal(c, k, f)
    PROVE  ColumnsKept'
  <1> DEFINE n == WithField(lite[k], f, clock + 1)
  <1> USE DEF ColumnsKept
  <1>1. /\ lite' = [lite EXCEPT ![k] = n] /\ pg' = pg /\ deletedAt' = deletedAt
        /\ todo' = todo /\ fetched' = fetched /\ outbox' = outbox
        /\ cmd' = [cmd EXCEPT ![c] = [pc |-> "read", day |-> k]]
    BY DEF SetFieldLocal, CommandStarts, queueVars, taskVars
  <1>2. clock \in Nat /\ lite[k] \in MaybeRow /\ NoRow \notin Row
    BY PunchSyncAssumption DEF TypeOK
  <1>3. n \in Row /\ n.at = clock + 1
        /\ \A g \in Fields : n.cols[g] = IF g = f THEN clock + 1
                                          ELSE IF lite[k] = NoRow THEN 0 ELSE lite[k].cols[g]
    BY <1>2, WithFieldType DEF WithField, MaybeRow
  <1>n. n # NoRow
    BY <1>2, <1>3
  <1> HIDE DEF n
  <1>4. Payloads' \subseteq Payloads
    <2>1. \A x \in Commands : cmd'[x].pc \in {"call", "queue"} => cmd'[x].msg \in Payloads
      BY <1>1, IsPayload DEF TypeOK
    <2> QED
      BY <1>1, <2>1, IsPayload, PayloadsWithin
  <1>5. ASSUME NEW d \in Days
        PROVE  Versions(d)' \subseteq Versions(d) \cup {x \in {n} : d = k}
    <2> DEFINE S == Versions(d) \cup {x \in {n} : d = k}
    <2>1. lite'[d] # NoRow => lite'[d] \in S
      BY <1>1, IsVersion DEF TypeOK
    <2>2. /\ pg'[d] # NoRow => pg'[d] \in S
          /\ \A w \in Workers : fetched'[w][d] # NoRow => fetched'[w][d] \in S
          /\ \A m \in Payloads' : m.day = d /\ m.row # NoRow => m.row \in S
      BY <1>1, <1>4, IsVersion
    <2> HIDE DEF S
    <2>3. Versions(d)' \subseteq S
      BY <2>1, <2>2, VersionsWithin
    <2> QED
      BY <2>3 DEF S
  <1>6. \A r \in Row : r.at \in Nat /\ \A g \in Fields : r.cols[g] \in Nat
    BY DEF Row
  <1>7. \A d \in Days : \A r \in Versions(d) : r \in Row /\ r.at <= clock
    BY VersionsTyped
  <1>8. \A d \in Days : deletedAt[d] \in Nat
    BY DEF TypeOK
  <1>9. ASSUME NEW r \in Versions(k) PROVE Keeps(k, r, n)
    <2>1. CASE r.at <= deletedAt[k]
      BY <2>1 DEF Keeps
    <2>2. CASE ~(r.at <= deletedAt[k])
      <3>1. lite[k] # NoRow /\ r.at <= lite[k].at
        BY <2>2 DEF LiteNewest
      <3>2. lite[k] \in Versions(k) /\ Keeps(k, r, lite[k])
        BY <3>1, IsVersion DEF VersionsOrdered
      <3>3. \A g \in Fields : r.cols[g] <= r.at /\ r.cols[g] \in Nat /\ r.at <= clock
                             /\ r.at \in Nat
        BY <1>6, <1>7 DEF ColumnsPast
      <3>4. \A g \in Fields : r.cols[g] <= n.cols[g] \/ r.cols[g] <= deletedAt[k]
        BY <1>2, <1>3, <2>2, <3>1, <3>2, <3>3 DEF Keeps
      <3> QED
        BY <3>4 DEF Keeps
    <2> QED
      BY <2>1, <2>2
  <1>10. VersionsOrdered'
    <2> SUFFICES ASSUME NEW d \in Days, NEW r \in Versions(d)', NEW s \in Versions(d)',
                        r.at <= s.at
                 PROVE  Keeps(d, r, s)
      BY <1>1 DEF VersionsOrdered, Keeps
    <2>1. CASE r \in Versions(d) /\ s \in Versions(d)
      BY <2>1 DEF VersionsOrdered
    <2>2. CASE r \in Versions(d) /\ s = n /\ d = k
      BY <1>9, <2>2
    <2>3. CASE r = n
      <3>1. s = n
        BY <1>2, <1>3, <1>5, <1>6, <1>7, <2>3
      <3>2. \A g \in Fields : n.cols[g] <= n.cols[g]
        BY <1>3, <1>6
      <3> QED
        BY <2>3, <3>1, <3>2 DEF Keeps
    <2> QED
      BY <1>5, <2>1, <2>2, <2>3
  <1>11. ColumnsPast'
    <2> SUFFICES ASSUME NEW d \in Days, NEW r \in Versions(d)', NEW g \in Fields
                 PROVE  r.cols[g] <= r.at
      BY DEF ColumnsPast
    <2>1. CASE r \in Versions(d)
      BY <2>1 DEF ColumnsPast
    <2>2. CASE r = n
      <3>1. lite[k] # NoRow => lite[k].cols[g] <= lite[k].at /\ lite[k].at <= clock
                               /\ lite[k] \in Row
        BY <1>7, IsVersion DEF ColumnsPast
      <3> QED
        BY <1>2, <1>3, <1>6, <2>2, <3>1
    <2> QED
      BY <1>5, <2>1, <2>2
  <1>12. LiteNewest'
    <2> SUFFICES ASSUME NEW d \in Days, NEW r \in Versions(d)'
                 PROVE  r.at <= deletedAt[d] \/ (lite'[d] # NoRow /\ r.at <= lite'[d].at)
      BY <1>1 DEF LiteNewest
    <2>1. CASE d = k
      <3>1. lite'[d] = n
        BY <1>1, <2>1 DEF TypeOK
      <3>2. r.at <= n.at
        BY <1>2, <1>3, <1>5, <1>6, <1>7
      <3> QED
        BY <1>n, <3>1, <3>2
    <2>2. CASE d # k
      <3>1. lite'[d] = lite[d] /\ r \in Versions(d)
        BY <1>1, <1>5, <2>2 DEF TypeOK
      <3> QED
        BY <3>1 DEF LiteNewest
    <2> QED
      BY <2>1, <2>2
  <1> QED
    BY <1>10, <1>11, <1>12

\* A deletion is later than every version there is.
LEMMA DeletionColumns ==
    ASSUME TypeOK, TypeOK', StampsPast, StampsPast', ColumnsKept, NEW k \in Days,
           \/ \E c \in Commands : DeleteDay(c, k)
           \/ PortalDeletes(k)
    PROVE  ColumnsKept'
  <1> USE DEF ColumnsKept
  <1>1. /\ deletedAt' = [deletedAt EXCEPT ![k] = clock + 1]
        /\ todo' = todo /\ fetched' = fetched /\ outbox' = outbox
        /\ \A d \in Days : pg'[d] \in {pg[d], NoRow} /\ lite'[d] \in {lite[d], NoRow}
        /\ \A d \in Days \ {k} : lite'[d] = lite[d]
    BY DEF DeleteDay, PortalDeletes, CommandStarts, queueVars, taskVars, TypeOK
  <1>2. \A x \in Commands :
          \/ cmd'[x] = cmd[x]
          \/ cmd'[x].msg = [op |-> "delete", day |-> k, row |-> NoRow]
    BY DEF DeleteDay, PortalDeletes, TypeOK
  <1>3. Payloads' \subseteq Payloads \cup {[op |-> "delete", day |-> k, row |-> NoRow]}
    <2> DEFINE S == Payloads \cup {[op |-> "delete", day |-> k, row |-> NoRow]}
    <2>1. \A x \in Commands : cmd'[x].pc \in {"call", "queue"} => cmd'[x].msg \in S
      BY <1>2, IsPayload
    <2>2. /\ \A e \in outbox' : e.msg \in S
          /\ \A w \in Workers : \A e \in todo'[w] : e.msg \in S
      BY <1>1, IsPayload
    <2> HIDE DEF S
    <2>3. Payloads' \subseteq S
      BY <2>1, <2>2, PayloadsWithin
    <2> QED
      BY <2>3 DEF S
  <1>4. ASSUME NEW d \in Days PROVE Versions(d)' \subseteq Versions(d)
    <2>1. \A m \in Payloads' : m.day = d /\ m.row # NoRow => m.row \in Versions(d)
      BY <1>3, IsVersion
    <2>2. /\ lite'[d] # NoRow => lite'[d] \in Versions(d)
          /\ pg'[d] # NoRow => pg'[d] \in Versions(d)
          /\ \A w \in Workers : fetched'[w][d] # NoRow => fetched'[w][d] \in Versions(d)
      BY <1>1, IsVersion
    <2> QED
      BY <2>1, <2>2, VersionsWithin
  <1>5. clock \in Nat /\ \A d \in Days : deletedAt[d] \in Nat /\ deletedAt[d] <= clock
    BY DEF TypeOK, StampsPast, StampsBy
  <1>6. \A d \in Days : deletedAt[d] <= deletedAt'[d]
    BY <1>1, <1>5 DEF TypeOK
  <1>7. ASSUME NEW d \in Days
        PROVE  \/ lite[d] = NoRow
               \/ lite'[d] # NoRow /\ lite[d].at <= lite'[d].at
               \/ \A r \in Versions(d)' : r.at <= deletedAt'[d]
    <2>1. CASE d = k
      <3>1. deletedAt'[d] = clock + 1
        BY <1>1, <2>1 DEF TypeOK
      <3>2. \A r \in Versions(d)' : r.at \in Nat /\ r.at <= clock
        BY <1>4, VersionsTyped
      <3> QED
        BY <1>5, <3>1, <3>2
    <2>2. CASE d # k
      BY <1>1, <2>2 DEF TypeOK, MaybeRow, Row
    <2> QED
      BY <2>1, <2>2
  <1> QED
    BY <1>4, <1>6, <1>7, CopiesKeep

LEMMA ColumnsStep ==
    ASSUME AloneInv, TypeOK', StampsPast, StampsPast', ColumnsKept, ReapedGone, NoEdits',
           [Next]_vars
    PROVE  ColumnsKept'
  <1>a. TypeOK /\ Alone'
    BY DEF AloneInv, NoEdits, Alone, Calm
  <1>1. ASSUME UNCHANGED <<lite, pg, outbox, deletedAt>>,
               \A c \in Commands : cmd'[c] \in {cmd[c], Idle},
               \A w \in Workers : todo'[w] \in {todo[w], {}} /\ fetched'[w] \in {fetched[w], NoRows}
        PROVE  ColumnsKept'
    <2>1. Payloads' \subseteq Payloads
      <3>1. \A c \in Commands : cmd'[c].pc \in {"call", "queue"} => cmd'[c].msg \in Payloads
        BY <1>1, IsPayload DEF Idle
      <3>2. /\ \A e \in outbox' : e.msg \in Payloads
            /\ \A w \in Workers : \A e \in todo'[w] : e.msg \in Payloads
        BY <1>1, IsPayload
      <3> QED
        BY <3>1, <3>2, PayloadsWithin
    <2>2. ASSUME NEW d \in Days PROVE Versions(d)' \subseteq Versions(d)
      <3>1. \A w \in Workers : fetched'[w][d] # NoRow => fetched'[w][d] \in {fetched[w][d], pg[d]}
        BY <1>1 DEF NoRows
      <3> QED
        BY <1>1, <1>a, <2>1, <3>1, AppliedWithin
    <2> QED
      BY <1>1, <1>a, <2>2, CopiesAround DEF ColumnsKept
  <1>2. ASSUME NEW c \in Commands, NEW d \in Days, NEW f \in Fields, SetFieldLocal(c, d, f)
        PROVE  ColumnsKept'
    BY <1>2, <1>a, WriteColumns
  <1>3. ASSUME NEW c \in Commands, NEW d \in Days, DeleteDay(c, d)
        PROVE  ColumnsKept'
    BY <1>3, <1>a, DeletionColumns
  <1>4. ASSUME NEW c \in Commands, CommandStep(c)
        PROVE  ColumnsKept'
    BY <1>4, <1>a, CommandColumns
  <1>5. ASSUME NEW w \in Workers, TaskStep(w)
        PROVE  ColumnsKept'
    BY <1>5, <1>a, TaskColumns
  <1>6. ASSUME NEW d \in Days, PortalDeletes(d)
        PROVE  ColumnsKept'
    BY <1>6, <1>a, DeletionColumns
  <1>7. \A d \in Days, f \in Fields : ~PortalSets(d, f)
    BY DEF PortalSets, Meets, NoEdits, Calm
  <1>8. CASE Crash
    BY <1>1, <1>8 DEF Crash, queueVars
  <1>9. CASE (\E w \in Workers : Refresh(w)) \/ WatchProbes \/ WatchSwaps \/ Boot \/ PgChanges
             \/ UNCHANGED vars
    <2>1. /\ UNCHANGED <<lite, pg, outbox, deletedAt, cmd>>
          /\ todo' = todo /\ fetched' = fetched
      BY <1>9
      DEF Refresh, WatchProbes, WatchSwaps, Boot, PgChanges, Spawn, vars, queueVars, cmdVars,
          taskVars
    <2> QED
      BY <1>1, <2>1
  <1> QED
    BY <1>2, <1>3, <1>4, <1>5, <1>6, <1>7, <1>8, <1>9 DEF Next

LEMMA ReapedGoneStep ==
    ASSUME AloneInv, ReapedGone, NoEdits', [Next]_vars
    PROVE  ReapedGone'
  <1>a. TypeOK /\ Alone'
    BY DEF AloneInv, NoEdits, Alone, Calm
  <1> SUFFICES ASSUME NEW w \in Workers, wpc'[w] = "reaping", NEW d \in Days \ present'[w]
               PROVE  pg'[d] = NoRow
    BY DEF ReapedGone
  <1>1. CASE SyncListsPresent(w)
    <2>1. present'[w] = {k \in Days : pg[k] # NoRow} /\ pg' = pg
      BY <1>1, <1>a DEF SyncListsPresent, Finish, TypeOK
    <2> QED
      BY <2>1
  <1>2. CASE ~SyncListsPresent(w)
    <2>1. pg[d] = NoRow
      BY <1>2, <1>a, ReapingStays DEF ReapedGone
    <2>2. \A k \in Days, f \in Fields : ~PortalSets(k, f)
      BY DEF PortalSets, Meets, NoEdits, Calm
    <2>3. pg' = pg \/ \E k \in Days : PortalDeletes(k)
      BY <1>2, <1>a, <2>2, ReapingStays
    <2> QED
      BY <1>a, <2>1, <2>3 DEF PortalDeletes, TypeOK
  <1> QED
    BY <1>1, <1>2

\* What one step does to a central row.
LEMMA KeepsFieldsStep ==
    ASSUME TypeOK, StampsPast, ColumnsKept, [Next]_vars
    PROVE  KeepsFields
  <1> SUFFICES ASSUME NEW d \in Days, pg[d] # NoRow, pg'[d] # NoRow, NEW f \in Fields
               PROVE  pg[d].cols[f] <= pg'[d].cols[f] \/ pg[d].cols[f] <= deletedAt[d]
    BY DEF KeepsFields
  <1>1. /\ pg[d] \in Row /\ pg[d] \in Versions(d) /\ pg[d].cols[f] \in Nat
        /\ pg[d].cols[f] <= pg[d].at /\ pg[d].at <= clock /\ pg[d].at \in Nat
        /\ clock \in Nat /\ deletedAt[d] \in Nat
    BY IsVersion, VersionsTyped DEF TypeOK, MaybeRow, Row, ColumnsKept, ColumnsPast
  <1>2. CASE pg'[d] = pg[d]
    BY <1>1, <1>2
  <1>3. ASSUME NEW m \in Payloads, pg' = Applied(m)
        PROVE  pg[d].cols[f] <= pg'[d].cols[f] \/ pg[d].cols[f] <= deletedAt[d]
    <2>1. CASE pg'[d] = m.row /\ m.day = d /\ m.row # NoRow /\ Supersedes(pg[d], m.row)
      <3>1. m.row \in Versions(d) /\ pg[d].at <= m.row.at
        BY <2>1, IsVersion DEF Supersedes
      <3>2. Keeps(d, pg[d], m.row)
        BY <1>1, <3>1 DEF ColumnsKept, VersionsOrdered
      <3> QED
        BY <1>1, <2>1, <3>2 DEF Keeps
    <2> QED
      BY <1>2, <1>3, <2>1, AppliedVersion
  <1>4. ASSUME NEW k \in Days, NEW g \in Fields, PortalSets(k, g)
        PROVE  pg[d].cols[f] <= pg'[d].cols[f] \/ pg[d].cols[f] <= deletedAt[d]
    <2>1. pg'[d] = pg[d] \/ pg'[d] = WithField(pg[d], g, clock + 1)
      BY <1>4 DEF PortalSets, TypeOK
    <2>2. CASE pg'[d] = WithField(pg[d], g, clock + 1)
      <3>1. pg'[d].cols[f] = IF f = g THEN clock + 1 ELSE pg[d].cols[f]
        BY <2>2 DEF WithField
      <3> QED
        BY <1>1, <3>1
    <2> QED
      BY <1>2, <2>1, <2>2
  <1>5. ASSUME NEW c \in Commands, CommandStep(c), pg' # pg
        PROVE  \E m \in Payloads : pg' = Applied(m)
    BY <1>5, IsPayload
    DEF CommandStep, SetFieldRead, CallSucceeds, CallFailsOver, CommandEnqueues
  <1>6. ASSUME NEW w \in Workers, TaskStep(w), pg' # pg
        PROVE  \E m \in Payloads : pg' = Applied(m)
    BY <1>6, IsPayload
    DEF TaskStep, SyncBegins, SyncReplays, SyncReplayFails, SyncMarks, SyncReplayed,
        SyncPulls, SyncApplies, SyncListsPresent, SyncReaps
  <1>7. ASSUME NEW k \in Days, PortalDeletes(k)
        PROVE  pg'[d] = pg[d]
    BY <1>7 DEF PortalDeletes, TypeOK
  <1> QED
    BY <1>2, <1>3, <1>4, <1>5, <1>6, <1>7
    DEF Next, SetFieldLocal, DeleteDay, Refresh, WatchProbes, WatchSwaps, Boot, Crash,
        PgChanges, vars

\* A command sets a single field: for any number of days, columns, commands and
\* tasks, no step replaces a column of a central row by NULL or by an older
\* punch unless the day was deleted since, through crashes, deletions on both
\* sides, refreshes and outages, as long as the portal has set no field and
\* nothing overlapped a synchronisation.
THEOREM CentralFieldsAlwaysKept == Spec => CentralFieldsKept
  <1> DEFINE Inv == PunchInv /\ AloneInv /\ (NoEdits => ColumnsKept /\ ReapedGone)
  <1>1. Init => Inv
    <2> SUFFICES ASSUME Init PROVE ColumnsKept /\ ReapedGone
      BY PunchInvInit, AloneInvInit
    <2>1. ASSUME NEW d \in Days PROVE Versions(d) = {}
      <3>1. Payloads = {}
        BY PayloadsAre DEF Init, Idle
      <3> QED
        BY <3>1 DEF Init, Versions, NoRows
    <2> QED
      BY <2>1 DEF Init, ColumnsKept, VersionsOrdered, ColumnsPast, LiteNewest, ReapedGone
  <1>2. Inv /\ [Next]_vars => Inv'
    <2> SUFFICES ASSUME PunchInv, AloneInv, NoEdits => ColumnsKept /\ ReapedGone, [Next]_vars
                 PROVE  Inv'
      OBVIOUS
    <2>1. PunchInv' /\ AloneInv'
      BY PunchInvStep, AloneInvStep
    <2>2. NoEdits' => NoEdits
      BY HappenedStep DEF PunchInv, NoEdits, Calm
    <2>3. NoEdits' => ColumnsKept' /\ ReapedGone'
      BY <2>1, <2>2, ColumnsStep, ReapedGoneStep DEF PunchInv
    <2> QED
      BY <2>1, <2>3
  <1>3. Inv /\ [Next]_vars => [Calm({"portal_set", "overlap"}) => KeepsFields]_pg
    BY KeepsFieldsStep DEF PunchInv, NoEdits
  <1> QED
    BY <1>1, <1>2, <1>3, PTL DEF Spec, CentralFieldsKept
=============================================================================
