---------------------------- MODULE SidecarProofs ----------------------------
(* What holds of what the sidecar answers for: of AuditChain, and of         *)
(* AuditPage over it, for any number of sidecars, any size of a page, any    *)
(* bounds and any Env; in the second part, of PortalPage, for any accounts,  *)
(* dates, fields, requests at once and any Env.                              *)
EXTENDS AuditPage, PortalPage, FiniteSetTheorems, FunctionTheorems, WellFoundedInduction, TLAPS

-----------------------------------------------------------------------------
\* The inductive invariant. While everything was orderly, a row names the row
\* before it unless that one was pruned, times grow with seq, and an entry about
\* to be inserted fits behind the last row.
SeqsUnique == \A q, r \in log : q.seq = r.seq => q = r
SeqsPast == \A r \in log : r.seq < nextSeq

Linked ==
    \A r \in log :
        /\ r.prev < r.seq
        /\ \A q \in log : q.seq < r.seq => q.seq <= r.prev
        /\ IsFirst(r, log) \/ \E q \in log : q.seq = r.prev

TimesGrow ==
    /\ \A q, r \in log : q.seq < r.seq => q.at <= r.at
    /\ \A r \in log : r.at <= now

OneWrite == \A v, w \in writing : v = w

WriteFits ==
    \A w \in writing :
        /\ w.at <= now
        /\ w.prev < nextSeq
        /\ \A q \in log : q.seq <= w.prev /\ q.at <= w.at
        /\ log = {} \/ \E q \in log : q.seq = w.prev

IInv ==
    /\ TypeOK
    /\ SeqsUnique
    /\ SeqsPast
    /\ orderly => Linked /\ TimesGrow /\ OneWrite /\ WriteFits

\* The last self_hash is a number below the next seq, and not below any row's.
LEMMA TailIsLast ==
    ASSUME TypeOK, SeqsPast, NEW p \in Tails
    PROVE  /\ p \in Nat
           /\ p < nextSeq
           /\ \A q \in log : q.seq <= p
           /\ log = {} \/ \E q \in log : q.seq = p
<1>1. CASE log = {}
  BY <1>1 DEF Tails, Null, TypeOK
<1>2. CASE log # {}
  <2>1. PICK r \in log : IsLast(r, log) /\ p = r.seq
    BY <1>2 DEF Tails
  <2> QED BY <2>1 DEF TypeOK, Row, IsLast, SeqsPast
<1> QED BY <1>1, <1>2

\* Every reachable state is well typed.
LEMMA TypeStep == TypeOK /\ SeqsPast /\ [Next]_vars => TypeOK'
<1> SUFFICES ASSUME TypeOK, SeqsPast, [Next]_vars PROVE TypeOK'
  OBVIOUS
<1> USE DEF Null
<1>1. ASSUME NEW s \in Sidecars, LogAudit(s) PROVE TypeOK'
  BY <1>1 DEF TypeOK, LogAudit
<1>2. ASSUME NEW s \in Sidecars, ReadsTail(s) PROVE TypeOK'
  <2>1. PICK p \in Tails : writing' = writing \cup {[by |-> s, prev |-> p, at |-> now]}
    BY <1>2 DEF ReadsTail
  <2>2. writing' \subseteq Write
    BY <2>1, TailIsLast DEF TypeOK, Write
  <2> QED BY <1>2, <2>2 DEF TypeOK, ReadsTail
<1>3. ASSUME NEW w \in writing, Executes(w) PROVE log' \subseteq Row /\ nextSeq' \in Nat \ {Null}
  BY <1>3 DEF TypeOK, Executes, Row, Write
<1>4. ASSUME NEW s \in Sidecars, Restart(s) PROVE TypeOK'
  BY <1>4, <1>3 DEF TypeOK, Restart
<1>5. ASSUME NEW s \in Sidecars, Prune(s) PROVE TypeOK'
  BY <1>5 DEF TypeOK, Prune
<1>6. ASSUME NEW w \in writing, Inserts(w) PROVE TypeOK'
  BY <1>6, <1>3 DEF TypeOK, Inserts
<1>7. ASSUME NEW w \in writing, InsertFails(w) PROVE TypeOK'
  BY <1>7 DEF TypeOK, InsertFails
<1>8. CASE Tick
  BY <1>8 DEF TypeOK, Tick
<1>9. CASE ClockBack
  <2>1. now' \in Nat
    BY <1>9 DEF TypeOK, ClockBack
  <2> QED BY <1>9, <2>1 DEF TypeOK, ClockBack
<1>10. CASE UNCHANGED vars
  BY <1>10 DEF TypeOK, vars
<1> QED BY <1>1, <1>2, <1>4, <1>5, <1>6, <1>7, <1>8, <1>9, <1>10 DEF Next

\* Inserting an entry that fits keeps the chain; afterwards no entry is left.
LEMMA ExecuteKeeps ==
    ASSUME IInv, NEW w \in writing, Executes(w), orderly' = orderly, now' = now,
           orderly => writing' = {}
    PROVE  /\ SeqsUnique' /\ SeqsPast'
           /\ orderly' => (Linked /\ TimesGrow /\ OneWrite /\ WriteFits)'
<1> DEFINE new == [seq |-> nextSeq, prev |-> w.prev, at |-> w.at]
<1>1. log' = log \cup {new} /\ nextSeq' = nextSeq + 1
  BY DEF Executes
<1>2. /\ log \subseteq Row /\ nextSeq \in Nat /\ now \in Nat /\ w.prev \in Nat /\ w.at \in Nat
  BY DEF IInv, TypeOK, Write
<1>3. new.seq = nextSeq /\ new.prev = w.prev /\ new.at = w.at
  OBVIOUS
<1> HIDE DEF new
<1>4. SeqsUnique'
  BY <1>1, <1>2, <1>3 DEF SeqsUnique, SeqsPast, IInv, Row
<1>5. SeqsPast'
  BY <1>1, <1>2, <1>3 DEF SeqsPast, IInv, Row
<1>6. ASSUME orderly PROVE (Linked /\ TimesGrow /\ OneWrite /\ WriteFits)'
  <2>1. Linked /\ TimesGrow /\ WriteFits /\ writing' = {}
    BY <1>6 DEF IInv
  <2>2. Linked'
    <3> SUFFICES ASSUME NEW r \in log'
                 PROVE /\ r.prev < r.seq
                       /\ \A q \in log' : q.seq < r.seq => q.seq <= r.prev
                       /\ IsFirst(r, log') \/ \E q \in log' : q.seq = r.prev
      BY DEF Linked
    <3>1. CASE r \in log
      BY <3>1, <2>1, <1>1, <1>2, <1>3 DEF Linked, IsFirst, SeqsPast, IInv, Row
    <3>2. CASE r = new
      BY <3>2, <2>1, <1>1, <1>2, <1>3 DEF WriteFits, IsFirst, Row
    <3> QED BY <3>1, <3>2, <1>1
  <2>3. TimesGrow'
    BY <2>1, <1>1, <1>2, <1>3 DEF TimesGrow, WriteFits, SeqsPast, IInv, Row
  <2> QED BY <2>1, <2>2, <2>3 DEF OneWrite, WriteFits
<1> QED BY <1>4, <1>5, <1>6

\* The prune takes a prefix of the chain.
LEMMA PruneIsPrefix ==
    ASSUME IInv, orderly, NEW s \in Sidecars, Prune(s),
           NEW gone \in log \ log', NEW kept \in log'
    PROVE  gone.seq < kept.seq
<1>1. kept \in log /\ gone \in log /\ Expired(gone) /\ ~Expired(kept)
  BY DEF Prune
<1>2. kept \in Row /\ gone \in Row /\ Window \in Nat /\ now \in Nat
  BY <1>1, AuditChainAssumption DEF IInv, TypeOK
<1>3. gone.at < kept.at
  BY <1>1, <1>2 DEF Expired, Row
<1>4. kept.seq < gone.seq => kept.at <= gone.at
  BY <1>1 DEF IInv, TimesGrow
<1>5. kept.seq # gone.seq
  BY <1>1, <1>3, <1>2 DEF IInv, SeqsUnique, Row
<1> QED BY <1>2, <1>3, <1>4, <1>5 DEF Row

\* The prune keeps the chain: what it leaves starts at its own anchor.
LEMMA PruneKeeps ==
    ASSUME IInv, NEW s \in Sidecars, Prune(s)
    PROVE  /\ SeqsUnique' /\ SeqsPast'
           /\ orderly' => (Linked /\ TimesGrow /\ OneWrite /\ WriteFits)'
<1>1. /\ log' \subseteq log
      /\ nextSeq' = nextSeq /\ now' = now /\ writing' = writing /\ orderly' = orderly
  BY DEF Prune
<1>2. log \subseteq Row
  BY DEF IInv, TypeOK
<1>3. SeqsUnique' /\ SeqsPast'
  BY <1>1 DEF IInv, SeqsUnique, SeqsPast
<1>4. ASSUME orderly PROVE (Linked /\ TimesGrow /\ OneWrite /\ WriteFits)'
  <2>1. Linked /\ TimesGrow /\ OneWrite /\ WriteFits
    BY <1>4 DEF IInv
  <2>2. \A gone \in log \ log', kept \in log' : gone.seq < kept.seq
    BY <1>4, PruneIsPrefix
  <2>3. Linked'
    <3> SUFFICES ASSUME NEW r \in log', ~IsFirst(r, log')
                 PROVE \E q \in log' : q.seq = r.prev
      BY <1>1, <2>1 DEF Linked
    <3>1. PICK a \in log' : ~(r.seq <= a.seq)
      BY DEF IsFirst
    <3>2. PICK q \in log : q.seq = r.prev
      BY <1>1, <2>1, <3>1 DEF Linked, IsFirst
    <3>3. a.seq <= q.seq
      BY <3>1, <3>2, <1>1, <1>2, <2>1 DEF Linked, Row
    <3>4. q \in log'
      BY <3>3, <2>2, <1>1, <1>2, <3>2 DEF Row
    <3> QED BY <3>2, <3>4
  <2>4. TimesGrow'
    BY <1>1, <2>1 DEF TimesGrow
  <2>5. OneWrite'
    BY <1>1, <2>1 DEF OneWrite
  <2>6. WriteFits'
    <3> SUFFICES ASSUME NEW w \in writing', log' # {}
                 PROVE \E q \in log' : q.seq = w.prev
      BY <1>1, <2>1 DEF WriteFits
    <3>1. PICK a \in log' : TRUE
      OBVIOUS
    <3>2. PICK q \in log : q.seq = w.prev
      BY <1>1, <2>1, <3>1 DEF WriteFits
    <3>3. a.seq <= q.seq
      BY <3>1, <3>2, <1>1, <2>1 DEF WriteFits
    <3>4. q \in log'
      BY <3>3, <2>2, <1>1, <1>2, <3>2 DEF Row
    <3> QED BY <3>2, <3>4
  <2> QED BY <2>3, <2>4, <2>5, <2>6
<1> QED BY <1>1, <1>3, <1>4

\* A step that leaves the rows and the entries to be inserted alone, or drops some
\* of the entries, keeps the chain.
LEMMA DropKeeps ==
    ASSUME IInv, log' = log, nextSeq' = nextSeq, writing' \subseteq writing,
           now' \in Nat, now <= now', orderly' = orderly
    PROVE  /\ SeqsUnique' /\ SeqsPast'
           /\ orderly' => (Linked /\ TimesGrow /\ OneWrite /\ WriteFits)'
<1>1. SeqsUnique' /\ SeqsPast'
  BY DEF IInv, SeqsUnique, SeqsPast
<1>2. ASSUME orderly PROVE (Linked /\ TimesGrow /\ OneWrite /\ WriteFits)'
  <2>1. Linked /\ TimesGrow /\ OneWrite /\ WriteFits
    BY <1>2 DEF IInv
  <2>2. Linked'
    BY <2>1 DEF Linked, IsFirst
  <2>3. TimesGrow'
    BY <2>1 DEF TimesGrow, IInv, TypeOK, Row
  <2>4. OneWrite'
    BY <2>1 DEF OneWrite
  <2>5. WriteFits'
    BY <2>1 DEF WriteFits, IInv, TypeOK, Write
  <2> QED BY <2>2, <2>3, <2>4, <2>5
<1> QED BY <1>1, <1>2

\* Reading the tail makes an entry that fits, the only one if nothing overlaps.
LEMMA ReadKeeps ==
    ASSUME IInv, NEW s \in Sidecars, ReadsTail(s)
    PROVE  /\ SeqsUnique' /\ SeqsPast'
           /\ orderly' => (Linked /\ TimesGrow /\ OneWrite /\ WriteFits)'
<1>1. log' = log /\ nextSeq' = nextSeq /\ now' = now
  BY DEF ReadsTail
<1>2. SeqsUnique' /\ SeqsPast'
  BY <1>1 DEF IInv, SeqsUnique, SeqsPast
<1>3. ASSUME orderly' PROVE (Linked /\ TimesGrow /\ OneWrite /\ WriteFits)'
  <2>1. orderly /\ writing = {}
    BY <1>3 DEF ReadsTail, Free
  <2>2. Linked /\ TimesGrow
    BY <2>1 DEF IInv
  <2>3. PICK p \in Tails : writing' = {[by |-> s, prev |-> p, at |-> now]}
    BY <2>1 DEF ReadsTail
  <2>4. /\ p \in Nat /\ p < nextSeq
        /\ \A q \in log : q.seq <= p
        /\ log = {} \/ \E q \in log : q.seq = p
    BY TailIsLast DEF IInv
  <2>5. Linked' /\ TimesGrow'
    BY <1>1, <2>2 DEF Linked, TimesGrow, IsFirst
  <2>6. OneWrite'
    BY <2>3 DEF OneWrite
  <2>7. WriteFits'
    BY <1>1, <2>2, <2>3, <2>4 DEF WriteFits, TimesGrow, IInv, TypeOK
  <2> QED BY <2>5, <2>6, <2>7
<1> QED BY <1>2, <1>3

LEMMA IInvInit == Init => IInv
  BY DEF Init, IInv, TypeOK, SeqsUnique, SeqsPast, Linked, TimesGrow, OneWrite,
         WriteFits, Row, Write, Null

LEMMA IInvStep == IInv /\ [Next]_vars => IInv'
<1> SUFFICES ASSUME IInv, [Next]_vars PROVE IInv'
  OBVIOUS
<1> DEFINE Kept == /\ SeqsUnique' /\ SeqsPast'
                   /\ orderly' => (Linked /\ TimesGrow /\ OneWrite /\ WriteFits)'
<1>1. TypeOK'
  BY TypeStep DEF IInv
<1>2. now \in Nat /\ now <= now
  BY DEF IInv, TypeOK
<1>3. ASSUME NEW s \in Sidecars, LogAudit(s) PROVE Kept
  BY <1>3, <1>2, DropKeeps DEF LogAudit
<1>4. ASSUME NEW s \in Sidecars, ReadsTail(s) PROVE Kept
  BY <1>4, ReadKeeps
<1>5. ASSUME NEW s \in Sidecars, Restart(s) PROVE Kept
  <2>1. writing' \subseteq writing /\ now' = now /\ orderly' = orderly
    BY <1>5 DEF Restart
  <2>2. CASE UNCHANGED <<log, nextSeq>>
    BY <2>1, <2>2, <1>2, DropKeeps
  <2>3. CASE \E w \in writing : w.by = s /\ Executes(w)
    <3>1. PICK w \in writing : w.by = s /\ Executes(w)
      BY <2>3
    <3>2. orderly => writing' = {}
      BY <1>5, <3>1 DEF Restart, IInv, OneWrite
    <3> QED BY <2>1, <3>1, <3>2, ExecuteKeeps
  <2> QED BY <1>5, <2>2, <2>3 DEF Restart
<1>6. ASSUME NEW s \in Sidecars, Prune(s) PROVE Kept
  BY <1>6, PruneKeeps
<1>7. ASSUME NEW w \in writing, Inserts(w) PROVE Kept
  <2>1. orderly => writing' = {}
    BY <1>7 DEF Inserts, IInv, OneWrite
  <2> QED BY <1>7, <2>1, ExecuteKeeps DEF Inserts
<1>8. ASSUME NEW w \in writing, InsertFails(w) PROVE Kept
  BY <1>8, <1>2, DropKeeps DEF InsertFails
<1>9. ASSUME Tick PROVE Kept
  <2>1. now' \in Nat /\ now <= now'
    BY <1>9, <1>2 DEF Tick
  <2> QED BY <1>9, <2>1, DropKeeps DEF Tick
<1>10. ASSUME ClockBack PROVE Kept
  BY <1>10 DEF ClockBack, IInv, SeqsUnique, SeqsPast
<1>11. ASSUME UNCHANGED vars PROVE Kept
  BY <1>11, <1>2, DropKeeps DEF vars
<1> HIDE DEF Kept
<1>12. Kept
  BY <1>3, <1>4, <1>5, <1>6, <1>7, <1>8, <1>9, <1>10, <1>11 DEF Next
<1> QED BY <1>1, <1>12 DEF IInv, Kept

LEMMA InvariantHolds == Spec => []IInv
  BY IInvInit, IInvStep, PTL DEF Spec

-----------------------------------------------------------------------------
\* Every reachable state of the audit trail is well typed.
THEOREM TypeCorrect == Spec => []TypeOK
<1>1. IInv => TypeOK
  BY DEF IInv
<1> QED BY <1>1, InvariantHolds, PTL

\* A linked log verifies.
LEMMA LinkedVerifies ==
    ASSUME IInv, orderly
    PROVE  VerifyOk(log)
<1> SUFFICES ASSUME NEW r \in log, ~IsFirst(r, log)
             PROVE \E q \in log : /\ q.seq < r.seq /\ r.prev = q.seq
                                  /\ \A x \in log : x.seq <= q.seq \/ r.seq <= x.seq
  BY DEF VerifyOk
<1>1. log \subseteq Row /\ Linked
  BY DEF IInv, TypeOK
<1>2. PICK q \in log : q.seq = r.prev
  BY <1>1 DEF Linked
<1>3. \A x \in log : x.seq <= q.seq \/ r.seq <= x.seq
  BY <1>1, <1>2 DEF Linked, Row
<1> QED BY <1>1, <1>2, <1>3 DEF Linked

\* As long as no two sidecars write at once and no clock is set back, the chain
\* verifies, whatever is pruned, lost or restarted and whenever.
THEOREM ChainAlwaysVerifies == Spec => []ChainVerifies
<1>1. IInv => ChainVerifies
  BY LinkedVerifies DEF ChainVerifies
<1> QED BY <1>1, InvariantHolds, PTL

\* An entry that is executed follows the trail.
LEMMA ExecuteAppends ==
    ASSUME IInv, orderly, NEW w \in writing, Executes(w), orderly' = orderly
    PROVE  Chain!Append
<1> DEFINE new == [seq |-> nextSeq, prev |-> w.prev, at |-> w.at]
<1>1. log' = log \cup {new} /\ nextSeq' = nextSeq + 1
  BY DEF Executes
<1>2. nextSeq \in Nat /\ log \subseteq Row /\ WriteFits
  BY DEF IInv, TypeOK
<1>3. Chain!Follows(new)
  BY <1>2 DEF Chain!Follows, WriteFits, Row
<1>4. nextSeq' - 1 = new.seq
  BY <1>1, <1>2
<1> QED BY <1>1, <1>3, <1>4 DEF Chain!Append

\* The trail only grows at its new end, each row naming the one before it, and only
\* loses its old end, whatever fails or is restarted: AuditChain implements Trail.
THEOREM ImplementsTrail == Spec => IsTrail
<1>1. Init => Chain!Init
  BY DEF Init, Chain!Init
<1>2. IInv /\ [Next]_vars => [Chain!Next]_Chain!vars
  <2> SUFFICES ASSUME IInv, Next, orderly' PROVE [Chain!Next]_Chain!vars
    BY DEF vars, Chain!vars, Chain!Next, Chain!Breaks
  <2> USE DEF Chain!Next
  <2>1. ASSUME NEW s \in Sidecars, LogAudit(s) PROVE UNCHANGED Chain!vars
    BY <2>1 DEF LogAudit, Chain!vars
  <2>2. ASSUME NEW s \in Sidecars, ReadsTail(s) PROVE UNCHANGED Chain!vars
    <3>1. orderly /\ orderly'
      BY <2>2 DEF ReadsTail
    <3> QED BY <2>2, <3>1 DEF ReadsTail, Chain!vars, IInv, TypeOK
  <2>3. ASSUME NEW s \in Sidecars, Restart(s) PROVE [Chain!Next]_Chain!vars
    <3>1. CASE UNCHANGED <<log, nextSeq>>
      BY <2>3, <3>1 DEF Restart, Chain!vars
    <3>2. ASSUME NEW w \in writing, Executes(w) PROVE Chain!Append
      BY <2>3, <3>2, ExecuteAppends DEF Restart
    <3> QED BY <2>3, <3>1, <3>2 DEF Restart
  <2>4. ASSUME NEW s \in Sidecars, Prune(s) PROVE Chain!CutOldEnd
    <3>1. log' \subseteq log /\ nextSeq' = nextSeq /\ orderly' = orderly
      BY <2>4 DEF Prune
    <3> QED BY <2>4, <3>1, PruneIsPrefix DEF Chain!CutOldEnd
  <2>5. ASSUME NEW w \in writing, Inserts(w) PROVE Chain!Append
    BY <2>5, ExecuteAppends DEF Inserts
  <2>6. ASSUME NEW w \in writing, InsertFails(w) PROVE UNCHANGED Chain!vars
    BY <2>6 DEF InsertFails, Chain!vars
  <2>7. CASE Tick
    BY <2>7 DEF Tick, Chain!vars
  <2>8. CASE ClockBack
    BY <2>8 DEF ClockBack
  <2> QED BY <2>1, <2>2, <2>3, <2>4, <2>5, <2>6, <2>7, <2>8 DEF Next
<1> QED BY <1>1, <1>2, InvariantHolds, PTL DEF Spec, IsTrail, Chain!Spec

Below == {pair \in Nat \X Nat : pair[1] < pair[2]}

LEMMA BelowWellFounded == IsWellFoundedOn(Below, Nat)
<1>1. Below = OpToRel(<, Nat)
  BY DEF Below, OpToRel
<1> QED BY <1>1, NatLessThanWellFounded, Zenon

\* A row between two others has a next one.
LEMMA HasNext ==
    ASSUME log \subseteq Row, NEW r \in log, NEW b \in log, r.seq < b.seq
    PROVE  \E n \in log : r.seq < n.seq /\ \A x \in log : x.seq <= r.seq \/ n.seq <= x.seq
<1> DEFINE Later == {x.seq : x \in {y \in log : r.seq < y.seq}}
<1>1. Later \subseteq Nat /\ b.seq \in Later
  BY DEF Row
<1>2. PICK least \in Later : \A k \in Later : ~(<<k, least>> \in Below)
  <2> HIDE DEF Later
  <2> QED BY <1>1, BelowWellFounded, WFMin
<1>3. \A k \in Later : least <= k
  <2> HIDE DEF Later
  <2> TAKE k \in Later
  <2>1. k \in Nat /\ least \in Nat
    BY <1>1, <1>2
  <2>2. <<k, least>> \notin Below
    BY <1>2
  <2> QED BY <2>1, <2>2 DEF Below
<1>4. PICK n \in log : r.seq < n.seq /\ least = n.seq
  OBVIOUS
<1>5. \A x \in log : x.seq <= r.seq \/ n.seq <= x.seq
  <2> TAKE x \in log
  <2>1. CASE r.seq < x.seq
    BY <2>1, <1>3, <1>4
  <2> QED BY <2>1 DEF Row
<1> QED BY <1>4, <1>5

\* Taking a row out of the middle of the trail breaks the chain.
THEOREM RemovalAlwaysShows == Spec => []RemovalShows
<1>1. IInv => RemovalShows
  <2> SUFFICES ASSUME IInv, orderly, NEW r \in log, NEW a \in log, NEW b \in log,
                      a.seq < r.seq, r.seq < b.seq, VerifyOk(log \ {r})
               PROVE FALSE
    BY DEF RemovalShows
  <2>1. log \subseteq Row /\ Linked /\ SeqsUnique
    BY DEF IInv, TypeOK
  <2>2. PICK n \in log : /\ r.seq < n.seq
                         /\ \A x \in log : x.seq <= r.seq \/ n.seq <= x.seq
    BY <2>1, HasNext
  <2>3. n.prev = r.seq
    <3>1. ~IsFirst(n, log)
      BY <2>1, <2>2 DEF IsFirst, Row
    <3>2. PICK p \in log : p.seq = n.prev
      BY <2>1, <3>1 DEF Linked
    <3>3. p.seq < n.seq /\ r.seq <= p.seq
      BY <2>1, <2>2, <3>2 DEF Linked
    <3> QED BY <2>1, <2>2, <3>2, <3>3 DEF Row
  <2>4. ~IsFirst(n, log \ {r})
    BY <2>1, <2>2 DEF IsFirst, Row
  <2>5. PICK q \in log \ {r} : n.prev = q.seq
    BY <2>1, <2>2, <2>4 DEF VerifyOk, Row
  <2> QED BY <2>1, <2>3, <2>5 DEF SeqsUnique
<1> QED BY <1>1, InvariantHolds, PTL

-----------------------------------------------------------------------------
(* The page of the trail. Its rows are sorted, and a finite set of numbers   *)
(* can be: a set of the least size that could not be is its least element    *)
(* and a smaller set.                                                        *)

LEMMA HasLeast ==
    ASSUME NEW S \in SUBSET Nat, S # {}
    PROVE  \E least \in S : \A k \in S : least <= k
<1>1. PICK least \in S : \A k \in S : ~(<<k, least>> \in Below)
  BY BelowWellFounded, WFMin
<1>2. ASSUME NEW k \in S PROVE least <= k
  <2>1. k \in Nat /\ least \in Nat /\ <<k, least>> \notin Below
    BY <1>1
  <2> QED BY <2>1 DEF Below
<1> QED BY <1>2

Descends(s) == \A i, j \in DOMAIN s : i < j => s[j] < s[i]
Sorts(s, S) == s \in [1..Cardinality(S) -> S] /\ Descends(s)

LEMMA SortExists ==
    ASSUME NEW S \in SUBSET Nat, IsFiniteSet(S)
    PROVE  \E s : Sorts(s, S)
<1> DEFINE Unsorted(T) == IsFiniteSet(T) /\ ~\E s : Sorts(s, T)
           Bad == {Cardinality(T) : T \in {U \in SUBSET Nat : Unsorted(U)}}
<1> SUFFICES ASSUME Unsorted(S) PROVE FALSE
  OBVIOUS
<1>1. Bad \in SUBSET Nat /\ Bad # {}
  BY FS_CardinalityType
<1>2. PICK n \in Bad : \A k \in Bad : n <= k
  <2> HIDE DEF Bad
  <2> QED BY <1>1, HasLeast
<1>3. PICK T \in SUBSET Nat : Unsorted(T) /\ Cardinality(T) = n
  BY <1>2
<1>4. n \in Nat /\ n # 0
  <2>1. n \in Nat
    BY <1>1, <1>2
  <2>2. n = 0 => T = {} /\ 1..Cardinality(T) = {}
    BY <1>3, FS_EmptySet
  <2>3. T = {} /\ 1..Cardinality(T) = {} => Sorts([i \in {} |-> 0], T)
    BY DEF Sorts, Descends
  <2> QED BY <1>3, <2>1, <2>2, <2>3
<1>5. PICK m \in T : \A k \in T : m <= k
  BY <1>3, <1>4, FS_EmptySet, HasLeast
<1> DEFINE U == T \ {m}
<1>6. IsFiniteSet(U) /\ Cardinality(U) = n - 1 /\ U \in SUBSET Nat
  BY <1>3, <1>5, FS_RemoveElement
<1>7. Cardinality(U) \notin Bad
  BY <1>2, <1>4, <1>6
<1>8. PICK s : Sorts(s, U)
  BY <1>6, <1>7
<1> DEFINE t == [i \in 1..n |-> IF i = n THEN m ELSE s[i]]
<1>9. s \in [1..(n - 1) -> U] /\ Descends(s)
  BY <1>6, <1>8 DEF Sorts
<1>10. t \in [1..n -> T]
  BY <1>4, <1>5, <1>9
<1>11. ASSUME NEW i \in 1..n, NEW j \in 1..n, i < j PROVE t[j] < t[i]
  <2>1. i \in 1..(n - 1) /\ t[i] = s[i] /\ s[i] \in U
    BY <1>4, <1>9, <1>11
  <2>2. CASE j = n
    <3>1. m \in Nat /\ s[i] \in Nat /\ s[i] \in T /\ s[i] # m
      BY <1>3, <1>5, <2>1
    <3>2. m <= s[i] /\ t[j] = m
      BY <1>5, <2>2, <3>1
    <3> QED BY <2>1, <3>1, <3>2
  <2>3. CASE j # n
    BY <1>4, <1>9, <1>11, <2>1, <2>3 DEF Descends
  <2> QED BY <2>2, <2>3
<1>12. Sorts(t, T)
  BY <1>3, <1>10, <1>11 DEF Sorts, Descends
<1> QED BY <1>3, <1>12

Seqs == {r.seq : r \in log}

\* How many entries are newer than the one with this seq: its position in the trail.
Newer(k, S) == {q \in S : k < q}
Rank(k, S) == Cardinality(Newer(k, S))

LEMMA NewestFirstSorts ==
    ASSUME log \subseteq Row, IsFiniteSet(Seqs)
    PROVE  Sorts(NewestFirst, Seqs)
<1>1. Seqs \in SUBSET Nat
  BY DEF Seqs, Row
<1>2. \E s : Sorts(s, Seqs)
  BY <1>1, SortExists
<1>3. NewestFirst = CHOOSE s \in [1..Cardinality(Seqs) -> Seqs] : Descends(s)
  BY DEF NewestFirst, Seqs, Descends
<1> QED BY <1>2, <1>3 DEF Sorts

\* Every entry is in it, at the place of its rank.
LEMMA Places ==
    ASSUME log \subseteq Row, IsFiniteSet(Seqs), NEW k \in Seqs
    PROVE  /\ Rank(k, Seqs) \in Nat /\ Rank(k, Seqs) < Len(NewestFirst)
           /\ k = NewestFirst[Rank(k, Seqs) + 1]
<1> DEFINE N == NewestFirst
           c == Cardinality(Seqs)
<1>1. N \in [1..c -> Seqs] /\ Descends(N)
  BY NewestFirstSorts DEF Sorts
<1>2. c \in Nat /\ Seqs \in SUBSET Nat
  BY FS_CardinalityType DEF Seqs, Row
<1>3. \A i, j \in 1..c : i < j => N[j] < N[i]
  BY <1>1 DEF Descends
<1>4. \A i \in 1..c : N[i] \in Nat
  BY <1>1, <1>2
<1> HIDE DEF N
<1>5. \A i, j \in 1..c : N[i] = N[j] => i = j
  <2> TAKE i, j \in 1..c
  <2>1. i \in Nat /\ j \in Nat /\ N[i] \in Nat /\ N[j] \in Nat
    BY <1>2, <1>4
  <2>2. i < j => N[j] < N[i]
    BY <1>3
  <2>3. j < i => N[i] < N[j]
    BY <1>3
  <2> QED BY <2>1, <2>2, <2>3
<1>6. N \in Injection(1..c, Seqs)
  BY <1>1, <1>5 DEF Injection, IsInjective
<1>7. Cardinality(1..c) = c
  BY <1>2, FS_Interval
<1>8. N \in Surjection(1..c, Seqs)
  BY <1>6, <1>7, FS_Injection
<1>9. PICK i \in 1..c : N[i] = k
  BY <1>8 DEF Surjection
<1> DEFINE f == [j \in 1..(i - 1) |-> N[j]]
<1>10. f \in Bijection(1..(i - 1), Newer(k, Seqs))
  <2>1. \A j \in 1..(i - 1) : j \in 1..c /\ f[j] \in Newer(k, Seqs)
    <3> TAKE j \in 1..(i - 1)
    <3>1. j \in 1..c /\ j < i /\ f[j] = N[j]
      BY <1>2, <1>9
    <3>2. N[i] < N[j] /\ N[j] \in Seqs
      BY <1>1, <1>3, <1>9, <3>1
    <3> QED BY <1>9, <3>1, <3>2 DEF Newer
  <2>2. f \in Injection(1..(i - 1), Newer(k, Seqs))
    <3>1. f \in [1..(i - 1) -> Newer(k, Seqs)] /\ DOMAIN f = 1..(i - 1)
      BY <2>1
    <3>2. \A a, b \in 1..(i - 1) : f[a] = f[b] => a = b
      BY <1>5, <2>1
    <3> HIDE DEF f
    <3> QED BY <3>1, <3>2 DEF Injection, IsInjective
  <2>3. ASSUME NEW q \in Newer(k, Seqs) PROVE \E j \in 1..(i - 1) : f[j] = q
    <3>1. PICK j \in 1..c : N[j] = q
      BY <1>8 DEF Surjection, Newer
    <3>2. N[i] < N[j]
      BY <1>9, <3>1 DEF Newer
    <3>3. j # i /\ ~(i < j)
      <4>1. N[i] \in Nat /\ N[j] \in Nat
        BY <1>4
      <4>2. i < j => N[j] < N[i]
        BY <1>3
      <4> QED BY <3>2, <4>1, <4>2
    <3>4. j \in 1..(i - 1)
      BY <1>2, <3>3
    <3> QED BY <3>1, <3>4
  <2>4. f \in Surjection(1..(i - 1), Newer(k, Seqs))
    BY <2>1, <2>3 DEF Surjection
  <2> QED BY <2>2, <2>4 DEF Bijection
<1>11. Rank(k, Seqs) = i - 1
  <2>1. IsFiniteSet(1..(i - 1)) /\ Cardinality(1..(i - 1)) = i - 1
    <3>1. i \in Int /\ 1 <= i /\ i - 1 \in Int
      BY <1>2
    <3> QED BY <3>1, FS_Interval
  <2>2. ExistsBijection(1..(i - 1), Newer(k, Seqs))
    BY <1>10 DEF ExistsBijection
  <2> QED BY <2>1, <2>2, FS_Bijection DEF Rank
<1>12. Len(N) = c
  BY <1>1, <1>2
<1> QED BY <1>2, <1>9, <1>11, <1>12 DEF N

\* A page, asked for by a position: who is not on it is newer than the page, or at a
\* position behind it.
ShownBy(k, table) == k \in Range(table)
NewerThanAll(k, table) == \A i \in DOMAIN table : table[i] < k
Told(k, table) == ShownBy(k, table) \/ NewerThanAll(k, table)

LEMMA PageGives ==
    ASSUME log \subseteq Row, IsFiniteSet(Seqs), NEW offset \in Nat
    PROVE  /\ PageAt(offset) \in Seq(Nat)
           /\ \A i \in DOMAIN PageAt(offset) : PageAt(offset)[i] \in Seqs
           /\ \A k \in Seqs : offset <= Rank(k, Seqs) =>
                ShownBy(k, PageAt(offset)) \/ offset + Len(PageAt(offset)) <= Rank(k, Seqs)
           /\ \A k \in Seqs : Rank(k, Seqs) < offset => NewerThanAll(k, PageAt(offset))
<1> DEFINE N == NewestFirst
           c == Cardinality(Seqs)
           last == Min({Len(N), offset + PageSize})
<1>1. N \in [1..c -> Seqs] /\ Descends(N)
  BY NewestFirstSorts DEF Sorts
<1>2. c \in Nat /\ Seqs \in SUBSET Nat
  BY FS_CardinalityType DEF Seqs, Row
<1>3. N \in Seq(Nat) /\ N \in Seq(Seqs) /\ Len(N) = c
  <2> HIDE DEF N, c
  <2>1. N \in [1..c -> Nat]
    BY <1>1, <1>2
  <2> QED BY <1>1, <1>2, <2>1
<1>4. \A i, j \in 1..c : i < j => N[j] < N[i]
  BY <1>1 DEF Descends
<1>5. \A k \in Seqs : Rank(k, Seqs) \in Nat /\ Rank(k, Seqs) < c /\ k = N[Rank(k, Seqs) + 1]
  BY <1>3, Places
<1>6. PageAt(offset) = SubSeq(N, offset + 1, last)
  BY DEF PageAt
<1>7. PageSize \in Nat /\ PageSize > 0
  BY AuditPageAssumption
<1> HIDE DEF N, c
<1>8. /\ last \in Nat /\ last <= c /\ last <= offset + PageSize
      /\ last = c \/ last = offset + PageSize
  <2> DEFINE Ends == {Len(N), offset + PageSize}
  <2>1. Len(N) \in Nat /\ offset + PageSize \in Nat
    BY <1>2, <1>3, <1>7
  <2>2. \E x \in Ends : \A y \in Ends : x <= y
    BY <2>1
  <2>3. last \in Ends /\ \A y \in Ends : last <= y
    BY <2>2 DEF Min
  <2> QED BY <1>3, <2>1, <2>3
<1> HIDE DEF last
<1> DEFINE part == SubSeq(N, offset + 1, last)
<1>9. /\ part \in Seq(Nat) /\ part \in Seq(Seqs)
      /\ Len(part) = IF offset < last THEN last - offset ELSE 0
      /\ \A i \in 1..Len(part) : part[i] = N[offset + i] /\ offset + i \in 1..c
  BY <1>2, <1>3, <1>8
<1>10. DOMAIN part = 1..Len(part) /\ Len(part) \in Nat
  BY <1>9
<1> HIDE DEF part
<1>11. \A i \in DOMAIN part : part[i] \in Seqs
  BY <1>9, <1>10
<1>12. ASSUME NEW k \in Seqs, Rank(k, Seqs) < offset PROVE NewerThanAll(k, part)
  <2>1. ASSUME NEW i \in DOMAIN part PROVE part[i] < k
    <3>1. i \in 1..Len(part) /\ i \in Nat /\ i >= 1 /\ offset + i \in 1..c
      BY <1>9, <1>10
    <3>2. Rank(k, Seqs) \in Nat /\ Rank(k, Seqs) < c
      BY <1>5
    <3>3. Rank(k, Seqs) + 1 \in 1..c /\ Rank(k, Seqs) + 1 < offset + i
      BY <1>2, <1>12, <3>1, <3>2
    <3> QED BY <1>4, <1>5, <1>9, <3>1, <3>3
  <2> QED BY <2>1 DEF NewerThanAll
<1>13. ASSUME NEW k \in Seqs, offset <= Rank(k, Seqs), Rank(k, Seqs) < last PROVE ShownBy(k, part)
  <2>1. Rank(k, Seqs) + 1 - offset \in 1..Len(part)
    <3>1. Rank(k, Seqs) \in Nat /\ last \in Nat /\ offset < last /\ Len(part) = last - offset
      BY <1>5, <1>8, <1>9, <1>13
    <3> QED BY <1>13, <3>1
  <2>2. offset + (Rank(k, Seqs) + 1 - offset) = Rank(k, Seqs) + 1
    BY <1>5
  <2>3. part[Rank(k, Seqs) + 1 - offset] = k
    BY <1>5, <1>9, <2>1, <2>2
  <2> QED BY <1>10, <2>1, <2>3 DEF ShownBy, Range
<1>14. ASSUME NEW k \in Seqs, last <= Rank(k, Seqs) PROVE offset + Len(part) <= Rank(k, Seqs)
  BY <1>2, <1>5, <1>7, <1>8, <1>9, <1>14
<1>15. ASSUME NEW k \in Seqs, offset <= Rank(k, Seqs)
       PROVE  ShownBy(k, part) \/ offset + Len(part) <= Rank(k, Seqs)
  <2>1. Rank(k, Seqs) \in Nat
    BY <1>5
  <2> QED BY <1>8, <1>13, <1>14, <1>15, <2>1
<1> QED BY <1>6, <1>9, <1>11, <1>12, <1>15 DEF part

\* A table whose rows the page will never skip: who is missing from it is newer or
\* behind it. One that shows count rows at least misses nobody, if it is complete.
Covers(table, S) == \A k \in S : Told(k, table) \/ Len(table) <= Rank(k, S)
Complete(table, count, S) == count <= Len(table) => \A k \in S : Told(k, table)
Past(table, top) == \A i \in DOMAIN table : table[i] < top

\* What the answer of the load under way will make of the table.
Coming == (IF load.offset = 0 THEN <<>> ELSE entries) \o load.rows

PageInv ==
    /\ PageTypeOK /\ IsFiniteSet(Seqs)
    /\ Past(entries, nextSeq) /\ Past(load.rows, nextSeq)
    /\ Loading => load.offset \in {0, Len(entries)}
    /\ orderly =>
         /\ Covers(entries, Seqs) /\ Complete(entries, total, Seqs)
         /\ load.at \in {"count", "answer"} => Covers(Coming, Seqs)
         /\ load.at = "answer" => Complete(Coming, load.total, Seqs)

\* The trail becomes T from S: what is new is above top, what stays has lost no newer one.
Shifts(S, T, top) ==
    \A k \in T : \/ k \in S /\ Rank(k, S) <= Rank(k, T)
                 \/ top <= k

LEMMA RankIsNat ==
    ASSUME NEW S, IsFiniteSet(S), NEW k
    PROVE  Rank(k, S) \in Nat
<1>1. Newer(k, S) \in SUBSET S
  BY DEF Newer
<1> QED BY <1>1, FS_Subset, FS_CardinalityType DEF Rank

LEMMA ShiftKeeps ==
    ASSUME NEW S \in SUBSET Nat, NEW T \in SUBSET Nat, IsFiniteSet(S), IsFiniteSet(T),
           NEW top \in Nat, Shifts(S, T, top),
           NEW table \in Seq(Nat), Past(table, top)
    PROVE  /\ Covers(table, S) => Covers(table, T)
           /\ \A count : Complete(table, count, S) => Complete(table, count, T)
<1>1. ASSUME NEW k \in T, top <= k PROVE Told(k, table)
  <2>1. ASSUME NEW i \in DOMAIN table PROVE table[i] < k
    <3>1. table[i] \in Nat /\ table[i] < top /\ k \in Nat
      BY DEF Past
    <3> QED BY <1>1, <3>1
  <2> QED BY <2>1 DEF Told, NewerThanAll
<1>2. ASSUME Covers(table, S) PROVE Covers(table, T)
  <2> SUFFICES ASSUME NEW k \in T, ~Told(k, table) PROVE Len(table) <= Rank(k, T)
    BY DEF Covers
  <2>1. k \in S /\ Rank(k, S) <= Rank(k, T)
    BY <1>1 DEF Shifts
  <2>2. Len(table) <= Rank(k, S)
    BY <1>2, <2>1 DEF Covers
  <2>3. Rank(k, S) \in Nat /\ Rank(k, T) \in Nat /\ Len(table) \in Nat
    BY RankIsNat
  <2> QED BY <2>1, <2>2, <2>3
<1>3. ASSUME NEW count, Complete(table, count, S) PROVE Complete(table, count, T)
  <2> SUFFICES ASSUME count <= Len(table), NEW k \in T PROVE Told(k, table)
    BY DEF Complete
  <2>1. k \in S \/ top <= k
    BY DEF Shifts
  <2> QED BY <1>1, <1>3, <2>1 DEF Complete
<1> QED BY <1>2, <1>3

\* What the trail may do under the page.
LEMMA TrailMoves ==
    ASSUME [Next]_vars
    PROVE  /\ orderly' => orderly
           /\ \/ UNCHANGED <<log, nextSeq>>
              \/ \E w \in writing : Executes(w)
              \/ \E s \in Sidecars : Prune(s)
<1>1. ASSUME NEW s \in Sidecars, LogAudit(s) \/ ReadsTail(s)
      PROVE UNCHANGED <<log, nextSeq>> /\ (orderly' => orderly)
  <2>1. CASE LogAudit(s)
    BY <2>1 DEF LogAudit
  <2>2. CASE ReadsTail(s)
    <3>1. UNCHANGED <<log, nextSeq>>
      BY <2>2 DEF ReadsTail
    <3>2. orderly' => orderly
      BY <2>2, Zenon DEF ReadsTail
    <3> QED BY <3>1, <3>2
  <2> QED BY <1>1, <2>1, <2>2
<1>2. ASSUME NEW s \in Sidecars, Restart(s)
      PROVE /\ UNCHANGED orderly
            /\ UNCHANGED <<log, nextSeq>> \/ \E w \in writing : Executes(w)
  BY <1>2 DEF Restart
<1>3. ASSUME NEW s \in Sidecars, Prune(s) PROVE UNCHANGED orderly
  BY <1>3 DEF Prune
<1>4. ASSUME NEW w \in writing, Inserts(w) PROVE Executes(w) /\ UNCHANGED orderly
  BY <1>4 DEF Inserts
<1>5. ASSUME NEW w \in writing, InsertFails(w) PROVE UNCHANGED <<log, nextSeq, orderly>>
  BY <1>5 DEF InsertFails
<1>6. CASE Tick \/ ClockBack \/ UNCHANGED vars
  BY <1>6 DEF Tick, ClockBack, vars
<1> QED BY <1>1, <1>2, <1>3, <1>4, <1>5, <1>6 DEF Next

LEMMA TrailShifts ==
    ASSUME IInv, IsFiniteSet(Seqs), [Next]_vars
    PROVE  /\ IsFiniteSet(Seqs') /\ nextSeq <= nextSeq'
           /\ orderly' => Shifts(Seqs, Seqs', nextSeq)
<1>1. log \subseteq Row /\ nextSeq \in Nat /\ Seqs \in SUBSET Nat
  BY DEF IInv, TypeOK, Seqs, Row
<1>2. \A k : Rank(k, Seqs) \in Nat
  BY RankIsNat
<1>3. ASSUME UNCHANGED <<log, nextSeq>>
      PROVE  Seqs' = Seqs /\ nextSeq' = nextSeq /\ Shifts(Seqs, Seqs', nextSeq)
  BY <1>2, <1>3 DEF Seqs, Shifts
<1>4. ASSUME NEW w \in writing, Executes(w)
      PROVE  IsFiniteSet(Seqs') /\ nextSeq <= nextSeq' /\ Shifts(Seqs, Seqs', nextSeq)
  <2>1. Seqs' = Seqs \cup {nextSeq} /\ nextSeq' = nextSeq + 1
    <3> DEFINE new == [seq |-> nextSeq, prev |-> w.prev, at |-> w.at]
    <3>1. log' = log \cup {new} /\ nextSeq' = nextSeq + 1 /\ new.seq = nextSeq
      BY <1>4 DEF Executes
    <3> HIDE DEF new
    <3> QED BY <3>1 DEF Seqs
  <2>2. IsFiniteSet(Seqs')
    BY <2>1, FS_AddElement
  <2>3. ASSUME NEW k \in Seqs PROVE Rank(k, Seqs) <= Rank(k, Seqs')
    <3>1. Newer(k, Seqs') \in SUBSET Seqs' /\ Newer(k, Seqs) \in SUBSET Newer(k, Seqs')
      BY <2>1 DEF Newer
    <3>2. IsFiniteSet(Newer(k, Seqs'))
      BY <2>2, <3>1, FS_Subset
    <3> QED BY <3>1, <3>2, FS_Subset DEF Rank
  <2> QED BY <1>1, <2>1, <2>2, <2>3 DEF Shifts
<1>5. ASSUME NEW s \in Sidecars, Prune(s)
      PROVE  /\ IsFiniteSet(Seqs') /\ nextSeq = nextSeq'
             /\ orderly => Shifts(Seqs, Seqs', nextSeq)
  <2>1. log' \subseteq log /\ nextSeq' = nextSeq
    BY <1>5 DEF Prune
  <2>2. Seqs' \in SUBSET Seqs
    BY <2>1 DEF Seqs
  <2>3. ASSUME orderly, NEW k \in Seqs' PROVE Rank(k, Seqs) <= Rank(k, Seqs')
    <3>1. PICK r \in log' : r.seq = k
      BY DEF Seqs
    <3>2. ASSUME NEW q \in Newer(k, Seqs) PROVE q \in Seqs'
      <4>1. PICK g \in log : g.seq = q /\ r.seq < g.seq
        BY <3>1 DEF Newer, Seqs
      <4>2. g \in log'
        <5>1. r.seq \in Nat /\ g.seq \in Nat
          BY <1>1, <2>1, <3>1, <4>1 DEF Row
        <5>2. g \notin log' => g.seq < r.seq
          BY <1>5, <2>3, PruneIsPrefix
        <5> QED BY <4>1, <5>1, <5>2
      <4> QED BY <4>1, <4>2 DEF Seqs
    <3>3. Newer(k, Seqs) = Newer(k, Seqs')
      BY <2>2, <3>2 DEF Newer
    <3> QED BY <1>2, <3>3 DEF Rank
  <2>4. IsFiniteSet(Seqs')
    BY <2>2, FS_Subset
  <2> QED BY <2>1, <2>2, <2>3, <2>4 DEF Shifts
<1> QED BY <1>1, <1>3, <1>4, <1>5, TrailMoves

\* The next page put behind a table that covers the trail.
LEMMA NextPageCovers ==
    ASSUME log \subseteq Row, IsFiniteSet(Seqs),
           NEW table \in Seq(Nat), Covers(table, Seqs)
    PROVE  Covers(table \o PageAt(Len(table)), Seqs)
<1> DEFINE offset == Len(table)
           part == PageAt(offset)
           both == table \o part
<1>1. offset \in Nat
  OBVIOUS
<1>2. /\ part \in Seq(Nat)
      /\ \A k \in Seqs : offset <= Rank(k, Seqs) =>
           ShownBy(k, part) \/ offset + Len(part) <= Rank(k, Seqs)
      /\ \A k \in Seqs : Rank(k, Seqs) < offset => NewerThanAll(k, part)
  BY <1>1, PageGives
<1> HIDE DEF part
<1>3. /\ Len(both) = offset + Len(part) /\ both \in Seq(Nat)
      /\ \A i \in 1..offset : i \in DOMAIN both /\ both[i] = table[i]
      /\ \A i \in 1..Len(part) : offset + i \in DOMAIN both /\ both[offset + i] = part[i]
      /\ \A i \in DOMAIN both : i \in 1..offset \/ i - offset \in 1..Len(part)
      /\ DOMAIN table = 1..offset /\ DOMAIN part = 1..Len(part)
  <2>1. /\ both \in Seq(Nat) /\ Len(both) = offset + Len(part) /\ DOMAIN both = 1..Len(both)
        /\ DOMAIN table = 1..offset /\ DOMAIN part = 1..Len(part) /\ Len(part) \in Nat
    BY <1>2
  <2>2. \A i \in 1..offset : i \in DOMAIN both /\ both[i] = table[i]
    BY <1>1, <1>2, <2>1
  <2>3. ASSUME NEW i \in 1..Len(part)
        PROVE  offset + i \in DOMAIN both /\ both[offset + i] = part[i]
    <3>1. offset + i \in 1..(offset + Len(part)) /\ offset + i > offset /\ offset + i - offset = i
      BY <1>1, <2>1
    <3> QED BY <1>1, <1>2, <2>1, <3>1
  <2>4. \A i \in DOMAIN both : i \in 1..offset \/ i - offset \in 1..Len(part)
    BY <1>1, <2>1
  <2> QED BY <2>1, <2>2, <2>3, <2>4
<1> HIDE DEF both
<1> SUFFICES ASSUME NEW k \in Seqs, ~Told(k, both) PROVE Len(both) <= Rank(k, Seqs)
  BY DEF Covers, both, part
<1>4. ~ShownBy(k, table) /\ ~ShownBy(k, part)
  BY <1>3 DEF Told, ShownBy, Range
<1>5. ~(NewerThanAll(k, table) /\ NewerThanAll(k, part))
  <2> SUFFICES ASSUME NewerThanAll(k, table), NewerThanAll(k, part),
                      NEW i \in DOMAIN both
               PROVE  both[i] < k
    BY DEF Told, NewerThanAll
  <2>1. CASE i \in 1..offset
    BY <1>3, <2>1 DEF NewerThanAll
  <2>2. CASE i - offset \in 1..Len(part)
    <3>1. offset + (i - offset) = i
      BY <1>1, <1>3
    <3>2. both[offset + (i - offset)] = part[i - offset] /\ part[i - offset] < k
      BY <1>3, <2>2 DEF NewerThanAll
    <3> QED BY <3>1, <3>2
  <2> QED BY <1>3, <2>1, <2>2
<1>6. NewerThanAll(k, table) \/ offset <= Rank(k, Seqs)
  BY <1>4 DEF Covers, Told
<1>7. offset <= Rank(k, Seqs)
  <2>1. Rank(k, Seqs) \in Nat
    BY RankIsNat
  <2> QED BY <1>1, <1>2, <1>5, <1>6, <2>1
<1> QED BY <1>2, <1>3, <1>4, <1>7

LEMMA EmptyCovers ==
    ASSUME NEW S
    PROVE  Covers(<<>>, S) /\ \A count : Complete(<<>>, count, S)
  BY DEF Covers, Complete, Told, NewerThanAll

\* A table that covers the trail and is as long as it is complete.
LEMMA AllIsComplete ==
    ASSUME NEW S \in SUBSET Nat, IsFiniteSet(S), NEW table \in Seq(Nat), Covers(table, S)
    PROVE  Complete(table, Cardinality(S), S)
<1> SUFFICES ASSUME Cardinality(S) <= Len(table), NEW k \in S PROVE Told(k, table)
  BY DEF Complete
<1>1. Newer(k, S) \in SUBSET (S \ {k})
  BY DEF Newer
<1>2. /\ IsFiniteSet(S \ {k}) /\ Cardinality(S \ {k}) = Cardinality(S) - 1
      /\ Cardinality(S) \in Nat
  BY FS_RemoveElement, FS_CardinalityType
<1>3. Rank(k, S) <= Cardinality(S) - 1
  BY <1>1, <1>2, FS_Subset DEF Rank
<1>4. Rank(k, S) \in Nat /\ Len(table) \in Nat
  BY RankIsNat
<1>5. ~(Len(table) <= Rank(k, S))
  BY <1>2, <1>3, <1>4
<1> QED BY <1>5 DEF Covers

LEMMA ComingPast ==
    ASSUME entries \in Seq(Nat), load.rows \in Seq(Nat),
           Past(entries, nextSeq), Past(load.rows, nextSeq)
    PROVE  Coming \in Seq(Nat) /\ Past(Coming, nextSeq)
<1> DEFINE table == IF load.offset = 0 THEN <<>> ELSE entries
<1>1. table \in Seq(Nat) /\ Past(table, nextSeq)
  BY DEF Past
<1>2. Coming = table \o load.rows
  BY DEF Coming
<1> HIDE DEF table
<1>3. Coming \in Seq(Nat) /\ Len(Coming) = Len(table) + Len(load.rows)
      /\ DOMAIN Coming = 1..Len(Coming)
  BY <1>1, <1>2
<1>4. ASSUME NEW i \in DOMAIN Coming PROVE Coming[i] < nextSeq
  <2>1. i \in 1..(Len(table) + Len(load.rows))
    BY <1>3
  <2>2. CASE i <= Len(table)
    <3>1. Coming[i] = table[i] /\ i \in DOMAIN table
      BY <1>1, <1>2, <2>1, <2>2
    <3> QED BY <1>1, <3>1 DEF Past
  <2>3. CASE ~(i <= Len(table))
    <3>1. Coming[i] = load.rows[i - Len(table)] /\ i - Len(table) \in DOMAIN load.rows
      BY <1>1, <1>2, <2>1, <2>3
    <3> QED BY <3>1 DEF Past
  <2> QED BY <2>2, <2>3
<1> QED BY <1>3, <1>4 DEF Past

\* The page's own steps leave the trail alone.
LEMMA LoadBegins ==
    ASSUME PageInv, UNCHANGED vars, NEW offset \in Nat, Asks(offset),
           offset \in {0, Len(entries')},
           (entries' = entries /\ total' = total) \/ (entries' = <<>> /\ total' = 0),
           TypeOK'
    PROVE  PageInv'
<1>1. Seqs' = Seqs /\ nextSeq' = nextSeq /\ orderly' = orderly
  BY DEF vars, Seqs
<1>2. load' = [at |-> "rows", offset |-> offset, rows |-> <<>>, total |-> 0]
  BY DEF Asks, Begun, NoLoad
<1>3. PageTypeOK'
  <2>1. loads' \in 0..MaxLoads
    BY AuditPageAssumption DEF PageInv, PageTypeOK, Asks
  <2>2. entries' \in Seq(Nat) /\ total' \in Nat
    <3>1. entries \in Seq(Nat) /\ total \in Nat
      BY DEF PageInv, PageTypeOK
    <3>2. <<>> \in Seq(Nat)
      OBVIOUS
    <3> QED BY <3>1, <3>2
  <2>3. load' \in [at : {"none", "rows", "count", "answer"}, offset : Nat,
                   rows : Seq(Nat), total : Nat]
    BY <1>2
  <2> QED BY <2>1, <2>2, <2>3 DEF PageTypeOK
<1>4. Past(entries', nextSeq) /\ Past(load'.rows, nextSeq)
  BY <1>2 DEF PageInv, Past
<1>5. load'.offset \in {0, Len(entries')}
  BY <1>2
<1>6. orderly => Covers(entries', Seqs) /\ Complete(entries', total', Seqs)
  BY EmptyCovers DEF PageInv
<1>7. load'.at \notin {"count", "answer"}
  BY <1>2
<1> QED BY <1>1, <1>3, <1>4, <1>5, <1>6, <1>7 DEF PageInv

LEMMA SelectKeeps ==
    ASSUME IInv, PageInv, UNCHANGED vars, SelectsRows, TypeOK'
    PROVE  PageInv'
<1> DEFINE table == IF load.offset = 0 THEN <<>> ELSE entries
           part == PageAt(load.offset)
<1>1. Seqs' = Seqs /\ nextSeq' = nextSeq /\ orderly' = orderly /\ UNCHANGED <<entries, total, loads>>
  BY DEF vars, Seqs, SelectsRows
<1>2. log \subseteq Row /\ nextSeq \in Nat /\ Seqs \in SUBSET Nat /\ \A k \in Seqs : k < nextSeq
  BY DEF IInv, TypeOK, Seqs, Row, SeqsPast
<1>3. /\ load.at = "rows" /\ load.offset \in Nat /\ entries \in Seq(Nat)
      /\ load \in [at : {"none", "rows", "count", "answer"}, offset : Nat,
                   rows : Seq(Nat), total : Nat]
  BY DEF SelectsRows, PageInv, PageTypeOK
<1>4. load' = [at |-> "count", offset |-> load.offset, rows |-> part, total |-> load.total]
  BY <1>3 DEF SelectsRows
<1>5. part \in Seq(Nat) /\ \A i \in DOMAIN part : part[i] \in Seqs
  BY <1>2, <1>3, PageGives DEF PageInv
<1>6. table \in Seq(Nat) /\ load.offset = Len(table)
  BY <1>3 DEF PageInv, Loading
<1>7. orderly => Covers(table \o part, Seqs)
  <2>1. orderly => Covers(table, Seqs)
    BY EmptyCovers DEF PageInv
  <2> HIDE DEF table
  <2> QED BY <1>2, <1>6, <2>1, NextPageCovers DEF PageInv
<1> HIDE DEF part
<1>8. Coming' = table \o part
  BY <1>1, <1>4 DEF Coming
<1>9. PageTypeOK'
  BY <1>1, <1>3, <1>4, <1>5 DEF PageInv, PageTypeOK
<1>10. Past(load'.rows, nextSeq)
  BY <1>2, <1>4, <1>5 DEF Past
<1>11. load'.offset = load.offset /\ load'.at = "count" /\ Loading
  BY <1>3, <1>4 DEF Loading
<1> HIDE DEF table
<1> QED BY <1>1, <1>7, <1>8, <1>9, <1>10, <1>11 DEF PageInv

LEMMA CountKeeps ==
    ASSUME IInv, PageInv, UNCHANGED vars, CountsRows, TypeOK'
    PROVE  PageInv'
<1>1. Seqs' = Seqs /\ nextSeq' = nextSeq /\ orderly' = orderly /\ UNCHANGED <<entries, total, loads>>
  BY DEF vars, Seqs, CountsRows
<1>2. log \subseteq Row /\ Seqs \in SUBSET Nat
  BY DEF IInv, TypeOK, Seqs, Row
<1>3. /\ load.at = "count" /\ entries \in Seq(Nat)
      /\ load \in [at : {"none", "rows", "count", "answer"}, offset : Nat,
                   rows : Seq(Nat), total : Nat]
  BY DEF CountsRows, PageInv, PageTypeOK
<1>4. Len(NewestFirst) = Cardinality(Seqs) /\ Cardinality(Seqs) \in Nat
  <2>1. NewestFirst \in [1..Cardinality(Seqs) -> Seqs]
    BY <1>2, NewestFirstSorts DEF PageInv, Sorts
  <2>2. Cardinality(Seqs) \in Nat
    BY FS_CardinalityType DEF PageInv
  <2> QED BY <2>1, <2>2
<1>5. load' = [at |-> "answer", offset |-> load.offset, rows |-> load.rows,
               total |-> Cardinality(Seqs)]
  BY <1>3, <1>4 DEF CountsRows
<1>6. Coming' = Coming /\ Coming \in Seq(Nat)
  BY <1>1, <1>3, <1>5 DEF Coming
<1>7. orderly => Covers(Coming, Seqs) /\ Complete(Coming, Cardinality(Seqs), Seqs)
  BY <1>2, <1>3, <1>6, AllIsComplete DEF PageInv
<1>8. PageTypeOK'
  BY <1>1, <1>3, <1>4, <1>5 DEF PageInv, PageTypeOK
<1>9. /\ load'.offset = load.offset /\ load'.rows = load.rows /\ load'.total = Cardinality(Seqs)
      /\ Loading
  BY <1>3, <1>5 DEF Loading
<1> QED BY <1>1, <1>6, <1>7, <1>8, <1>9 DEF PageInv

LEMMA AnswerKeeps ==
    ASSUME PageInv, UNCHANGED vars, Answers, TypeOK'
    PROVE  PageInv'
<1>1. Seqs' = Seqs /\ nextSeq' = nextSeq /\ orderly' = orderly /\ UNCHANGED loads
  BY DEF vars, Seqs, Answers
<1>2. /\ load.at = "answer" /\ entries \in Seq(Nat) /\ load.rows \in Seq(Nat) /\ load.total \in Nat
      /\ Past(entries, nextSeq) /\ Past(load.rows, nextSeq)
  BY DEF Answers, PageInv, PageTypeOK
<1>3. entries' = Coming /\ total' = load.total
  BY DEF Answers, Coming
<1>4. load' = [at |-> "none", offset |-> 0, rows |-> <<>>, total |-> 0]
  BY DEF Answers, NoLoad
<1>5. Coming \in Seq(Nat) /\ Past(Coming, nextSeq)
  BY <1>2, ComingPast
<1>6. orderly => Covers(Coming, Seqs) /\ Complete(Coming, load.total, Seqs)
  BY <1>2 DEF PageInv
<1>7. PageTypeOK'
  BY <1>1, <1>2, <1>3, <1>4, <1>5 DEF PageInv, PageTypeOK
<1>8. load'.at = "none" /\ Past(load'.rows, nextSeq)
  BY <1>4 DEF Past
<1> QED BY <1>1, <1>3, <1>5, <1>6, <1>7, <1>8 DEF PageInv, Loading

LEMMA FailKeeps ==
    ASSUME PageInv, UNCHANGED vars, LoadFails, TypeOK'
    PROVE  PageInv'
<1>1. Seqs' = Seqs /\ nextSeq' = nextSeq /\ orderly' = orderly /\ UNCHANGED <<entries, total, loads>>
  BY DEF vars, Seqs, LoadFails
<1>2. load' = [at |-> "none", offset |-> 0, rows |-> <<>>, total |-> 0]
  BY DEF LoadFails, NoLoad
<1>3. PageTypeOK'
  BY <1>1, <1>2 DEF PageInv, PageTypeOK
<1>4. load'.at = "none" /\ Past(load'.rows, nextSeq)
  BY <1>2 DEF Past
<1> QED BY <1>1, <1>3, <1>4 DEF PageInv, Loading

\* A step of the trail under the page.
LEMMA TrailKeepsPage ==
    ASSUME IInv, IInv', PageInv, [Next]_vars, UNCHANGED page
    PROVE  PageInv'
<1>1. UNCHANGED <<entries, total, load, loads>>
  BY DEF page
<1>2. /\ IsFiniteSet(Seqs') /\ nextSeq <= nextSeq'
      /\ orderly' => Shifts(Seqs, Seqs', nextSeq)
      /\ orderly' => orderly
  BY TrailShifts, TrailMoves DEF PageInv
<1>3. /\ Seqs \in SUBSET Nat /\ Seqs' \in SUBSET Nat /\ nextSeq \in Nat /\ nextSeq' \in Nat
  BY DEF IInv, TypeOK, Seqs, Row
<1>4. PageTypeOK'
  BY <1>1 DEF PageInv, PageTypeOK, IInv
<1>5. /\ entries \in Seq(Nat) /\ load.rows \in Seq(Nat)
      /\ Past(entries, nextSeq) /\ Past(load.rows, nextSeq)
  BY DEF PageInv, PageTypeOK
<1>6. ASSUME NEW t \in Seq(Nat), Past(t, nextSeq) PROVE Past(t, nextSeq')
  <2> SUFFICES ASSUME NEW i \in DOMAIN t PROVE t[i] < nextSeq'
    BY DEF Past
  <2>1. t[i] \in Nat /\ t[i] < nextSeq
    BY <1>6 DEF Past
  <2> QED BY <1>2, <1>3, <2>1
<1>7. Coming' = Coming
  BY <1>1 DEF Coming
<1>8. Coming \in Seq(Nat) /\ Past(Coming, nextSeq)
  BY <1>5, ComingPast
<1>9. ASSUME orderly', NEW t \in Seq(Nat), Past(t, nextSeq)
      PROVE  /\ Covers(t, Seqs) => Covers(t, Seqs')
             /\ \A count : Complete(t, count, Seqs) => Complete(t, count, Seqs')
  BY <1>2, <1>3, <1>9, ShiftKeeps DEF PageInv
<1>10. ASSUME orderly'
       PROVE  /\ Covers(entries, Seqs') /\ Complete(entries, total, Seqs')
              /\ load.at \in {"count", "answer"} => Covers(Coming, Seqs')
              /\ load.at = "answer" => Complete(Coming, load.total, Seqs')
  BY <1>2, <1>5, <1>8, <1>9, <1>10 DEF PageInv
<1>11. Past(entries, nextSeq') /\ Past(load.rows, nextSeq')
  BY <1>5, <1>6
<1>12. Loading => load.offset \in {0, Len(entries)}
  BY DEF PageInv
<1> QED BY <1>1, <1>2, <1>4, <1>7, <1>10, <1>11, <1>12 DEF PageInv, Loading

LEMMA PageInvInit == PageInit => PageInv
<1> SUFFICES ASSUME PageInit PROVE PageInv
  OBVIOUS
<1>1. Seqs = {} /\ IInv
  BY IInvInit DEF PageInit, Init, Seqs
<1>2. /\ entries = <<>> /\ total = 0 /\ loads = 1
      /\ load = [at |-> "rows", offset |-> 0, rows |-> <<>>, total |-> 0]
  BY DEF PageInit, Begun, NoLoad
<1>3. PageTypeOK
  BY <1>1, <1>2, AuditPageAssumption DEF PageTypeOK, IInv
<1>4. Past(<<>>, nextSeq)
  BY DEF Past
<1> QED BY <1>1, <1>2, <1>3, <1>4, EmptyCovers, FS_EmptySet DEF PageInv

LEMMA PageInvStep == IInv /\ PageInv /\ [PageNext]_<<vars, page>> => IInv' /\ PageInv'
<1> SUFFICES ASSUME IInv, PageInv, [PageNext]_<<vars, page>> PROVE IInv' /\ PageInv'
  OBVIOUS
<1>1. [Next]_vars
  BY DEF PageNext
<1>2. IInv' /\ TypeOK'
  BY <1>1, IInvStep DEF IInv
<1>3. ASSUME UNCHANGED page PROVE PageInv'
  BY <1>1, <1>2, <1>3, TrailKeepsPage
<1>4. ASSUME PageStep, UNCHANGED vars PROVE PageInv'
  <2>1. CASE Reopens
    BY <1>2, <1>4, <2>1, LoadBegins DEF Reopens
  <2>2. CASE Refreshes
    BY <1>2, <1>4, <2>2, LoadBegins DEF Refreshes
  <2>3. CASE LoadsMore
    <3>1. Len(entries) \in Nat
      BY DEF PageInv, PageTypeOK
    <3> QED BY <1>2, <1>4, <2>3, <3>1, LoadBegins DEF LoadsMore
  <2>4. CASE SelectsRows
    BY <1>2, <1>4, <2>4, SelectKeeps
  <2>5. CASE CountsRows
    BY <1>2, <1>4, <2>5, CountKeeps
  <2>6. CASE Answers
    BY <1>2, <1>4, <2>6, AnswerKeeps
  <2>7. CASE LoadFails
    BY <1>2, <1>4, <2>7, FailKeeps
  <2> QED BY <1>4, <2>1, <2>2, <2>3, <2>4, <2>5, <2>6, <2>7 DEF PageStep
<1> QED BY <1>2, <1>3, <1>4 DEF PageNext

LEMMA PageInvariantHolds == PageSpec => [](IInv /\ PageInv)
<1>1. PageInit => IInv /\ PageInv
  BY IInvInit, PageInvInit DEF PageInit
<1> QED BY <1>1, PageInvStep, PTL DEF PageSpec

\* Every reachable state of the page over the trail is well typed.
THEOREM PageTypeCorrect == PageSpec => []PageTypeOK
<1>1. PageInv => PageTypeOK
  BY DEF PageInv
<1> QED BY <1>1, PageInvariantHolds, PTL

\* "Carregar mais" until it is gone shows the whole trail: however the loads, the
\* entries written and the prunes between them interleave, no entry is missing between
\* the newest one of the page and the oldest one of the trail, while one sidecar writes
\* at a time and no clock is set back.
THEOREM NothingEverSkipped == PageSpec => []NothingSkipped
<1>1. PageInv => NothingSkipped
  <2> SUFFICES ASSUME PageInv, orderly, ~Offers, NEW r \in log
               PROVE  Shows(r) \/ \A i \in DOMAIN entries : entries[i] < r.seq
    BY DEF NothingSkipped
  <2>1. total <= Len(entries)
    <3>1. total \in Nat /\ Len(entries) \in Nat
      BY DEF PageInv, PageTypeOK
    <3> QED BY <3>1 DEF Offers
  <2>2. Told(r.seq, entries)
    BY <2>1 DEF PageInv, Complete, Seqs
  <2> QED BY <2>2 DEF Told, ShownBy, NewerThanAll, Shows
<1> QED BY <1>1, PageInvariantHolds, PTL

-----------------------------------------------------------------------------
(* The portal.                                                             *)

\* A data request that was answered has the data.
Given == \A s \in Requests : req[s].kind = "data" /\ req[s].stage = "ok" => req[s].data \in Data

\* Whoever restores a session or signs in does so alone, from outside the portal;
\* nothing but the login is shown then, and while signing out.
Restoring == {"data", "sign-in"}
Signing ==
    /\ \A s \in Requests : req[s].kind \in Restoring =>
          ~InPortal /\ \A t \in Requests \ {s} : req[t] = Idle
    /\ \A s \in Requests : req[s].kind \in Restoring \cup {"sign-out"} => "forgot" \notin view
    /\ \A s \in Requests : req[s].kind = "data" =>
          req[s].by = cookie /\ (req[s].stage = "ok" => req[s].data.of = cookie)
    /\ InPortal => export.of = cookie /\ view = {}
    /\ ~({"login", "forgot"} \subseteq view)

\* One load at a time fills an empty table.
Table ==
    /\ \A s, t \in Requests : req[s].kind = "punches" /\ req[t].kind = "punches" => s = t
    /\ \A s \in Requests : req[s].kind = "punches" => rows = <<>>
    /\ \A i, j \in DOMAIN rows : rows[i].of = rows[j].of /\ (i # j => rows[i].date # rows[j].date)

PortalInv ==
    /\ PortalTypeOK /\ Given
    /\ Calm({"crossing"}) => Signing
    /\ Calm({"loads"}) => Table

-----------------------------------------------------------------------------
(* Types.                                                                   *)

Sent == Request \cup {Idle}
LoginData == [kind : {"data"}, by : Callers, login : BOOLEAN, stage : Stages, data : Data \cup {NoData}]
Listing == [kind : {"punches"}, by : Callers, of : Accounts, found : SUBSET Dates, stage : Stages]
Saving == [kind : {"save"}, by : Callers, day : Days, field : Fields, sources : SUBSET Fields, stage : Stages]
Deleting == [kind : {"delete"}, by : Callers, day : Days, stage : Stages]
Hiding == [kind : {"visibility"}, by : Callers, hidden : BOOLEAN, stage : Stages]
Arriving == [kind : {"sign-in"}, by : Accounts, stage : Stages]
Plain == [kind : {"sign-out", "employees"}, by : Callers, stage : Stages]

LEMMA SentIs == Request = Arriving \cup Plain \cup LoginData \cup Hiding \cup Listing \cup Saving \cup Deleting
  BY DEF Request, Arriving, Plain, LoginData, Hiding, Listing, Saving, Deleting

LEMMA SentParts ==
    ASSUME NEW r \in Sent
    PROVE  /\ r = Idle \/ r.kind # "idle"
           /\ r.kind = "sign-in" => r \in Arriving
           /\ r.kind \in {"sign-out", "employees"} => r \in Plain
           /\ r.kind = "data" => r \in LoginData
           /\ r.kind = "visibility" => r \in Hiding
           /\ r.kind = "punches" => r \in Listing
           /\ r.kind = "save" => r \in Saving
           /\ r.kind = "delete" => r \in Deleting
  BY SentIs DEF Sent, Arriving, Plain, LoginData, Hiding, Listing, Saving, Deleting, Idle

\* An answer changes the stage only.
LEMMA StageSet ==
    ASSUME NEW r \in Request, NEW stage \in Stages
    PROVE  /\ [r EXCEPT !.stage = stage] \in Request
           /\ [r EXCEPT !.stage = stage].kind = r.kind
           /\ [r EXCEPT !.stage = stage].by = r.by
           /\ [r EXCEPT !.stage = stage].stage = stage
           /\ r.kind = "data" => [r EXCEPT !.stage = stage].data = r.data
<1> DEFINE x == [r EXCEPT !.stage = stage]
<1>1. CASE r \in Plain
  <2>1. x \in Plain /\ x.kind = r.kind /\ x.by = r.by /\ x.stage = stage /\ r.kind # "data"
    BY <1>1 DEF Plain
  <2> QED BY <2>1, SentIs
<1>2. CASE r \in LoginData
  <2>1. x \in LoginData /\ x.kind = r.kind /\ x.by = r.by /\ x.stage = stage /\ x.data = r.data
    BY <1>2 DEF LoginData
  <2> QED BY <2>1, SentIs
<1>3. CASE r \in Hiding
  <2>1. x \in Hiding /\ x.kind = r.kind /\ x.by = r.by /\ x.stage = stage /\ r.kind # "data"
    BY <1>3 DEF Hiding
  <2> QED BY <2>1, SentIs
<1>4. CASE r \in Listing
  <2>1. x \in Listing /\ x.kind = r.kind /\ x.by = r.by /\ x.stage = stage /\ r.kind # "data"
    BY <1>4 DEF Listing
  <2> QED BY <2>1, SentIs
<1>5. CASE r \in Saving
  <2>1. x \in Saving /\ x.kind = r.kind /\ x.by = r.by /\ x.stage = stage /\ r.kind # "data"
    BY <1>5 DEF Saving
  <2> QED BY <2>1, SentIs
<1>6. CASE r \in Deleting
  <2>1. x \in Deleting /\ x.kind = r.kind /\ x.by = r.by /\ x.stage = stage /\ r.kind # "data"
    BY <1>6 DEF Deleting
  <2> QED BY <2>1, SentIs
<1>7. CASE r \in Arriving
  <2>1. x \in Arriving /\ x.kind = r.kind /\ x.by = r.by /\ x.stage = stage /\ r.kind # "data"
    BY <1>7 DEF Arriving
  <2> QED BY <2>1, SentIs
<1> QED BY <1>1, <1>2, <1>3, <1>4, <1>5, <1>6, <1>7, SentIs

LEMMA RequestOf ==
    ASSUME PortalTypeOK, NEW s \in Requests
    PROVE  /\ req[s] \in Sent
           /\ req[s] # Idle => req[s] \in Request
           /\ req[s].kind # "idle" => req[s] # Idle
  BY DEF PortalTypeOK, Sent, Idle

LEMMA ReqGoes ==
    ASSUME PortalTypeOK, NEW s \in Requests, NEW r, Goes(s, r)
    PROVE  /\ req'[s] = r
           /\ \A t \in Requests \ {s} : req'[t] = req[t]
           /\ r \in Sent => req' \in [Requests -> Request \cup {Idle}]
  BY DEF PortalTypeOK, Goes, Sent

LEMMA NewRequests ==
    ASSUME PortalTypeOK
    PROVE  /\ \A c \in Callers, login \in BOOLEAN : AskData(c, login) \in Request
           /\ \A e \in Accounts : AskPunches(e) \in Request
           /\ [kind |-> "employees", by |-> cookie, stage |-> "sent"] \in Request
<1>0. "sent" \in Stages /\ cookie \in Callers /\ {} \in SUBSET Dates
  BY DEF PortalTypeOK, Stages
<1>1. \A c \in Callers, login \in BOOLEAN : AskData(c, login) \in LoginData
  BY <1>0 DEF AskData, LoginData
<1>2. \A e \in Accounts : AskPunches(e) \in Listing
  BY <1>0 DEF AskPunches, Listing
<1>3. [kind |-> "employees", by |-> cookie, stage |-> "sent"] \in Plain
  BY <1>0 DEF Plain
<1> QED BY <1>1, <1>2, <1>3, SentIs

\* What the rows of a load are, in any order that the sidecar answers.
LEMMA Orders ==
    ASSUME NEW found, found \subseteq Dates, IsFiniteSet(Dates), NEW order \in [1..Cardinality(found) -> found],
           {order[i] : i \in DOMAIN order} = found
    PROVE  /\ Cardinality(found) \in Nat
           /\ \A i, j \in 1..Cardinality(found) : i # j => order[i] # order[j]
<1>1. IsFiniteSet(found)
  BY FS_Subset
<1> DEFINE n == Cardinality(found)
<1>2. n \in Nat
  BY <1>1, FS_CardinalityType
<1>3. IsFiniteSet(1..n) /\ Cardinality(1..n) = n
  BY <1>2, FS_Interval
<1>4. order \in Surjection(1..n, found)
  BY DEF Surjection
<1>5. order \in Injection(1..n, found)
  BY <1>1, <1>3, <1>4, FS_SurjSameCardinalityImpliesInj
<1> QED BY <1>2, <1>5 DEF Injection, IsInjective

LEMMA PortalTypedInit == PortalInit => PortalTypeOK
<1> SUFFICES ASSUME PortalInit PROVE PortalTypeOK
  OBVIOUS
<1>1. PICK s \in Requests : req = [x \in Requests |-> IF x = s THEN AskData(cookie, FALSE) ELSE Idle]
  BY DEF PortalInit
<1>2. cookie \in Callers /\ "sent" \in Stages
  BY DEF PortalInit, Stages
<1>3. AskData(cookie, FALSE) \in Request
  <2>1. AskData(cookie, FALSE) \in LoginData
    BY <1>2 DEF AskData, LoginData
  <2> QED BY <2>1, SentIs
<1>4. req \in [Requests -> Request \cup {Idle}]
  BY <1>1, <1>3
<1>5. days \in [Days -> Day]
  <2>1. {NoDay, [f \in Fields |-> "kiosk"]} \subseteq Day
    BY DEF Day
  <2> QED BY <2>1 DEF PortalInit
<1>6. marks \in [Days -> SUBSET Fields] /\ hidden \in [Accounts -> BOOLEAN]
  BY DEF PortalInit
<1>7. live \subseteq Accounts
  BY <1>2 DEF PortalInit, Callers, Nobody
<1>8. rows \in Seq(TableRow)
  BY DEF PortalInit
<1>9. /\ admins \subseteq Accounts /\ view \subseteq {"login", "forgot"} /\ export \in Data \cup {NoData}
      /\ checked \in BOOLEAN /\ options \in BOOLEAN /\ signing \in BOOLEAN
      /\ sent \in Nat /\ odd \subseteq Oddities
  BY DEF PortalInit
<1>10. picked \in Callers
  BY DEF PortalInit, Callers
<1> QED BY <1>2, <1>4, <1>5, <1>6, <1>7, <1>8, <1>9, <1>10 DEF PortalTypeOK

LEMMA OddTyped ==
    ASSUME PortalTypeOK, NEW what, IsOdd(what)
    PROVE  odd' \subseteq Oddities
  BY PortalPageAssumption DEF PortalTypeOK, IsOdd

\* What is left of the state when the requests are set aside.
PortalRest ==
    /\ days \in [Days -> Day] /\ marks \in [Days -> SUBSET Fields]
    /\ hidden \in [Accounts -> BOOLEAN]
    /\ admins \subseteq Accounts /\ live \subseteq Accounts
    /\ cookie \in Callers
    /\ view \subseteq {"login", "forgot"}
    /\ export \in Data \cup {NoData}
    /\ checked \in BOOLEAN /\ options \in BOOLEAN /\ signing \in BOOLEAN
    /\ picked \in Callers
    /\ rows \in Seq(TableRow)
    /\ sent \in Nat /\ odd \subseteq Oddities

LEMMA PortalTypedIs == PortalTypeOK <=> PortalRest /\ req \in [Requests -> Request \cup {Idle}]
  BY DEF PortalTypeOK, PortalRest

LEMMA PortalTypedNext == PortalRest' /\ req' \in [Requests -> Request \cup {Idle}] => PortalTypeOK'
  BY DEF PortalTypeOK, PortalRest

LEMMA SendsType ==
    ASSUME PortalTypeOK, NEW s \in Requests, NEW r \in Request, Sends(s, r)
    PROVE  sent' \in Nat /\ req' \in [Requests -> Request \cup {Idle}]
<1>1. sent' = sent + 1 /\ sent \in Nat /\ Goes(s, r)
  BY DEF Sends, PortalTypeOK
<1>2. r \in Sent
  BY DEF Sent
<1> QED BY <1>1, <1>2, ReqGoes

LEMMA AnswersType ==
    ASSUME PortalTypeOK, NEW s \in Requests, req[s].kind # "idle", NEW stage \in Stages, AnswerWith(s, stage)
    PROVE  req' \in [Requests -> Request \cup {Idle}]
<1>1. [req[s] EXCEPT !.stage = stage] \in Sent
  BY RequestOf, StageSet DEF Sent
<1> QED BY <1>1, ReqGoes DEF AnswerWith

LEMMA EndsType ==
    ASSUME PortalTypeOK, NEW s \in Requests, Goes(s, Idle)
    PROVE  req' \in [Requests -> Request \cup {Idle}]
<1>1. Idle \in Sent
  BY DEF Sent
<1> QED BY <1>1, ReqGoes

LEMMA RowsType ==
    ASSUME PortalRest, NEW s \in Requests, req[s] \in Listing, IsFiniteSet(Dates), ListsPunches(s)
    PROVE  rows' \in Seq(TableRow)
<1> DEFINE found == req[s].found
           n == Cardinality(found)
<1>1. PICK order \in [1..n -> found] :
         /\ {order[i] : i \in DOMAIN order} = found
         /\ rows' = rows \o [i \in DOMAIN order |-> [of |-> req[s].of, date |-> order[i]]]
  BY DEF ListsPunches
<1>2. n \in Nat
  BY <1>1, Orders DEF Listing
<1>3. \A i \in 1..n : [of |-> req[s].of, date |-> order[i]] \in TableRow
  BY <1>1 DEF Listing, TableRow
<1> DEFINE more == [i \in DOMAIN order |-> [of |-> req[s].of, date |-> order[i]]]
<1>4. DOMAIN order = 1..n
  BY <1>1
<1>5. more \in Seq(TableRow)
  BY <1>2, <1>3, <1>4
<1> HIDE DEF more
<1>6. rows \in Seq(TableRow)
  BY DEF PortalRest
<1>7. rows' = rows \o more
  BY <1>1 DEF more
<1> QED BY <1>5, <1>6, <1>7

LEMMA PortalTypedStep ==
    ASSUME PortalTypeOK, Given, [PortalNext]_portalVars
    PROVE  PortalTypeOK'
<1> USE DEF portalVars, server, portalPage
<1>a. PortalRest
  BY PortalTypedIs
<1>r. \A s \in Requests : req[s] \in Sent
  BY RequestOf
<1> DEFINE ReqTyped == req \in [Requests -> Request \cup {Idle}]
<1> SUFFICES PortalRest' /\ ReqTyped'
  BY PortalTypedNext
<1>c. Given
  OBVIOUS
<1>b. ReqTyped
  BY PortalTypedIs
<1>k. "sent" \in Stages /\ "ok" \in Stages /\ "refused" \in Stages /\ "merging" \in Stages
  BY DEF Stages
<1>s. \A s \in Requests : req[s].kind # "idle" => req[s] \in Request
  BY RequestOf
<1>i. \A s \in Requests : Goes(s, Idle) => ReqTyped'
  BY EndsType
<1>e. <<>> \in Seq(TableRow)
  OBVIOUS
<1>1. CASE UNCHANGED portalVars
  BY <1>1, <1>a, <1>b DEF PortalRest
<1>2. ASSUME NEW s \in Requests, NEW a \in Accounts, SubmitsLogin(s, a) PROVE PortalRest' /\ ReqTyped'
  <2>1. [kind |-> "sign-in", by |-> a, stage |-> "sent"] \in Request
    <3>1. [kind |-> "sign-in", by |-> a, stage |-> "sent"] \in Arriving
      BY <1>k DEF Arriving
    <3> QED BY <3>1, SentIs
  <2>2. sent' \in Nat /\ ReqTyped' /\ odd' \subseteq Oddities
    BY <1>2, <2>1, SendsType, OddTyped DEF SubmitsLogin
  <2> QED BY <1>2, <1>a, <2>2 DEF SubmitsLogin, PortalRest
<1>3. CASE Forgets
  <2>1. odd' \subseteq Oddities
    BY <1>3, OddTyped DEF Forgets
  <2> QED BY <1>3, <1>a, <1>b, <2>1 DEF Forgets, PortalRest
<1>4. ASSUME NEW s \in Requests, SignsOut(s) PROVE PortalRest' /\ ReqTyped'
  <2>1. [kind |-> "sign-out", by |-> cookie, stage |-> "sent"] \in Request
    <3>1. [kind |-> "sign-out", by |-> cookie, stage |-> "sent"] \in Plain
      BY <1>k, <1>a DEF Plain, PortalRest
    <3> QED BY <3>1, SentIs
  <2>2. sent' \in Nat /\ ReqTyped' /\ odd' \subseteq Oddities
    BY <1>4, <2>1, SendsType, OddTyped DEF SignsOut
  <2> QED BY <1>4, <1>a, <2>2 DEF SignsOut, PortalRest
<1>5. ASSUME NEW s \in Requests, Toggles(s) PROVE PortalRest' /\ ReqTyped'
  <2>1. [kind |-> "visibility", by |-> cookie, hidden |-> ~checked, stage |-> "sent"] \in Request
    <3>1. [kind |-> "visibility", by |-> cookie, hidden |-> ~checked, stage |-> "sent"] \in Hiding
      BY <1>k, <1>a DEF Hiding, PortalRest
    <3> QED BY <3>1, SentIs
  <2>2. sent' \in Nat /\ ReqTyped'
    BY <1>5, <2>1, SendsType DEF Toggles
  <2> QED BY <1>5, <1>a, <2>2 DEF Toggles, PortalRest
<1>6. ASSUME NEW s \in Requests, NEW e \in Accounts, Picks(s, e) PROVE PortalRest' /\ ReqTyped'
  <2>1. sent' \in Nat /\ ReqTyped' /\ odd' \subseteq Oddities
    BY <1>6, NewRequests, SendsType, OddTyped DEF Picks
  <2> QED BY <1>6, <1>a, <1>e, <2>1 DEF Picks, PortalRest, Callers
<1>7. CASE PicksNobody
  BY <1>7, <1>a, <1>b, <1>e DEF PicksNobody, PortalRest, Callers
<1>8. ASSUME NEW s \in Requests, NEW i \in DOMAIN rows, NEW f \in Fields, EditsTime(s, rows[i], f)
      PROVE  PortalRest' /\ ReqTyped'
  <2>1. rows[i] \in TableRow
    BY <1>a DEF PortalRest
  <2> DEFINE r == [kind |-> "save", by |-> cookie, day |-> <<rows[i].of, rows[i].date>>, field |-> f,
                   sources |-> {}, stage |-> "sent"]
  <2>2. r \in Saving
    BY <1>k, <1>a, <2>1 DEF Saving, PortalRest, TableRow, Days
  <2>3. Sends(s, r) /\ IsOdd(Edits)
    BY <1>8 DEF EditsTime
  <2> HIDE DEF r
  <2>4. sent' \in Nat /\ ReqTyped' /\ odd' \subseteq Oddities
    BY <2>2, <2>3, SentIs, SendsType, OddTyped
  <2> QED BY <1>8, <1>a, <2>4 DEF EditsTime, PortalRest
<1>9. ASSUME NEW s \in Requests, NEW i \in DOMAIN rows, DeletesDay(s, rows[i])
      PROVE  PortalRest' /\ ReqTyped'
  <2>1. rows[i] \in TableRow
    BY <1>a DEF PortalRest
  <2> DEFINE r == [kind |-> "delete", by |-> cookie, day |-> <<rows[i].of, rows[i].date>>, stage |-> "sent"]
  <2>2. r \in Deleting
    BY <1>k, <1>a, <2>1 DEF Deleting, PortalRest, TableRow, Days
  <2>3. Sends(s, r) /\ IsOdd(Edits)
    BY <1>9 DEF DeletesDay
  <2> HIDE DEF r
  <2>4. sent' \in Nat /\ ReqTyped' /\ odd' \subseteq Oddities
    BY <2>2, <2>3, SentIs, SendsType, OddTyped
  <2> QED BY <1>9, <1>a, <2>4 DEF DeletesDay, PortalRest
<1>10. ASSUME NEW s \in Requests, Reloads(s) PROVE PortalRest' /\ ReqTyped'
  <2>1. sent' \in Nat /\ ReqTyped'
    BY <1>10, <1>a, NewRequests, SendsType DEF Reloads, PortalRest
  <2> QED BY <1>10, <1>a, <1>e, <2>1 DEF Reloads, PortalRest, Callers
<1>11. ASSUME NEW s \in Requests, ServesSignIn(s) \/ ServesSignOut(s) PROVE PortalRest' /\ ReqTyped'
  <2>1. ReqTyped'
    BY <1>11, <1>k, AnswersType DEF ServesSignIn, ServesSignOut, Asked
  <2>2. CASE ServesSignOut(s)
    BY <2>1, <2>2, <1>a DEF ServesSignOut, PortalRest
  <2>3. CASE ServesSignIn(s)
    <3>1. req[s] \in Arriving
      BY <2>3, <1>r, SentParts DEF ServesSignIn, Asked
    <3>2. live' \subseteq Accounts
      BY <2>3, <1>a, <3>1 DEF ServesSignIn, PortalRest, Arriving
    <3> QED BY <2>1, <2>3, <1>a, <3>2 DEF ServesSignIn, PortalRest
  <2> QED BY <1>11, <2>2, <2>3
<1>12. ASSUME NEW s \in Requests, ServesData(s) PROVE PortalRest' /\ ReqTyped'
  <2> DEFINE r == [req[s] EXCEPT !.stage = "ok", !.data = ExportOf(req[s].by)]
  <2>1. req[s] \in LoginData /\ req[s].by \in Accounts /\ Goes(s, r)
    BY <1>12, <1>a, <1>r, SentParts DEF ServesData, Asked, PortalRest
  <2>2. ExportOf(req[s].by) \in Data
    BY <2>1, <1>a DEF ExportOf, Data, PortalRest
  <2>3. r \in LoginData
    BY <2>1, <2>2, <1>k DEF LoginData
  <2> HIDE DEF r
  <2>4. ReqTyped'
    BY <2>1, <2>3, SentIs, ReqGoes DEF Sent
  <2> QED BY <1>12, <1>a, <2>4 DEF ServesData, PortalRest
<1>13. ASSUME NEW s \in Requests, ServesLists(s) PROVE PortalRest' /\ ReqTyped'
  <2>1. CASE Asked(s, "employees") /\ AnswerWith(s, "ok")
    BY <2>1, <1>k, <1>13, <1>a, AnswersType DEF Asked, ServesLists, PortalRest
  <2>2. CASE Asked(s, "punches") /\ Goes(s, [req[s] EXCEPT !.stage = "ok", !.found = DatesOf(req[s].of)])
    <3>1. req[s] \in Listing
      BY <2>2, <1>r, SentParts DEF Asked
    <3>2. [req[s] EXCEPT !.stage = "ok", !.found = DatesOf(req[s].of)] \in Listing
      BY <3>1, <1>k DEF Listing, DatesOf
    <3>3. ReqTyped'
      BY <2>2, <3>2, SentIs, ReqGoes DEF Sent
    <3> QED BY <1>13, <1>a, <3>3 DEF ServesLists, PortalRest
  <2> QED BY <1>13, <2>1, <2>2 DEF ServesLists
<1>14. ASSUME NEW s \in Requests, ServesVisibility(s) PROVE PortalRest' /\ ReqTyped'
  <2>1. req[s] \in Hiding
    BY <1>14, <1>r, SentParts DEF ServesVisibility, Asked
  <2>2. ReqTyped'
    BY <1>14, <1>k, AnswersType DEF ServesVisibility, Asked
  <2>3. hidden' \in [Accounts -> BOOLEAN]
    BY <1>14, <1>a, <2>1 DEF ServesVisibility, PortalRest, Hiding
  <2> QED BY <1>14, <1>a, <2>2, <2>3 DEF ServesVisibility, PortalRest
<1>15. ASSUME NEW s \in Requests, ReadsSources(s) PROVE PortalRest' /\ ReqTyped'
  <2>1. req[s] \in Saving
    BY <1>15, <1>r, SentParts DEF ReadsSources, ServesPunch, Asked
  <2> DEFINE r == [req[s] EXCEPT !.stage = "merging", !.sources = marks[req[s].day] \cup {req[s].field}]
  <2>2. marks[req[s].day] \cup {req[s].field} \subseteq Fields
    BY <1>a, <2>1 DEF PortalRest, Saving
  <2>3. r \in Saving
    BY <1>k, <2>1, <2>2 DEF Saving
  <2>4. Goes(s, r)
    BY <1>15 DEF ReadsSources
  <2> HIDE DEF r
  <2>5. ReqTyped'
    BY <2>3, <2>4, SentIs, ReqGoes DEF Sent
  <2> QED BY <1>15, <1>a, <2>5 DEF ReadsSources, PortalRest
<1>16. ASSUME NEW s \in Requests, Upserts(s) PROVE PortalRest' /\ ReqTyped'
  <2>1. req[s] \in Saving
    BY <1>16, <1>r, SentParts DEF Upserts
  <2>2. ReqTyped'
    BY <1>16, <1>k, AnswersType DEF Upserts
  <2> DEFINE d == req[s].day
             from == IF days[d] = NoDay THEN [f \in Fields |-> "none"] ELSE days[d]
  <2>3. d \in Days /\ req[s].field \in Fields /\ req[s].sources \in SUBSET Fields
    BY <2>1 DEF Saving
  <2>4. from \in [Fields -> {"none", "kiosk", "portal"}]
    BY <1>a, <2>3 DEF PortalRest, Day
  <2>5. /\ days' = [days EXCEPT ![d] = [from EXCEPT ![req[s].field] = "portal"]]
        /\ marks' = [marks EXCEPT ![d] = req[s].sources]
    BY <1>16 DEF Upserts
  <2> HIDE DEF d, from
  <2>6. [from EXCEPT ![req[s].field] = "portal"] \in Day
    BY <2>3, <2>4 DEF Day
  <2>7. days' \in [Days -> Day] /\ marks' \in [Days -> SUBSET Fields]
    BY <1>a, <2>3, <2>5, <2>6 DEF PortalRest
  <2> QED BY <1>16, <1>a, <2>2, <2>7 DEF Upserts, PortalRest
<1>17. ASSUME NEW s \in Requests, ServesDelete(s) PROVE PortalRest' /\ ReqTyped'
  <2>1. ReqTyped'
    BY <1>17, <1>k, AnswersType DEF ServesDelete, Asked
  <2>2. NoDay \in Day
    BY DEF Day
  <2>3. days' \in [Days -> Day] /\ marks' \in [Days -> SUBSET Fields]
    BY <1>17, <1>a, <2>2 DEF ServesDelete, PortalRest
  <2> QED BY <1>17, <1>a, <2>1, <2>3 DEF ServesDelete, PortalRest
<1>18. ASSUME NEW s \in Requests, Refuses(s) PROVE PortalRest' /\ ReqTyped'
  <2>1. req[s].kind # "idle"
    BY <1>18, <1>r, SentParts DEF Refuses
  <2>2. ReqTyped'
    BY <1>18, <1>k, <2>1, AnswersType DEF Refuses
  <2> QED BY <1>18, <1>a, <2>2 DEF Refuses, PortalRest
<1>19. ASSUME NEW s \in Requests, SignedIn(s) PROVE PortalRest' /\ ReqTyped'
  <2>1. req[s] \in Arriving
    BY <1>19, <1>r, SentParts DEF SignedIn, Answered
  <2>2. req[s].by \in Callers
    BY <2>1 DEF Arriving, Callers
  <2>4. cookie' \in Callers
    BY <1>19, <2>2 DEF SignedIn
  <2>3. ReqTyped'
    BY <1>19, <2>2, NewRequests, ReqGoes DEF SignedIn, Sent
  <2> QED BY <1>19, <1>a, <2>3, <2>4 DEF SignedIn, PortalRest
<1>20. ASSUME NEW s \in Requests, Renders(s) PROVE PortalRest' /\ ReqTyped'
  <2>1. req[s] \in LoginData
    BY <1>20, <1>r, SentParts DEF Renders, Answered
  <2>2. ReqTyped'
    BY <1>20, <1>i, NewRequests, ReqGoes DEF Renders, Sent
  <2>3. export' \in Data \cup {NoData} /\ signing' \in BOOLEAN
    BY <1>20, <1>a, <2>1 DEF Renders, LoginData, PortalRest
  <2>5. checked' = IF req[s].data.admin THEN req[s].data.hidden ELSE checked
    BY <1>20 DEF Renders
  <2>6. req[s].data \in Data
    BY <1>20, <2>1, <1>c DEF Renders, Answered, Given
  <2>4. checked' \in BOOLEAN
    BY <1>a, <2>5, <2>6 DEF PortalRest, Data
  <2> QED BY <1>20, <1>a, <2>2, <2>3, <2>4 DEF Renders, PortalRest
<1>21. ASSUME NEW s \in Requests, ListsEmployees(s) PROVE PortalRest' /\ ReqTyped'
  BY <1>21, <1>a, <1>i DEF ListsEmployees, PortalRest, Callers
<1>22. ASSUME NEW s \in Requests, ListsPunches(s) PROVE PortalRest' /\ ReqTyped'
  <2>1. req[s] \in Listing
    BY <1>22, <1>r, SentParts DEF ListsPunches, Answered
  <2>2. rows' \in Seq(TableRow)
    BY <1>22, <1>a, <2>1, RowsType, PortalPageAssumption
  <2>3. ReqTyped'
    BY <1>22, <1>i DEF ListsPunches
  <2> QED BY <1>22, <1>a, <2>2, <2>3 DEF ListsPunches, PortalRest
<1>23. ASSUME NEW s \in Requests, Saved(s) PROVE PortalRest' /\ ReqTyped'
  BY <1>23, <1>a, <1>i DEF Saved, PortalRest
<1>24. ASSUME NEW s \in Requests, Deleted(s) PROVE PortalRest' /\ ReqTyped'
  <2>1. req[s] \in Deleting
    BY <1>24, <1>r, SentParts DEF Deleted, Answered
  <2>2. req[s].day[1] \in Accounts
    BY <2>1 DEF Deleting, Days
  <2>3. ReqTyped' /\ odd' \subseteq Oddities
    BY <1>24, <2>2, NewRequests, ReqGoes, OddTyped DEF Deleted, Sent
  <2> QED BY <1>24, <1>a, <1>e, <2>3 DEF Deleted, PortalRest
<1>25. ASSUME NEW s \in Requests, Preferred(s) PROVE PortalRest' /\ ReqTyped'
  <2>1. ReqTyped'
    BY <1>25, <1>i DEF Preferred
  <2>2. export' \in Data \cup {NoData}
    BY <1>25, <1>a DEF Preferred, PortalRest, InPortal, Data
  <2> QED BY <1>25, <1>a, <2>1, <2>2 DEF Preferred, PortalRest
<1>26. ASSUME NEW s \in Requests, SignedOut(s) PROVE PortalRest' /\ ReqTyped'
  <2>1. ReqTyped'
    BY <1>26, <1>i DEF SignedOut
  <2>2. cookie' \in Callers /\ view' \subseteq {"login", "forgot"}
    BY <1>26, <1>a DEF SignedOut, PortalRest, Callers
  <2> QED BY <1>26, <1>a, <2>1, <2>2 DEF SignedOut, PortalRest
<1>27. ASSUME NEW s \in Requests, Fails(s) PROVE PortalRest' /\ ReqTyped'
  <2>1. ReqTyped'
    BY <1>27, <1>i DEF Fails
  <2>2. checked' \in BOOLEAN /\ signing' \in BOOLEAN
    BY <1>27, <1>a DEF Fails, PortalRest
  <2> QED BY <1>27, <1>a, <2>1, <2>2 DEF Fails, PortalRest
<1>28. CASE OthersChange
  <2>1. odd' \subseteq Oddities
    BY <1>28, OddTyped DEF OthersChange
  <2>2. PICK a \in Accounts :
          \/ admins' = (admins \ {a}) \cup ({a} \ admins) /\ hidden' = hidden /\ live' = live
          \/ hidden' = [hidden EXCEPT ![a] = ~@] /\ admins' = admins /\ live' = live
          \/ live' = live \ {a} /\ admins' = admins /\ hidden' = hidden
    BY <1>28 DEF OthersChange
  <2>3. admins' \subseteq Accounts /\ live' \subseteq Accounts /\ hidden' \in [Accounts -> BOOLEAN]
    BY <1>a, <2>2 DEF PortalRest
  <2> QED BY <1>28, <1>a, <1>b, <2>1, <2>3 DEF OthersChange, PortalRest
<1> QED BY <1>1, <1>2, <1>3, <1>4, <1>5, <1>6, <1>7, <1>8, <1>9, <1>10, <1>11, <1>12, <1>13, <1>14, <1>15,
           <1>16, <1>17, <1>18, <1>19, <1>20, <1>21, <1>22, <1>23, <1>24, <1>25, <1>26, <1>27, <1>28
        DEF PortalNext, Serves, PageShows, Clicks

-----------------------------------------------------------------------------
(* What a step makes of the requests.                                       *)

LEMMA AnswerMade ==
    ASSUME PortalTypeOK, NEW s \in Requests, req[s].kind # "idle", NEW stage \in Stages, AnswerWith(s, stage)
    PROVE  /\ req'[s].kind = req[s].kind /\ req'[s].by = req[s].by /\ req'[s].stage = stage
           /\ req[s].kind = "data" => req'[s].data = req[s].data
           /\ \A t \in Requests \ {s} : req'[t] = req[t]
<1> DEFINE x == [req[s] EXCEPT !.stage = stage]
<1>1. /\ x.kind = req[s].kind /\ x.by = req[s].by /\ x.stage = stage
      /\ req[s].kind = "data" => x.data = req[s].data
  BY RequestOf, StageSet
<1>2. Goes(s, x)
  BY DEF AnswerWith
<1> HIDE DEF x
<1>3. req'[s] = x /\ \A t \in Requests \ {s} : req'[t] = req[t]
  BY <1>2, ReqGoes
<1> QED BY <1>1, <1>3

\* The requests that a step leaves with their kind and whose they are.
SameRequest(s) == req'[s].kind = req[s].kind /\ req'[s].by = req[s].by
Others(s) == \A t \in Requests \ {s} : req'[t] = req[t]

\* The sidecar does what was asked, and the page is as it was.
LEMMA ServesMoves ==
    ASSUME PortalTypeOK, NEW s \in Requests, Serves(s)
    PROVE  /\ SameRequest(s) /\ Others(s) /\ UNCHANGED <<cookie, portalPage, odd>>
           /\ req[s].kind # "idle"
           /\ req[s].kind = "data" =>
                 req'[s].stage = "refused" \/ (req'[s].data \in Data /\ req'[s].data.of = req[s].by)
<1> USE DEF server, portalPage, SameRequest, Others
<1>k. "ok" \in Stages /\ "refused" \in Stages
  BY DEF Stages
<1>r. req[s] \in Sent
  BY RequestOf
<1>1. CASE ServesSignIn(s) \/ ServesSignOut(s) \/ ServesVisibility(s) \/ ServesDelete(s)
  <2>1. AnswerWith(s, "ok") /\ req[s].kind \in {"sign-in", "sign-out", "visibility", "delete"}
    BY <1>1 DEF ServesSignIn, ServesSignOut, ServesVisibility, ServesDelete, Asked
  <2> QED BY <1>1, <1>k, <2>1, AnswerMade
          DEF ServesSignIn, ServesSignOut, ServesVisibility, ServesDelete
<1>2. CASE ServesData(s)
  <2> DEFINE r == [req[s] EXCEPT !.stage = "ok", !.data = ExportOf(req[s].by)]
  <2>1. req[s] \in LoginData /\ req[s].by \in Accounts /\ Goes(s, r)
    BY <1>2, <1>r, SentParts DEF ServesData, Asked, PortalTypeOK
  <2>2. ExportOf(req[s].by) \in Data /\ ExportOf(req[s].by).of = req[s].by
    BY <2>1 DEF ExportOf, Data, PortalTypeOK
  <2>3. r.kind = req[s].kind /\ r.by = req[s].by /\ r.data = ExportOf(req[s].by)
    BY <2>1 DEF LoginData
  <2> HIDE DEF r
  <2>4. req'[s] = r /\ \A t \in Requests \ {s} : req'[t] = req[t]
    BY <2>1, ReqGoes
  <2> QED BY <1>2, <2>2, <2>3, <2>4 DEF ServesData, Asked
<1>3. CASE ServesLists(s)
  <2>1. CASE Asked(s, "employees") /\ AnswerWith(s, "ok")
    BY <1>3, <1>k, <2>1, AnswerMade DEF ServesLists, Asked
  <2>2. CASE Asked(s, "punches") /\ Goes(s, [req[s] EXCEPT !.stage = "ok", !.found = DatesOf(req[s].of)])
    <3>1. req[s] \in Listing
      BY <2>2, <1>r, SentParts DEF Asked
    <3> DEFINE r == [req[s] EXCEPT !.stage = "ok", !.found = DatesOf(req[s].of)]
    <3>2. r.kind = req[s].kind /\ r.by = req[s].by
      BY <3>1 DEF Listing
    <3>3. Goes(s, r)
      BY <2>2
    <3> HIDE DEF r
    <3>4. req'[s] = r /\ \A t \in Requests \ {s} : req'[t] = req[t]
      BY <3>3, ReqGoes
    <3> QED BY <1>3, <2>2, <3>2, <3>4 DEF ServesLists, Asked
  <2> QED BY <1>3, <2>1, <2>2 DEF ServesLists
<1>4. CASE ReadsSources(s)
  <2>1. req[s] \in Saving /\ req[s].kind = "save"
    BY <1>4, <1>r, SentParts DEF ReadsSources, ServesPunch, Asked
  <2> DEFINE r == [req[s] EXCEPT !.stage = "merging", !.sources = marks[req[s].day] \cup {req[s].field}]
  <2>2. r.kind = req[s].kind /\ r.by = req[s].by
    BY <2>1 DEF Saving
  <2>3. Goes(s, r)
    BY <1>4 DEF ReadsSources
  <2> HIDE DEF r
  <2>4. req'[s] = r /\ \A t \in Requests \ {s} : req'[t] = req[t]
    BY <2>3, ReqGoes
  <2> QED BY <1>4, <2>1, <2>2, <2>4 DEF ReadsSources
<1>5. CASE Upserts(s)
  <2>1. AnswerWith(s, "ok") /\ req[s].kind = "save"
    BY <1>5 DEF Upserts
  <2> QED BY <1>5, <1>k, <2>1, AnswerMade DEF Upserts
<1>6. CASE Refuses(s)
  <2>1. AnswerWith(s, "refused") /\ req[s].kind # "idle"
    BY <1>6, <1>r, SentParts DEF Refuses
  <2> QED BY <1>6, <1>k, <2>1, AnswerMade DEF Refuses
<1> QED BY <1>1, <1>2, <1>3, <1>4, <1>5, <1>6 DEF Serves

\* The request that a step of the page leaves in a slot.
LEMMA IdleKind == Idle.kind = "idle"
  BY DEF Idle

LEMMA GivenStep ==
    ASSUME PortalTypeOK, Given, [PortalNext]_portalVars
    PROVE  Given'
<1>1. ASSUME NEW s \in Requests, NEW r, Goes(s, r), ~(r.kind = "data" /\ r.stage = "ok") PROVE Given'
  BY <1>1, ReqGoes DEF Given
<1>2. req' = req => Given'
  BY DEF Given
<1>3. ASSUME NEW s \in Requests, Serves(s) PROVE Given'
  BY <1>3, ServesMoves DEF Given, SameRequest, Others
<1>4. ASSUME NEW s \in Requests, SignedIn(s) PROVE Given'
  <2>1. Goes(s, AskData(req[s].by, TRUE)) /\ AskData(req[s].by, TRUE).stage = "sent"
    BY <1>4 DEF SignedIn, AskData
  <2> QED BY <1>1, <2>1
<1>5. ASSUME NEW s \in Requests, Renders(s) PROVE Given'
  <2>1. [kind |-> "employees", by |-> cookie, stage |-> "sent"].kind = "employees"
    OBVIOUS
  <2>2. Goes(s, [kind |-> "employees", by |-> cookie, stage |-> "sent"]) \/ Goes(s, Idle)
    BY <1>5 DEF Renders
  <2> QED BY <1>1, <2>1, <2>2, IdleKind
<1>6. ASSUME NEW s \in Requests, Deleted(s) PROVE Given'
  <2>1. Goes(s, AskPunches(req[s].day[1])) /\ AskPunches(req[s].day[1]).kind = "punches"
    BY <1>6 DEF Deleted, AskPunches
  <2> QED BY <1>1, <2>1
<1>7. ASSUME NEW s \in Requests, \/ ListsEmployees(s) \/ ListsPunches(s) \/ Saved(s) \/ Preferred(s)
                                 \/ SignedOut(s) \/ Fails(s)
      PROVE  Given'
  <2>1. Goes(s, Idle)
    BY <1>7 DEF ListsEmployees, ListsPunches, Saved, Preferred, SignedOut, Fails
  <2> QED BY <1>1, <2>1, IdleKind
<1>8. ASSUME NEW s \in Requests, Clicks(s) PROVE Given'
  <2>1. ASSUME NEW r, Sends(s, r), r.stage = "sent" PROVE Given'
    BY <1>1, <2>1 DEF Sends
  <2>2. \A e \in Accounts : AskPunches(e).stage = "sent"
    BY DEF AskPunches
  <2>3. AskData(cookie, FALSE).stage = "sent"
    BY DEF AskData
  <2>4. ASSUME NEW a \in Accounts, SubmitsLogin(s, a) \/ Picks(s, a) PROVE Given'
    BY <2>1, <2>2, <2>4 DEF SubmitsLogin, Picks
  <2>5. ASSUME NEW i \in DOMAIN rows, DeletesDay(s, rows[i]) \/ \E f \in Fields : EditsTime(s, rows[i], f)
        PROVE Given'
    BY <2>1, <2>5 DEF DeletesDay, EditsTime
  <2>6. CASE SignsOut(s) \/ Toggles(s) \/ Reloads(s)
    BY <2>1, <2>3, <2>6 DEF SignsOut, Toggles, Reloads
  <2> QED BY <1>8, <2>4, <2>5, <2>6 DEF Clicks
<1>9. CASE Forgets \/ PicksNobody \/ OthersChange \/ UNCHANGED portalVars
  BY <1>2, <1>9 DEF Forgets, PicksNobody, OthersChange, portalVars
<1> QED BY <1>3, <1>4, <1>5, <1>6, <1>7, <1>8, <1>9 DEF PortalNext, PageShows

LEMMA SigningStep ==
    ASSUME PortalTypeOK, Given, Signing, [PortalNext]_portalVars, Calm({"crossing"})'
    PROVE  Signing'
<1> USE DEF portalPage, server
<1>r. \A s \in Requests : req[s] = Idle \/ req[s].kind # "idle"
  BY RequestOf, SentParts
<1>p. ~InPortal \/ (export.of = cookie /\ view = {})
  BY DEF Signing
<1>1. ASSUME NEW s \in Requests, NEW x, Goes(s, x), x.kind \notin Restoring \cup {"sign-out"},
             view' = view, cookie' = cookie, InPortal' => InPortal /\ export'.of = export.of,
             req[s] # Idle \/ InPortal
      PROVE  Signing'
  <2>1. req'[s] = x /\ \A t \in Requests \ {s} : req'[t] = req[t]
    BY <1>1, ReqGoes
  <2>2. \A t \in Requests \ {s} : req[t].kind \notin Restoring
    BY <1>1 DEF Signing
  <2>3. \A t \in Requests : req'[t].kind \notin Restoring
    BY <1>1, <2>1, <2>2
  <2>4. \A t \in Requests : req'[t].kind = "sign-out" => req[t].kind = "sign-out"
    BY <1>1, <2>1
  <2> QED BY <1>1, <2>3, <2>4 DEF Signing, Restoring
<1>2. ASSUME req' = req, view' = view, cookie' = cookie, export' = export PROVE Signing'
  BY <1>2 DEF Signing, InPortal
<1>3. ASSUME NEW s \in Requests, NEW x, Goes(s, x), Settled
      PROVE  req'[s] = x /\ \A t \in Requests \ {s} : req'[t] = Idle /\ req'[t].kind = "idle"
  BY <1>3, ReqGoes, IdleKind DEF Settled
<1>4. ASSUME IsOdd(Crossing) PROVE Settled
  BY <1>4 DEF IsOdd, Crossing, Calm
<1>5. ASSUME NEW s \in Requests, Serves(s) PROVE Signing'
  <2>1. SameRequest(s) /\ Others(s) /\ cookie' = cookie /\ view' = view /\ export' = export
    BY <1>5, ServesMoves
  <2>2. req[s].kind # "idle" /\ req[s] # Idle
    BY <1>5, ServesMoves, IdleKind
  <2>3. \A t \in Requests : req'[t].kind = req[t].kind /\ req'[t].by = req[t].by
    BY <2>1 DEF SameRequest, Others
  <2>4. ASSUME NEW t \in Requests, req'[t].kind \in Restoring
        PROVE  ~InPortal' /\ \A u \in Requests \ {t} : req'[u] = Idle
    <3>1. req[t].kind \in Restoring
      BY <2>3, <2>4
    <3>2. ~InPortal /\ \A u \in Requests \ {t} : req[u] = Idle
      BY <3>1 DEF Signing
    <3>3. s = t
      BY <2>2, <3>2
    <3> QED BY <2>1, <3>2, <3>3 DEF Others, InPortal
  <2>5. \A t \in Requests : req'[t].kind \in Restoring \cup {"sign-out"} => "forgot" \notin view'
    BY <2>1, <2>3 DEF Signing
  <2>6. ASSUME NEW t \in Requests, req'[t].kind = "data"
        PROVE  req'[t].by = cookie' /\ (req'[t].stage = "ok" => req'[t].data.of = cookie')
    <3>1. req[t].kind = "data" /\ req[t].by = cookie /\ req'[t].by = cookie'
      BY <2>1, <2>3, <2>6 DEF Signing
    <3>2. s = t
      BY <2>2, <3>1 DEF Signing, Restoring
    <3>3. req'[t].stage = "refused" \/ req'[t].data.of = req[t].by
      BY <1>5, <3>1, <3>2, ServesMoves
    <3> QED BY <2>1, <3>1, <3>3
  <2>7. InPortal' => export'.of = cookie' /\ view' = {}
    BY <1>p, <2>1 DEF InPortal
  <2>8. ~({"login", "forgot"} \subseteq view')
    BY <2>1 DEF Signing
  <2> QED BY <2>4, <2>5, <2>6, <2>7, <2>8 DEF Signing
<1>6. ASSUME NEW s \in Requests, SignedIn(s) PROVE Signing'
  <2>1. req[s].kind = "sign-in"
    BY <1>6 DEF SignedIn, Answered
  <2>2. ~InPortal /\ "forgot" \notin view /\ \A t \in Requests \ {s} : req[t] = Idle
    BY <2>1 DEF Signing, Restoring
  <2> DEFINE x == AskData(req[s].by, TRUE)
  <2>3. x.kind = "data" /\ x.by = req[s].by /\ x.stage = "sent"
    BY DEF AskData
  <2>4. Goes(s, x) /\ cookie' = req[s].by /\ view' = view /\ export' = export
    BY <1>6 DEF SignedIn
  <2> HIDE DEF x
  <2>5. req'[s] = x /\ \A t \in Requests \ {s} : req'[t] = Idle /\ req'[t].kind = "idle"
    BY <2>2, <2>4, ReqGoes, IdleKind
  <2>6. ~InPortal' /\ "forgot" \notin view'
    BY <2>2, <2>4 DEF InPortal
  <2> QED BY <2>3, <2>4, <2>5, <2>6 DEF Signing, Restoring
<1>7. ASSUME NEW s \in Requests, Renders(s) PROVE Signing'
  <2>1. req[s].kind = "data" /\ req[s].stage = "ok"
    BY <1>7 DEF Renders, Answered
  <2>2. "forgot" \notin view /\ (\A t \in Requests \ {s} : req[t] = Idle) /\ req[s].data.of = cookie
    BY <2>1 DEF Signing, Restoring
  <2>3. view' = {} /\ export'.of = cookie'
    BY <1>7, <2>2 DEF Renders, PortalTypeOK
  <2>4. PICK x : Goes(s, x) /\ x.kind \in {"idle", "employees"}
    <3>1. [kind |-> "employees", by |-> cookie, stage |-> "sent"].kind = "employees"
      OBVIOUS
    <3> QED BY <1>7, <3>1, IdleKind DEF Renders
  <2>5. req'[s] = x /\ \A t \in Requests \ {s} : req'[t].kind = "idle"
    BY <2>2, <2>4, ReqGoes, IdleKind
  <2> QED BY <2>3, <2>4, <2>5 DEF Signing, Restoring
<1>8. ASSUME NEW s \in Requests, ListsEmployees(s) \/ ListsPunches(s) \/ Saved(s) \/ Fails(s)
      PROVE  Signing'
  <2>1. /\ Goes(s, Idle) /\ view' = view /\ cookie' = cookie /\ export' = export
        /\ req[s] # Idle
    BY <1>8, IdleKind DEF ListsEmployees, ListsPunches, Saved, Fails, Answered
  <2> QED BY <1>1, <2>1, IdleKind DEF InPortal, Restoring
<1>9. ASSUME NEW s \in Requests, Preferred(s) PROVE Signing'
  <2>1. /\ Goes(s, Idle) /\ view' = view /\ cookie' = cookie /\ req[s] # Idle
        /\ export' = IF InPortal THEN [export EXCEPT !.hidden = checked] ELSE export
    BY <1>9, IdleKind DEF Preferred, Answered
  <2>2. InPortal' => InPortal /\ export'.of = export.of
    BY <2>1 DEF PortalTypeOK, InPortal, Data
  <2> QED BY <1>1, <2>1, <2>2, IdleKind DEF Restoring
<1>10. ASSUME NEW s \in Requests, Deleted(s) PROVE Signing'
  <2> DEFINE x == AskPunches(req[s].day[1])
  <2>1. /\ Goes(s, x) /\ view' = view /\ cookie' = cookie /\ export' = export
        /\ req[s] # Idle /\ x.kind = "punches"
    BY <1>10, IdleKind DEF Deleted, Answered, AskPunches
  <2> HIDE DEF x
  <2> QED BY <1>1, <2>1 DEF InPortal, Restoring
<1>11. ASSUME NEW s \in Requests, SignedOut(s) PROVE Signing'
  <2>1. req[s].kind = "sign-out" /\ Goes(s, Idle) /\ export' = NoData /\ view' = view \cup {"login"}
    BY <1>11 DEF SignedOut
  <2>2. "forgot" \notin view /\ \A t \in Requests \ {s} : req[t].kind \notin Restoring
    BY <2>1, IdleKind DEF Signing, Restoring
  <2>3. req'[s] = Idle /\ \A t \in Requests \ {s} : req'[t] = req[t]
    BY <2>1, ReqGoes
  <2>4. \A t \in Requests : req'[t].kind \notin Restoring
    BY <2>2, <2>3, IdleKind DEF Restoring
  <2>5. ~InPortal' /\ "forgot" \notin view'
    BY <2>1, <2>2 DEF InPortal
  <2> QED BY <2>4, <2>5 DEF Signing, Restoring
<1>12. ASSUME NEW s \in Requests, NEW a \in Accounts, SubmitsLogin(s, a) PROVE Signing'
  <2> DEFINE x == [kind |-> "sign-in", by |-> a, stage |-> "sent"]
  <2>1. Settled /\ "login" \in view /\ view' = view /\ export' = export /\ Goes(s, x)
    BY <1>4, <1>12 DEF SubmitsLogin, Sends
  <2>2. x.kind = "sign-in"
    OBVIOUS
  <2> HIDE DEF x
  <2>3. req'[s] = x /\ \A t \in Requests \ {s} : req'[t] = Idle /\ req'[t].kind = "idle"
    BY <1>3, <2>1
  <2>4. ~InPortal' /\ "forgot" \notin view'
    BY <2>1 DEF Signing, InPortal
  <2> QED BY <2>2, <2>3, <2>4 DEF Signing, Restoring
<1>13. CASE Forgets
  <2>1. Settled /\ req' = req /\ export' = export
    BY <1>4, <1>13 DEF Forgets
  <2>2. ~InPortal'
    BY <1>13, <1>p, <2>1 DEF Forgets, InPortal
  <2>3. \A t \in Requests : req'[t].kind = "idle"
    BY <2>1, IdleKind DEF Settled
  <2>4. ~({"login", "forgot"} \subseteq view')
    BY <1>13 DEF Forgets
  <2> QED BY <2>2, <2>3, <2>4 DEF Signing, Restoring
<1>14. ASSUME NEW s \in Requests, SignsOut(s) PROVE Signing'
  <2> DEFINE x == [kind |-> "sign-out", by |-> cookie, stage |-> "sent"]
  <2>1. Settled /\ InPortal /\ view' = view /\ export' = export /\ cookie' = cookie /\ Goes(s, x)
    BY <1>4, <1>14 DEF SignsOut, Sends
  <2>2. x.kind = "sign-out"
    OBVIOUS
  <2> HIDE DEF x
  <2>3. req'[s] = x /\ \A t \in Requests \ {s} : req'[t] = Idle /\ req'[t].kind = "idle"
    BY <1>3, <2>1
  <2> QED BY <1>p, <2>1, <2>2, <2>3 DEF Signing, Restoring
<1>15. ASSUME NEW s \in Requests, NEW x, Sends(s, x), x.kind \in {"visibility", "punches", "save", "delete"},
              InPortal, view' = view, cookie' = cookie, export' = export
       PROVE  Signing'
  <2>1. Goes(s, x) /\ InPortal' = InPortal
    BY <1>15 DEF Sends, InPortal
  <2> QED BY <1>1, <1>15, <2>1 DEF Restoring
<1>16. ASSUME NEW s \in Requests, Toggles(s) PROVE Signing'
  <2>1. [kind |-> "visibility", by |-> cookie, hidden |-> ~checked, stage |-> "sent"].kind = "visibility"
    OBVIOUS
  <2> QED BY <1>15, <1>16, <2>1 DEF Toggles, InPanel
<1>17. ASSUME NEW s \in Requests, NEW e \in Accounts, Picks(s, e) PROVE Signing'
  <2>1. AskPunches(e).kind = "punches"
    BY DEF AskPunches
  <2> QED BY <1>15, <1>17, <2>1 DEF Picks, InPanel
<1>18. ASSUME NEW s \in Requests, NEW i \in DOMAIN rows, NEW f \in Fields, EditsTime(s, rows[i], f)
       PROVE  Signing'
  <2> DEFINE x == [kind |-> "save", by |-> cookie, day |-> <<rows[i].of, rows[i].date>>, field |-> f,
                   sources |-> {}, stage |-> "sent"]
  <2>1. x.kind = "save"
    OBVIOUS
  <2>2. Sends(s, x) /\ InPortal /\ view' = view /\ cookie' = cookie /\ export' = export
    BY <1>18 DEF EditsTime, InPanel
  <2> HIDE DEF x
  <2> QED BY <1>15, <2>1, <2>2
<1>19. ASSUME NEW s \in Requests, NEW i \in DOMAIN rows, DeletesDay(s, rows[i])
       PROVE  Signing'
  <2> DEFINE x == [kind |-> "delete", by |-> cookie, day |-> <<rows[i].of, rows[i].date>>, stage |-> "sent"]
  <2>1. x.kind = "delete"
    OBVIOUS
  <2>2. Sends(s, x) /\ InPortal /\ view' = view /\ cookie' = cookie /\ export' = export
    BY <1>19 DEF DeletesDay, InPanel
  <2> HIDE DEF x
  <2> QED BY <1>15, <2>1, <2>2
<1>20. ASSUME NEW s \in Requests, Reloads(s) PROVE Signing'
  <2> DEFINE x == AskData(cookie, FALSE)
  <2>1. x.kind = "data" /\ x.by = cookie /\ x.stage = "sent"
    BY DEF AskData
  <2>2. Settled /\ Goes(s, x) /\ view' = {"login"} /\ export' = NoData /\ cookie' = cookie
    BY <1>20 DEF Reloads, Sends
  <2> HIDE DEF x
  <2>3. req'[s] = x /\ \A t \in Requests \ {s} : req'[t] = Idle /\ req'[t].kind = "idle"
    BY <1>3, <2>2
  <2>4. ~InPortal' /\ "forgot" \notin view'
    BY <2>2 DEF InPortal
  <2> QED BY <2>1, <2>2, <2>3, <2>4 DEF Signing, Restoring
<1>21. CASE PicksNobody \/ OthersChange \/ UNCHANGED portalVars
  BY <1>2, <1>21 DEF PicksNobody, OthersChange, portalVars
<1> QED BY <1>5, <1>6, <1>7, <1>8, <1>9, <1>10, <1>11, <1>12, <1>13, <1>14, <1>16, <1>17, <1>18, <1>19, <1>20, <1>21
        DEF PortalNext, PageShows, Clicks

LEMMA TableStep ==
    ASSUME PortalTypeOK, Table, [PortalNext]_portalVars, Calm({"loads"})'
    PROVE  Table'
<1> USE DEF portalPage
<1>1. ASSUME \A t \in Requests : req'[t].kind = "punches" => req[t].kind = "punches",
             rows' = rows \/ rows' = <<>>
      PROVE  Table'
  BY <1>1 DEF Table
<1>2. ASSUME NEW s \in Requests, NEW x, Goes(s, x), x.kind # "punches", rows' = rows \/ rows' = <<>>
      PROVE  Table'
  BY <1>1, <1>2, ReqGoes
<1>3. ASSUME NEW s \in Requests, NEW x, Goes(s, x), IsOdd(Loads), rows' = <<>>
      PROVE  Table'
  <2>1. \A t \in Requests : req[t].kind # "punches"
    BY <1>3 DEF IsOdd, Loads, UnderWay, Calm
  <2>2. \A t \in Requests \ {s} : req'[t] = req[t]
    BY <1>3, ReqGoes
  <2> QED BY <1>3, <2>1, <2>2 DEF Table
<1>4. ASSUME NEW s \in Requests, Serves(s) PROVE Table'
  <2>1. SameRequest(s) /\ Others(s) /\ rows' = rows
    BY <1>4, ServesMoves
  <2> QED BY <1>1, <2>1 DEF SameRequest, Others
<1>5. ASSUME NEW s \in Requests, SignedIn(s) PROVE Table'
  <2>1. Goes(s, AskData(req[s].by, TRUE)) /\ AskData(req[s].by, TRUE).kind = "data" /\ rows' = rows
    BY <1>5 DEF SignedIn, AskData
  <2> QED BY <1>2, <2>1
<1>6. ASSUME NEW s \in Requests, Renders(s) PROVE Table'
  <2>1. [kind |-> "employees", by |-> cookie, stage |-> "sent"].kind = "employees"
    OBVIOUS
  <2>2. /\ rows' = rows
        /\ Goes(s, [kind |-> "employees", by |-> cookie, stage |-> "sent"]) \/ Goes(s, Idle)
    BY <1>6 DEF Renders
  <2> QED BY <1>2, <2>1, <2>2, IdleKind
<1>7. ASSUME NEW s \in Requests, ListsPunches(s) PROVE Table'
  <2> DEFINE found == req[s].found
             e == req[s].of
  <2>1. PICK order \in [1..Cardinality(found) -> found] :
           /\ {order[i] : i \in DOMAIN order} = found
           /\ rows' = rows \o [i \in DOMAIN order |-> [of |-> e, date |-> order[i]]]
    BY <1>7 DEF ListsPunches
  <2>2. req[s].kind = "punches" /\ Goes(s, Idle)
    BY <1>7 DEF ListsPunches, Answered
  <2>3. req[s] \in Listing
    BY <2>2, RequestOf, SentParts
  <2> DEFINE n == Cardinality(found)
             more == [i \in 1..n |-> [of |-> e, date |-> order[i]]]
  <2>4. found \subseteq Dates /\ e \in Accounts
    BY <2>3 DEF Listing
  <2>5. n \in Nat /\ \A i, j \in 1..n : i # j => order[i] # order[j]
    BY <2>1, <2>4, Orders, PortalPageAssumption
  <2>6. rows = <<>>
    BY <2>2 DEF Table
  <2>7. more \in Seq(TableRow)
    <3>1. \A i \in 1..n : [of |-> e, date |-> order[i]] \in TableRow
      BY <2>1, <2>4 DEF TableRow
    <3>2. more \in [1..n -> TableRow]
      BY <3>1
    <3>3. n \in Nat
      BY <2>5
    <3> HIDE DEF n, more
    <3> QED BY <3>2, <3>3
  <2>8. rows' = <<>> \o more
    BY <2>1, <2>6
  <2>9. \A i \in 1..n : more[i].of = e /\ more[i].date = order[i]
    OBVIOUS
  <2>10. DOMAIN more = 1..n
    OBVIOUS
  <2> HIDE DEF n, e, more
  <2>11. rows' = more
    BY <2>7, <2>8
  <2>12. \A t \in Requests : req'[t].kind # "punches"
    <3>1. req'[s] = Idle /\ \A t \in Requests \ {s} : req'[t] = req[t]
      BY <2>2, ReqGoes
    <3> QED BY <2>2, <3>1, IdleKind DEF Table
  <2> QED BY <2>5, <2>9, <2>10, <2>11, <2>12 DEF Table
<1>8. ASSUME NEW s \in Requests, Deleted(s) PROVE Table'
  BY <1>3, <1>8 DEF Deleted
<1>9. ASSUME NEW s \in Requests, ListsEmployees(s) \/ Saved(s) \/ Preferred(s) \/ SignedOut(s) \/ Fails(s)
      PROVE  Table'
  <2>1. Goes(s, Idle) /\ rows' = rows
    BY <1>9 DEF ListsEmployees, Saved, Preferred, SignedOut, Fails
  <2> QED BY <1>2, <2>1, IdleKind
<1>10. ASSUME NEW s \in Requests, Clicks(s) PROVE Table'
  <2>1. ASSUME NEW x, Sends(s, x), x.kind # "punches", rows' = rows \/ rows' = <<>> PROVE Table'
    BY <1>2, <2>1 DEF Sends
  <2>2. ASSUME NEW a \in Accounts, SubmitsLogin(s, a) PROVE Table'
    <3>1. [kind |-> "sign-in", by |-> a, stage |-> "sent"].kind = "sign-in"
      OBVIOUS
    <3> QED BY <2>1, <2>2, <3>1 DEF SubmitsLogin
  <2>3. ASSUME NEW a \in Accounts, Picks(s, a) PROVE Table'
    BY <1>3, <2>3 DEF Picks, Sends
  <2>4. ASSUME NEW i \in DOMAIN rows, DeletesDay(s, rows[i]) PROVE Table'
    <3> DEFINE x == [kind |-> "delete", by |-> cookie, day |-> <<rows[i].of, rows[i].date>>, stage |-> "sent"]
    <3>1. x.kind = "delete"
      OBVIOUS
    <3>2. Sends(s, x) /\ rows' = rows
      BY <2>4 DEF DeletesDay
    <3> HIDE DEF x
    <3> QED BY <2>1, <3>1, <3>2
  <2>5. ASSUME NEW i \in DOMAIN rows, NEW f \in Fields, EditsTime(s, rows[i], f) PROVE Table'
    <3> DEFINE x == [kind |-> "save", by |-> cookie, day |-> <<rows[i].of, rows[i].date>>, field |-> f,
                     sources |-> {}, stage |-> "sent"]
    <3>1. x.kind = "save"
      OBVIOUS
    <3>2. Sends(s, x) /\ rows' = rows
      BY <2>5 DEF EditsTime
    <3> HIDE DEF x
    <3> QED BY <2>1, <3>1, <3>2
  <2>6. CASE SignsOut(s)
    <3>1. [kind |-> "sign-out", by |-> cookie, stage |-> "sent"].kind = "sign-out"
      OBVIOUS
    <3> QED BY <2>1, <2>6, <3>1 DEF SignsOut
  <2>7. CASE Toggles(s)
    <3>1. [kind |-> "visibility", by |-> cookie, hidden |-> ~checked, stage |-> "sent"].kind = "visibility"
      OBVIOUS
    <3> QED BY <2>1, <2>7, <3>1 DEF Toggles
  <2>8. CASE Reloads(s)
    <3>1. AskData(cookie, FALSE).kind = "data"
      BY DEF AskData
    <3> QED BY <2>1, <2>8, <3>1 DEF Reloads
  <2> QED BY <1>10, <2>2, <2>3, <2>4, <2>5, <2>6, <2>7, <2>8 DEF Clicks
<1>11. CASE Forgets \/ PicksNobody \/ OthersChange \/ UNCHANGED portalVars
  BY <1>1, <1>11 DEF Forgets, PicksNobody, OthersChange, portalVars
<1> QED BY <1>4, <1>5, <1>6, <1>7, <1>8, <1>9, <1>10, <1>11 DEF PortalNext, PageShows

-----------------------------------------------------------------------------
(* The theorems of the portal.                                             *)

LEMMA PortalBegins == PortalInit => PortalInv
<1> SUFFICES ASSUME PortalInit PROVE PortalInv
  OBVIOUS
<1>1. PICK s \in Requests : req = [x \in Requests |-> IF x = s THEN AskData(cookie, FALSE) ELSE Idle]
  BY DEF PortalInit
<1> DEFINE r == AskData(cookie, FALSE)
<1>2. r.kind = "data" /\ r.stage = "sent" /\ r.by = cookie
  BY DEF AskData
<1> HIDE DEF r
<1>3. req[s] = r /\ \A t \in Requests \ {s} : req[t] = Idle
  BY <1>1 DEF r
<1>4. ~InPortal /\ view = {"login"} /\ rows = <<>>
  BY DEF PortalInit, InPortal
<1>5. Given /\ Table
  BY <1>2, <1>3, <1>4, IdleKind DEF Given, Table
<1>6. Signing
  BY <1>2, <1>3, <1>4, IdleKind DEF Signing, Restoring
<1> QED BY <1>5, <1>6, PortalTypedInit DEF PortalInv

\* An oddity that has happened is not forgotten.
LEMMA OddStays == [PortalNext]_portalVars => odd \subseteq odd'
<1> SUFFICES ASSUME [PortalNext]_portalVars PROVE odd \subseteq odd'
  OBVIOUS
<1>1. \A s \in Requests : Serves(s) => odd' = odd
  BY DEF Serves, ServesSignIn, ServesSignOut, ServesData, ServesLists, ServesVisibility, ReadsSources,
         Upserts, ServesDelete, Refuses
<1>2. \A s \in Requests : PageShows(s) => odd \subseteq odd'
  BY DEF PageShows, SignedIn, Renders, ListsEmployees, ListsPunches, Saved, Deleted, Preferred,
         SignedOut, Fails, IsOdd
<1>3. \A s \in Requests : Clicks(s) => odd \subseteq odd'
  BY DEF Clicks, SubmitsLogin, Picks, DeletesDay, EditsTime, SignsOut, Toggles, Reloads, IsOdd
<1>4. Forgets \/ PicksNobody \/ OthersChange \/ UNCHANGED portalVars => odd \subseteq odd'
  BY DEF Forgets, PicksNobody, OthersChange, IsOdd, portalVars
<1> QED BY <1>1, <1>2, <1>3, <1>4 DEF PortalNext

LEMMA PortalGoesOn == PortalInv /\ [PortalNext]_portalVars => PortalInv'
<1> SUFFICES ASSUME PortalInv, [PortalNext]_portalVars PROVE PortalInv'
  OBVIOUS
<1>1. PortalTypeOK' /\ Given'
  BY PortalTypedStep, GivenStep DEF PortalInv
<1>2. \A kinds : Calm(kinds)' => Calm(kinds)
  BY OddStays DEF Calm
<1>3. ASSUME Calm({"crossing"})' PROVE Signing'
  BY <1>2, <1>3, SigningStep DEF PortalInv
<1>4. ASSUME Calm({"loads"})' PROVE Table'
  BY <1>2, <1>4, TableStep DEF PortalInv
<1> QED BY <1>1, <1>3, <1>4 DEF PortalInv

\* The inductive invariant of the portal holds in every reachable state.
THEOREM PortalInvHolds == PortalSpec => []PortalInv
  BY PortalBegins, PortalGoesOn, PTL DEF PortalSpec

\* Every reachable state of the portal, its browser and the tables behind it is well
\* typed (portal/app.ts, portal.ts).
THEOREM PortalTypeCorrect == PortalSpec => []PortalTypeOK
<1>1. PortalInv => PortalTypeOK
  BY DEF PortalInv
<1> QED BY <1>1, PortalInvHolds, PTL

\* Whose data the portal shows is who the browser is signed in as, for any number of
\* requests at once and whatever fails, as long as nobody signs in or out or forgets a
\* password while an answer is awaited (fetchData, render, logout of portal/app.ts).
THEOREM SeesOnlyOwn == PortalSpec => []SeesOwn
<1>1. PortalInv => SeesOwn
  BY DEF PortalInv, Signing, SeesOwn
<1> QED BY <1>1, PortalInvHolds, PTL

\* The table for punches holds the days of one employee, each once, unless two loads
\* overlap: a row edits and deletes the day of its own employee (loadAdminPunches).
THEOREM RowsAreOfOne == PortalSpec => []RowsOfOne
<1>1. PortalInv => RowsOfOne
  BY DEF PortalInv, Table, RowsOfOne
<1> QED BY <1>1, PortalInvHolds, PTL
=============================================================================
