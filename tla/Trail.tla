-------------------------------- MODULE Trail --------------------------------
(***************************************************************************)
(* What the audit trail promises its readers (audit.ts): a chain of        *)
(* entries that only grows at its new end, each entry naming the one       *)
(* before it, and that is only ever cut at its old end.  AuditChain        *)
(* implements it.                                                          *)
(***************************************************************************)
EXTENDS Integers

VARIABLES
    trail,      \* the entries
    top,        \* the highest number given so far
    trusted     \* the promise still holds

vars == <<trail, top, trusted>>

Init == trail = {} /\ top = 0 /\ trusted = TRUE

\* e has a new number and names the entry before it; nothing is dated after it.
Follows(e) ==
    /\ e.seq > top
    /\ \A r \in trail : r.at <= e.at /\ r.seq <= e.prev
    /\ trail # {} => \E r \in trail : r.seq = e.prev

Append ==
    /\ \E e \in trail' : trail' = trail \cup {e} /\ Follows(e) /\ top' = e.seq
    /\ UNCHANGED trusted

\* The entries that go are older than those that stay.
CutOldEnd ==
    /\ trail' \subseteq trail
    /\ \A gone \in trail \ trail', kept \in trail' : gone.seq < kept.seq
    /\ UNCHANGED <<top, trusted>>

\* Two writers at once, or a clock that is set back: nothing is promised any more.
Breaks == ~trusted'

Next == Append \/ CutOldEnd \/ Breaks

Spec == Init /\ [][Next]_vars
=============================================================================
