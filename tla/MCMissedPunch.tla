--------------------------- MODULE MCMissedPunch ---------------------------
(* MissedPunch for TLC: staff and slots are interchangeable.                *)
EXTENDS MissedPunch, TLC

Symmetry == Permutations(Slots) \cup Permutations(Staff)
=============================================================================
