---------------------------- MODULE MCWorkHours ----------------------------
(* WorkHours for TLC.                                                       *)
EXTENDS WorkHours

CONSTANT Zero   \* hours with a tolerance of 0

\* parseInt(...) || 10
ZeroIsDefault == [h \in Hours |-> IF h = Zero THEN Default ELSE h]
=============================================================================
