---------------------------- MODULE MCPunchSync ----------------------------
(* PunchSync for TLC: the safety runs take commands, columns and days for   *)
(* interchangeable.                                                         *)
EXTENDS PunchSync, TLC

Symmetry == Permutations(Days) \cup Permutations(Fields) \cup Permutations(Commands)
=============================================================================
