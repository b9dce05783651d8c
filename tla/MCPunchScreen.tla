---------------------------- MODULE MCPunchScreen ----------------------------
(* PunchScreen for TLC: employees and flows are interchangeable.           *)
EXTENDS PunchScreen, TLC

Symmetry == Permutations(Flows) \cup Permutations(Employees \ NoLunch)
=============================================================================
