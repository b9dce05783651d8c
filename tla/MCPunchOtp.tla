---------------------------- MODULE MCPunchOtp ----------------------------
(* PunchOtp for TLC: slots and terminals are interchangeable.              *)
EXTENDS PunchOtp, TLC

Symmetry == Permutations(Slots) \cup Permutations(Terminals)
=============================================================================
