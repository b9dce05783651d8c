------------------------------ MODULE MCSession ------------------------------
(* Session for TLC: accounts and commands are interchangeable.              *)
EXTENDS Session, TLC

Symmetry == Permutations(Logins) \cup Permutations(Slots)
=============================================================================
