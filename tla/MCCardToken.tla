---------------------------- MODULE MCCardToken ----------------------------
(* CardToken for TLC: chips, terminals and slots are interchangeable.       *)
EXTENDS CardToken, TLC

Symmetry ==
    Permutations(Terminals) \cup Permutations(Slots) \cup Permutations(Chips)
=============================================================================
