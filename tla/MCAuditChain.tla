---------------------------- MODULE MCAuditChain ---------------------------
(* AuditPage over AuditChain for TLC: the sidecars are interchangeable.     *)
EXTENDS AuditPage, TLC

Symmetry == Permutations(Sidecars)
=============================================================================
