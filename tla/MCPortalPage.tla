---------------------------- MODULE MCPortalPage -----------------------------
(* PortalPage for TLC: accounts, fields and requests are interchangeable.  *)
EXTENDS PortalPage, TLC

Symmetry == Permutations(Requests) \cup Permutations(Accounts) \cup Permutations(Fields)
                \cup Permutations(Dates)
=============================================================================
