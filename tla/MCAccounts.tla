------------------------------ MODULE MCAccounts ------------------------------
(* Employees, logins, e-mails, terminals and slots are interchangeable.      *)
EXTENDS Accounts, TLC

Symmetry == Permutations(Employees) \cup Permutations(Logins) \cup Permutations(Emails)
            \cup Permutations(Slots)
=============================================================================
