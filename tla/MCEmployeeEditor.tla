--------------------------- MODULE MCEmployeeEditor ---------------------------
(* EmployeeEditor for TLC: saves, employees and days other than today are   *)
(* interchangeable, and so are phones.                                      *)
EXTENDS EmployeeEditor, TLC

TwoKeys == <<"clock_in", "clocked_out">>
Symmetry == Permutations(Pending) \cup Permutations(Employees) \cup Permutations(Phones)
                \cup Permutations(Names)
=============================================================================
