---------------------------- MODULE MCPayrollRun ----------------------------
(* Small instances of PayrollRun for TLC. *)
EXTENDS PayrollRun, TLC
CONSTANTS ana, ben, day, week, month

(* One day worked by every employee, which a week and its month both cover. *)
MCOwners == [s \in Sources |-> Employees]
MCCovers == [p \in Periods |-> Sources]
Symmetry == Permutations(Workers)
=============================================================================
