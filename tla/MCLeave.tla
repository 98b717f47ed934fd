------------------------------ MODULE MCLeave ------------------------------
(* Two requests of one employee, a legacy and a new one, before two        *)
(* handlers; the employee works in payroll and has a colleague there.      *)
EXTENDS Leave, TLC

Symmetry == Permutations(Handlers)
=============================================================================
