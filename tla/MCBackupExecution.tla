-------------------------- MODULE MCBackupExecution --------------------------
(* Backup runs on small sets of processes; the automation cycles of several   *)
(* server processes are interchangeable.                                      *)
EXTENDS BackupExecution, TLC

Symmetry == Permutations(Cycles) \cup Permutations(Handlers)
=============================================================================
