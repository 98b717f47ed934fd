-------------------------- MODULE MCRestoreWorkflow --------------------------
\* Instances of RestoreWorkflow for TLC.
EXTENDS RestoreWorkflow, TLC

CONSTANTS b1, b2, f1, f2, w1, w2, v0, r1, r2, k1, k2, payroll

mcCarries == (v0 :> {f1}) @@ (b1 :> {f1, f2}) @@ (b2 :> {f2})
mcNoFiles == [v \in Versions \cup {Base} |-> {}]
mcIncluded == [b \in Backups |-> IF b \in Rds THEN {} ELSE Modules]
mcSymmetry == UNION {Permutations(S) : S \in {{w1, w2}, {r1, r2}, {k1, k2}}}
=============================================================================
