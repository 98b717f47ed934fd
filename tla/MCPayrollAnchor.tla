-------------------------- MODULE MCPayrollAnchor ---------------------------
(* PayrollAnchor on small instances.                                       *)
EXTENDS PayrollAnchor, TLC

Symmetry == Permutations(Workers) \cup Permutations(TxIds)

(* The audit rows no handler reads back and no property is about.          *)
Noise(a) == a.status \notin {"RECORDED", "VERIFIED", "CRITICAL"}
View == <<calc, rec, {a \in audit : ~ Noise(a)}, pc, arg, edited, tampered,
          ledger, amendments, txs>>
=============================================================================
