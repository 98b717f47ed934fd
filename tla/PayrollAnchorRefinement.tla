---------------------- MODULE PayrollAnchorRefinement -----------------------
(***************************************************************************)
(* PayrollAnchor implements EvidenceLog for every value of the constants:  *)
(* the commit of a CREATE transaction is Attest, that of an adjustment is  *)
(* Amend, an audit row with a verdict is Judge, and all else stutters.     *)
(***************************************************************************)
EXTENDS PayrollAnchorProofs

IsJudgement(a) ==
  a.event = "VERIFY_INTEGRITY" /\ a.status \in {"VERIFIED", "CRITICAL"}

(* What a step does to the evidence log when it adds at most an audit row. *)
LEMMA AuditRowMaps ==
  ASSUME IInv, NEW r \in AuditRows, audit' = audit \cup {r},
         UNCHANGED <<ledger, amendments>>,
         IsJudgement(r) =>
           /\ r.hash \in Hashes
           /\ ledger[r.key] # NoHash
           /\ r.status = "VERIFIED" <=> r.hash = ledger[r.key]
  PROVE  [Evidence!Next]_Evidence!vars
<1>1. Verdicts' = {<<a.key, a.hash, a.status>> :
                     a \in {b \in audit \cup {r} : IsJudgement(b)}}
  BY DEF Verdicts, IsJudgement
<1>2. Verdicts = {<<a.key, a.hash, a.status>> : a \in {b \in audit : IsJudgement(b)}}
  BY DEF Verdicts, IsJudgement
<1>3. CASE ~ IsJudgement(r)
  <2>1. {b \in audit \cup {r} : IsJudgement(b)} = {b \in audit : IsJudgement(b)}
    BY <1>3
  <2>2. Verdicts' = Verdicts
    BY <1>1, <1>2, <2>1
  <2> QED BY <2>2 DEF Evidence!vars
<1>4. CASE IsJudgement(r)
  <2>1. {b \in audit \cup {r} : IsJudgement(b)} = {b \in audit : IsJudgement(b)} \cup {r}
    BY <1>4
  <2>2. Verdicts' = Verdicts \cup {<<r.key, r.hash, r.status>>}
    BY <1>1, <1>2, <2>1
  <2>3. r.status = IF r.hash = ledger[r.key] THEN "VERIFIED" ELSE "CRITICAL"
    BY <1>4 DEF IsJudgement
  <2>4. r.key \in Payrolls /\ r.hash \in Hashes
    BY <1>4 DEF AuditRows
  <2>5. Evidence!Judge(r.key, r.hash)
    BY <1>4, <2>2, <2>3 DEF Evidence!Judge
  <2> QED BY <2>4, <2>5 DEF Evidence!Next
<1> QED BY <1>3, <1>4

LEMMA QuietMaps ==
  ASSUME UNCHANGED <<audit, ledger, amendments>>
  PROVE  [Evidence!Next]_Evidence!vars
BY DEF Evidence!vars, Verdicts

LEMMA InitMaps == Init => Evidence!Init
<1> SUFFICES ASSUME Init PROVE Evidence!Init
  OBVIOUS
<1>1. audit = {} /\ ledger = [k \in Payrolls |-> NoHash]
      /\ amendments = [k \in Payrolls |-> {}]
  BY DEF Init, SnapshotInit, LedgerInit
<1>2. Verdicts = {}
  BY <1>1 DEF Verdicts
<1> QED BY <1>1, <1>2 DEF Evidence!Init

LEMMA PayrollMaps ==
  ASSUME IInv, NEW w \in Workers, PayrollStep(w), UNCHANGED ledgerState
  PROVE  [Evidence!Next]_Evidence!vars
<1>1. CASE writePayrollBlockchainAudit(w)
  <2> DEFINE row == arg[w].row
             e == IF row.appr = "Finalized" THEN "PAYROLL_APPROVED_READY_FOR_ANCHOR"
                                            ELSE "PAYROLL_SUBMITTED_QUEUE"
             r == AuditRow(arg[w].key, e, row.bc, NoTx, computePayrollHash(row))
  <2>1. row \in Rows /\ arg[w].key \in Payrolls /\ row.appr # "None"
        /\ row.bc \in {"PENDING_APPROVAL", "PENDING"}
    BY <1>1 DEF IInv, TypeOK, Args, writePayrollBlockchainAudit, HandlerInv, EditingInv
  <2>2. computePayrollHash(row) \in Hashes
    BY <2>1, HashType
  <2>3. r \in AuditRows /\ ~ IsJudgement(r)
    BY <2>1, <2>2 DEF AuditRow, AuditRows, IsJudgement
  <2>4. audit' = audit \cup {r}
    BY <1>1 DEF writePayrollBlockchainAudit
  <2> HIDE DEF r
  <2> QED BY <2>3, <2>4, AuditRowMaps DEF ledgerState
<1>2. CASE ~ writePayrollBlockchainAudit(w)
  <2>1. UNCHANGED audit
    BY <1>2 DEF PayrollStep, submitForApproval, approve, releaseOrPay, lock,
       recordTransaction, saveCalculation, editWrite, queueRead, queueUpsert
  <2> QED BY <2>1, QuietMaps DEF ledgerState
<1> QED BY <1>1, <1>2

LEMMA AnchorMaps ==
  ASSUME IInv, NEW w \in Workers, AnchorStep(w)
  PROVE  [Evidence!Next]_Evidence!vars
<1>1. arg[w].key \in Payrolls /\ arg[w].tx \in TxIds \cup {NoTx} /\ arg[w].row \in Rows
  BY DEF IInv, TypeOK, Args
<1>2. CASE recordAnchored(w) \/ markPendingAnchor(w)
  <2>1. arg[w].row.appr = "Finalized"
    BY <1>2 DEF recordAnchored, markPendingAnchor, IInv, HandlerInv, RecordingInv, Recording
  <2>2. computePayrollHash(arg[w].row) \in Hashes
    BY <1>1, <2>1, HashType
  <2>3. ASSUME NEW s \in {"RECORDED", "PENDING_ANCHOR"}, NEW t \in TxIds \cup {NoTx},
               audit' = audit \cup {AuditRow(arg[w].key, "FINALIZE_RECORD", s, t,
                                             computePayrollHash(arg[w].row))},
               UNCHANGED <<ledger, amendments>>
        PROVE  [Evidence!Next]_Evidence!vars
    <3> DEFINE r == AuditRow(arg[w].key, "FINALIZE_RECORD", s, t,
                             computePayrollHash(arg[w].row))
    <3>1. r \in AuditRows /\ ~ IsJudgement(r)
      BY <1>1, <2>2 DEF AuditRow, AuditRows, IsJudgement
    <3>2. audit' = audit \cup {r} /\ UNCHANGED <<ledger, amendments>>
      BY <2>3
    <3> HIDE DEF r
    <3> QED BY <3>1, <3>2, AuditRowMaps
  <2> QED BY <1>1, <1>2, <2>3 DEF recordAnchored, markPendingAnchor, ledgerState
<1>3. CASE auditAdjustment(w)
  <2> DEFINE s == IF pc[w] = "receipt" THEN "RECORDED" ELSE "PENDING_ANCHOR"
             r == AuditRow(arg[w].key, "ADJUSTMENT_RECORD", s, arg[w].tx, NoHash)
  <2>1. r \in AuditRows /\ ~ IsJudgement(r)
    BY <1>1 DEF AuditRow, AuditRows, IsJudgement
  <2>2. audit' = audit \cup {r} /\ UNCHANGED <<ledger, amendments>>
    BY <1>3 DEF auditAdjustment, ledgerState
  <2> HIDE DEF r
  <2> QED BY <2>1, <2>2, AuditRowMaps
<1>4. CASE ~ (recordAnchored(w) \/ markPendingAnchor(w) \/ auditAdjustment(w))
  <2>1. UNCHANGED <<audit, ledger, amendments>>
    BY <1>4 DEF AnchorStep, startFinalize, startAdjustment, submitTransaction, OrderTx,
       gatewayReceipt, gatewayError, snapshotData, ledgerState
  <2> QED BY <2>1, QuietMaps
<1> QED BY <1>2, <1>3, <1>4

LEMMA VerifyMaps ==
  ASSUME IInv, NEW w \in Workers, VerifyStep(w)
  PROVE  [Evidence!Next]_Evidence!vars
<1> DEFINE p == arg[w].key
           h == computePayrollHash(arg[w].row)
           r(s) == AuditRow(p, "VERIFY_INTEGRITY", s, arg[w].row.tx, h)
<1>1. ASSUME NEW s \in {"VERIFIED", "CRITICAL", "FABRIC_UNAVAILABLE"},
             pc[w] \in {"verifyLocal", "verifyFabric"},
             audit' = audit \cup {r(s)}, UNCHANGED <<ledger, amendments>>,
             s \in {"VERIFIED", "CRITICAL"} =>
               ledger[p] # NoHash /\ (s = "VERIFIED" <=> h = ledger[p])
      PROVE  [Evidence!Next]_Evidence!vars
  <2>1. /\ r(s) \in AuditRows /\ r(s).key = p /\ r(s).status = s
        /\ r(s).hash = h /\ h # NoHash
    BY <1>1, VerifyRow
  <2>2. h \in Hashes
    BY <2>1 DEF AuditRows
  <2> HIDE DEF r, h, p
  <2> QED BY <1>1, <2>1, <2>2, AuditRowMaps DEF IsJudgement
<1>2. CASE verifyLocal(w)
  <2>1. PICK conf \in fetchConfirmedPayrollHash(p, arg[w].row.tx) :
          IF conf \notin {NoHash, h}
          THEN AuditVerify(p, "CRITICAL", arg[w].row.tx, h) /\ Return(w)
          ELSE /\ Goto(w, "verifyFabric", [arg[w] EXCEPT !.conf = conf])
               /\ UNCHANGED audit
    BY <1>2 DEF verifyLocal
  <2>2. p \in Payrolls /\ pc[w] = "verifyLocal" /\ UNCHANGED <<ledger, amendments>>
    BY <1>2 DEF verifyLocal, IInv, TypeOK, Args, ledgerState
  <2>3. CASE conf \notin {NoHash, h}
    <3>1. conf = ledger[p]
      BY <2>1, <2>2, <2>3, ConfirmedHash
    <3>2. audit' = audit \cup {r("CRITICAL")}
      BY <2>1, <2>3 DEF AuditVerify
    <3> QED BY <1>1, <2>2, <2>3, <3>1, <3>2
  <2>4. CASE conf \in {NoHash, h}
    BY <2>1, <2>2, <2>4, QuietMaps
  <2> QED BY <2>3, <2>4
<1>3. CASE verifyOnFabric(w)
  <2> DEFINE s == IF ledger[p] = h THEN "VERIFIED" ELSE "CRITICAL"
  <2>1. /\ pc[w] = "verifyFabric" /\ ledger[p] # NoHash /\ audit' = audit \cup {r(s)}
        /\ UNCHANGED <<ledger, amendments>>
    BY <1>3 DEF verifyOnFabric, AuditVerify, ledgerState
  <2>2. s \in {"VERIFIED", "CRITICAL"} /\ (s = "VERIFIED" <=> h = ledger[p])
    OBVIOUS
  <2> HIDE DEF s, r, h, p
  <2> QED BY <1>1, <2>1, <2>2
<1>4. CASE verifyFallback(w)
  <2> DEFINE s == IF arg[w].conf = NoHash THEN "FABRIC_UNAVAILABLE"
                  ELSE IF arg[w].conf = h THEN "VERIFIED" ELSE "CRITICAL"
  <2>1. /\ pc[w] = "verifyFabric" /\ audit' = audit \cup {r(s)}
        /\ UNCHANGED <<ledger, amendments>>
    BY <1>4 DEF verifyFallback, AuditVerify, ledgerState
  <2>2. arg[w].conf # NoHash => arg[w].conf = ledger[p] /\ arg[w].conf = h
    BY <2>1 DEF IInv, HandlerInv, VerifyingInv
  <2>3. /\ s \in {"VERIFIED", "CRITICAL", "FABRIC_UNAVAILABLE"}
        /\ s \in {"VERIFIED", "CRITICAL"} =>
             ledger[p] # NoHash /\ (s = "VERIFIED" <=> h = ledger[p])
    BY <2>2
  <2> HIDE DEF s, r, h, p
  <2> QED BY <1>1, <2>1, <2>3
<1>5. CASE \E q \in Payrolls : startVerify(w, q)
  BY <1>5, QuietMaps DEF startVerify, snapshotData, ledgerState
<1>6. ASSUME NEW q \in Payrolls, verifyRefused(w, q) PROVE [Evidence!Next]_Evidence!vars
  <2>1. PICK x : /\ x \in AuditRows /\ ~ IsJudgement(x) /\ audit' = audit \cup {x}
    <3>1. rec[q] \in Rows /\ rec[q].tx \in TxIds \cup {NoTx}
      BY DEF IInv, TypeOK, Rows
    <3>2. rec[q].appr = "Finalized" => computePayrollHash(rec[q]) \in Hashes
      BY <3>1, HashType
    <3>3. PICK s \in {"NOT_FOUND", "NOT_FINALIZED", "PENDING_ANCHOR"},
               t \in TxIds \cup {NoTx}, g \in Hashes \cup {NoHash} :
            audit' = audit \cup {AuditRow(q, "VERIFY_INTEGRITY", s, t, g)}
      BY <1>6, <3>1, <3>2 DEF verifyRefused, AuditVerify
    <3>4. /\ AuditRow(q, "VERIFY_INTEGRITY", s, t, g) \in AuditRows
          /\ ~ IsJudgement(AuditRow(q, "VERIFY_INTEGRITY", s, t, g))
      BY DEF AuditRow, AuditRows, IsJudgement
    <3> QED BY <3>3, <3>4
  <2>2. UNCHANGED <<ledger, amendments>>
    BY <1>6 DEF verifyRefused, ledgerState
  <2> QED BY <2>1, <2>2, AuditRowMaps
<1> QED BY <1>2, <1>3, <1>4, <1>5, <1>6 DEF VerifyStep

LEMMA LedgerMaps ==
  ASSUME IInv, NEW t \in TxIds, UNCHANGED snapshotVars,
         CommitRecord(t) \/ InvalidateDuplicate(t) \/ CommitAdjustment(t) \/ LoseTx(t)
  PROVE  [Evidence!Next]_Evidence!vars
<1>1. txs[t].key \in Payrolls /\ txs[t].hash \in Hashes \cup {NoHash}
  BY DEF IInv, TypeOK, LedgerTypeOK, Transactions
<1>2. UNCHANGED audit /\ Verdicts' = Verdicts
  BY DEF snapshotVars, snapshotData, Verdicts
<1>3. CASE CommitRecord(t)
  <2>1. txs[t].hash \in Hashes
    BY <1>1, <1>3 DEF CommitRecord, IInv, TxInv
  <2>2. Evidence!Attest(txs[t].key, txs[t].hash)
    BY <1>2, <1>3 DEF CommitRecord, Evidence!Attest
  <2> QED BY <1>1, <2>1, <2>2 DEF Evidence!Next
<1>4. CASE CommitAdjustment(t)
  <2>1. Evidence!Amend(txs[t].key, t)
    BY <1>2, <1>4 DEF CommitAdjustment, Evidence!Amend, IInv, TxInv
  <2> QED BY <1>1, <2>1 DEF Evidence!Next
<1>5. CASE InvalidateDuplicate(t) \/ LoseTx(t)
  BY <1>2, <1>5, QuietMaps DEF InvalidateDuplicate, LoseTx
<1> QED BY <1>3, <1>4, <1>5

LEMMA NextMaps == IInv /\ [Next]_vars => [Evidence!Next]_Evidence!vars
<1> SUFFICES ASSUME IInv, [Next]_vars PROVE [Evidence!Next]_Evidence!vars
  OBVIOUS
<1>1. ASSUME NEW w \in Workers, PayrollStep(w), UNCHANGED ledgerState
      PROVE  [Evidence!Next]_Evidence!vars
  BY <1>1, PayrollMaps
<1>2. ASSUME NEW w \in Workers, AnchorStep(w) PROVE [Evidence!Next]_Evidence!vars
  BY <1>2, AnchorMaps
<1>3. ASSUME NEW w \in Workers, VerifyStep(w) PROVE [Evidence!Next]_Evidence!vars
  BY <1>3, VerifyMaps
<1>4. ASSUME NEW w \in Workers, abort(w) PROVE [Evidence!Next]_Evidence!vars
  BY <1>4, QuietMaps DEF abort, snapshotData, ledgerState
<1>5. ASSUME LedgerStep, UNCHANGED snapshotVars PROVE [Evidence!Next]_Evidence!vars
  BY <1>5, LedgerMaps DEF LedgerStep
<1>6. ASSUME NEW p \in Payrolls, changeOutOfBand(p), UNCHANGED ledgerState
      PROVE  [Evidence!Next]_Evidence!vars
  BY <1>6, QuietMaps DEF changeOutOfBand, ledgerState
<1>7. CASE UNCHANGED vars
  BY <1>7, QuietMaps DEF vars
<1> QED BY <1>1, <1>2, <1>3, <1>4, <1>5, <1>6, <1>7 DEF Next

(* The audit log and the ledger together behave as an evidence log: every  *)
(* payroll is attested at most once, amended only after that, and judged   *)
(* only against its attestation and truly.                                 *)
THEOREM Refinement == Spec => ImplementsEvidenceLog
BY InitMaps, NextMaps, Invariance, PTL DEF Spec, ImplementsEvidenceLog, Evidence!Spec
=============================================================================
