------------------------ MODULE PayrollAnchorProofs -------------------------
(***************************************************************************)
(* Theorems about PayrollAnchor for any number of payrolls, handlers,      *)
(* transactions, edits and approvals.  The inductive invariant IInv says   *)
(* what the local variables of a handler still mean after the statements   *)
(* of other handlers ran in between.                                       *)
(***************************************************************************)
EXTENDS PayrollAnchor, TLAPS

Recording == {"submit", "wait", "receipt", "unavailable"}

(* A row that is absent has no contents.                                   *)
RowsInv ==
  \A p \in Payrolls : rec[p].appr = "None" => rec[p] = NoRow

(* A locked calculation and a finalized row carry an approval stamp.       *)
StampInv ==
  \A p \in Payrolls :
    /\ calc[p].status \in LockedStatuses => calc[p].stamp >= 1
    /\ rec[p].appr = "Finalized" => rec[p].stamp \in 1..calc[p].stamp

(* What the locals of a handler that edits, or that still owes an upsert   *)
(* or an audit row, are good for when it goes on.                          *)
EditingInv(w) ==
  /\ pc[w] \in {"recordWrite", "saveWrite"} /\ arg[w].next \in LockedStatuses =>
       calc[arg[w].key].stamp >= 1
  /\ pc[w] \in {"statusAudit", "queueUpsert"} =>
       /\ arg[w].row.appr # "None"
       /\ arg[w].row.bc \in {"PENDING_APPROVAL", "PENDING"}
  /\ pc[w] = "queueUpsert" => arg[w].row.appr = "For Approval"

(* The same for a handler on its way to or from Fabric, with the           *)
(* transaction it waits for.                                               *)
RecordingInv(w) ==
  /\ pc[w] \in Recording /\ arg[w].kind = "create" =>
       /\ arg[w].row.appr = "Finalized"
       /\ arg[w].row.stamp \in 1..calc[arg[w].key].stamp
       /\ rec[arg[w].key].appr # "None"
  /\ pc[w] \in Recording /\ arg[w].kind = "adjust" => arg[w].row = NoRow
  /\ pc[w] \in {"wait", "receipt"} =>
       /\ arg[w].tx \in TxIds
       /\ txs[arg[w].tx].kind = arg[w].kind
       /\ txs[arg[w].tx].key = arg[w].key
       /\ txs[arg[w].tx].hash = computePayrollHash(arg[w].row)
  /\ pc[w] = "receipt" => txs[arg[w].tx].st = "valid"

(* The same for a verification, with the confirmed hash it went by.        *)
VerifyingInv(w) ==
  /\ pc[w] \in {"verifyLocal", "verifyFabric"} => arg[w].row.appr = "Finalized"
  /\ pc[w] = "verifyFabric" /\ arg[w].conf # NoHash =>
       /\ arg[w].conf = ledger[arg[w].key]
       /\ arg[w].conf = computePayrollHash(arg[w].row)

HandlerInv(w) == EditingInv(w) /\ RecordingInv(w) /\ VerifyingInv(w)

(* What is ordered may be committed, and what is committed stays.          *)
TxInv ==
  \A t \in TxIds :
    /\ txs[t].kind = "create" /\ txs[t].st = "ordered" =>
         /\ txs[t].hash # NoHash
         /\ txs[t].hash.appr = "Finalized"
         /\ txs[t].hash.stamp \in 1..calc[txs[t].key].stamp
    /\ txs[t].kind = "create" /\ txs[t].st = "valid" =>
         ledger[txs[t].key] = txs[t].hash /\ txs[t].hash # NoHash
    /\ txs[t].kind = "adjust" /\ txs[t].st = "ordered" => ledger[txs[t].key] # NoHash

IInv ==
  /\ TypeOK
  /\ RowsInv
  /\ StampInv
  /\ \A w \in Workers : HandlerInv(w)
  /\ TxInv
  /\ VerdictsAgreeWithLedger
  /\ RecordedHasEvidence
  /\ OnlyApprovedAnchored

-----------------------------------------------------------------------------
(* What the operators of the model return.                                 *)

LEMMA ConstantTypes ==
  /\ NoRow \in Rows
  /\ NoHash \notin Hashes
  /\ computePayrollHash(NoRow) = NoHash
  /\ NoArg \in Args
  /\ NoArg.row = NoRow /\ NoArg.kind = "create" /\ NoArg.tx = NoTx /\ NoArg.conf = NoHash
<1>1. NoRow \in Rows
  BY BoundsAssumption DEF NoRow, Rows, Contents, Stamps, Forged
<1>2. NoHash \notin Hashes /\ computePayrollHash(NoRow) = NoHash
  BY DEF NoHash, Hashes, computePayrollHash, NoRow
<1>3. (CHOOSE p \in Payrolls : TRUE) \in Payrolls
  BY PayrollsAssumption
<1>4. NoArg \in Args
  BY <1>1, <1>3 DEF NoArg, Args, CalcStatuses
<1>5. NoArg.row = NoRow /\ NoArg.kind = "create" /\ NoArg.tx = NoTx /\ NoArg.conf = NoHash
  BY DEF NoArg
<1> QED BY <1>1, <1>2, <1>4, <1>5

(* A row that is present hashes to a hash, and keeps its approval status.  *)
LEMMA HashType ==
  ASSUME NEW row \in Rows
  PROVE  /\ row.appr # "None" => computePayrollHash(row) \in Hashes
         /\ row.appr # "None" => computePayrollHash(row) # NoHash
         /\ computePayrollHash(row).appr = row.appr
         /\ computePayrollHash(row).stamp = row.stamp
         /\ computePayrollHash(row).content = row.content
BY DEF Rows, Hashes, NoHash, computePayrollHash

LEMMA SnapshotRows ==
  ASSUME NEW c \in Calculations
  PROVE  /\ submittedRow(c) \in Rows
         /\ submittedRow(c).appr = "For Approval"
         /\ submittedRow(c).bc = "PENDING_APPROVAL"
         /\ finalizedRow(c) \in Rows
         /\ finalizedRow(c).appr = "Finalized"
         /\ finalizedRow(c).bc = "PENDING"
         /\ finalizedRow(c).stamp = c.stamp
BY BoundsAssumption
   DEF Calculations, submittedRow, finalizedRow, Rows, Contents, Stamps, Forged

(* A calculation that is edited: new figures, another status.              *)
LEMMA EditedCalculation ==
  ASSUME NEW c \in Calculations, c.content < MaxEdits,
         NEW s \in CalcStatuses
  PROVE  /\ reencoded(c, s) \in Calculations
         /\ reencoded(c, s).stamp = c.stamp
         /\ reencoded(c, s).status = s
BY BoundsAssumption DEF Calculations, reencoded

LEMMA StampedCalculation ==
  ASSUME NEW c \in Calculations, c.stamp < MaxApprovals, NEW s \in CalcStatuses
  PROVE  /\ stamped(c, s) \in Calculations
         /\ c.stamp <= stamped(c, s).stamp /\ stamped(c, s).stamp >= 1
BY BoundsAssumption DEF Calculations, stamped, Stamps

LEMMA ZeroBounds == 0 \in 0..MaxEdits /\ 0 \in Stamps
BY BoundsAssumption DEF Stamps

LEMMA FreshCalculation ==
  ASSUME NEW c \in [status : {"Draft", "For Review"}, content : {0}, stamp : {0}]
  PROVE  c \in Calculations
<1>1. 0 \in 0..MaxEdits /\ 0 \in Stamps
  BY ZeroBounds
<1>2. c.status \in CalcStatuses
  BY DEF CalcStatuses
<1> QED BY <1>1, <1>2 DEF Calculations

LEMMA StatusChange ==
  ASSUME calc \in [Payrolls -> Calculations], NEW p \in Payrolls, NEW s \in CalcStatuses,
         calc' = [calc EXCEPT ![p].status = s]
  PROVE  /\ calc' \in [Payrolls -> Calculations]
         /\ \A q \in Payrolls : calc'[q].stamp = calc[q].stamp
         /\ \A q \in Payrolls : calc[q].stamp <= calc'[q].stamp
         /\ \A q \in Payrolls : calc'[q].status = IF q = p THEN s ELSE calc[q].status
<1>1. [calc[p] EXCEPT !.status = s] \in Calculations
  BY DEF Calculations
<1>2. calc' \in [Payrolls -> Calculations]
  BY <1>1
<1>3. \A q \in Payrolls : calc'[q].stamp = calc[q].stamp
  BY DEF Calculations
<1>4. \A q \in Payrolls : calc'[q].status = IF q = p THEN s ELSE calc[q].status
  BY DEF Calculations
<1>5. \A q \in Payrolls : calc[q].stamp \in Nat
  BY BoundsAssumption DEF Calculations, Stamps
<1> QED BY <1>2, <1>3, <1>4, <1>5

(* The upsert leaves a RECORDED row alone and stores no RECORDED row.      *)
LEMMA UpsertedRow ==
  ASSUME NEW old \in Rows, NEW row \in Rows
  PROVE  /\ upsertedRow(old, row) \in Rows
         /\ old.bc = "RECORDED" => upsertedRow(old, row) = old
         /\ old.bc # "RECORDED" =>
              /\ upsertedRow(old, row).bc = row.bc
              /\ upsertedRow(old, row).appr = row.appr
              /\ upsertedRow(old, row).stamp = row.stamp
              /\ upsertedRow(old, row).content = row.content
BY DEF upsertedRow, Rows

(* Goto moves the handler of w and no other.                               *)
LEMMA GotoStep ==
  ASSUME pc \in [Workers -> Labels], arg \in [Workers -> Args],
         NEW w \in Workers, NEW l \in Labels, NEW a \in Args,
         Goto(w, l, a)
  PROVE  /\ pc' \in [Workers -> Labels]
         /\ arg' \in [Workers -> Args]
         /\ pc'[w] = l
         /\ arg'[w] = a
         /\ \A v \in Workers : v # w => pc'[v] = pc[v] /\ arg'[v] = arg[v]
BY DEF Goto

LEMMA ReturnStep ==
  ASSUME pc \in [Workers -> Labels], arg \in [Workers -> Args],
         NEW w \in Workers, Return(w)
  PROVE  /\ pc' \in [Workers -> Labels]
         /\ arg' \in [Workers -> Args]
         /\ pc'[w] = "idle"
         /\ arg'[w] = NoArg
         /\ \A v \in Workers : v # w => pc'[v] = pc[v] /\ arg'[v] = arg[v]
<1>1. "idle" \in Labels
  BY DEF Labels
<1> QED BY <1>1, ConstantTypes, GotoStep DEF Return

(* The audit row a status update still has to insert.                      *)
LEMMA PendingAuditType ==
  ASSUME NEW p \in Payrolls, NEW row \in Rows
  PROVE  /\ PendingAudit(p, row) \in Args
         /\ PendingAudit(p, row).key = p
         /\ PendingAudit(p, row).row = row
         /\ PendingAudit(p, row).next = NoArg.next
BY ConstantTypes DEF PendingAudit, Args
-----------------------------------------------------------------------------
(* Frames: what a step keeps of the invariant because of what it leaves    *)
(* alone.                                                                  *)

(* Rows are never deleted and approval stamps never go back.               *)
Grows ==
  \A p \in Payrolls :
    /\ rec[p].appr # "None" => rec'[p].appr # "None"
    /\ calc[p].stamp \in Nat /\ calc'[p].stamp \in Nat
    /\ calc[p].stamp <= calc'[p].stamp

LEMMA OtherHandlers ==
  ASSUME IInv, TypeOK', Grows, NEW v \in Workers,
         pc'[v] = pc[v], arg'[v] = arg[v], ledger' = ledger, txs' = txs
  PROVE  HandlerInv(v)'
<1>1. /\ arg[v].key \in Payrolls
      /\ calc[arg[v].key].stamp \in Nat /\ calc'[arg[v].key].stamp \in Nat
      /\ calc[arg[v].key].stamp <= calc'[arg[v].key].stamp
  BY DEF IInv, TypeOK, Args, Grows
<1>2. EditingInv(v)'
  <2>1. EditingInv(v)
    BY DEF IInv, HandlerInv
  <2>2. calc[arg[v].key].stamp >= 1 => calc'[arg[v].key].stamp >= 1
    BY <1>1
  <2> QED BY <2>1, <2>2 DEF EditingInv
<1>3. RecordingInv(v)'
  BY <1>1 DEF IInv, HandlerInv, RecordingInv, Grows, computePayrollHash
<1>4. VerifyingInv(v)'
  BY DEF IInv, HandlerInv, VerifyingInv, computePayrollHash
<1> QED BY <1>2, <1>3, <1>4 DEF HandlerInv

LEMMA LedgerFrame ==
  ASSUME IInv, Grows, ledger' = ledger, txs' = txs
  PROVE  TxInv' /\ OnlyApprovedAnchored'
<1>1. \A t \in TxIds : txs[t].key \in Payrolls /\ txs[t] \in Transactions
  BY DEF IInv, TypeOK, LedgerTypeOK, Transactions
<1>2. TxInv'
  <2> SUFFICES ASSUME NEW t \in TxIds
               PROVE txs[t].kind = "create" /\ txs[t].st = "ordered" /\ txs[t].hash.appr = "Finalized"
                       => (txs[t].hash.stamp \in 1..calc[txs[t].key].stamp =>
                           txs[t].hash.stamp \in 1..calc'[txs[t].key].stamp)
    BY DEF IInv, TxInv
  <2> QED BY <1>1 DEF Grows
<1>3. OnlyApprovedAnchored'
  BY DEF IInv, OnlyApprovedAnchored, Grows
<1> QED BY <1>2, <1>3

(* A step that adds no verdict keeps the agreement of the audit log.       *)
LEMMA AuditFrame ==
  ASSUME IInv, NEW a, audit' \subseteq audit \cup {a}, ledger' = ledger,
         IsVerdict(a) =>
           /\ a.status \in {"RECORDED", "VERIFIED"} =>
                a.hash = ledger[a.key] /\ a.hash # NoHash
           /\ a.status = "CRITICAL" => ledger[a.key] \notin {a.hash, NoHash}
  PROVE  VerdictsAgreeWithLedger'
BY DEF IInv, VerdictsAgreeWithLedger, IsVerdict

(* The evidence for rows that stay as they were.                           *)
LEMMA EvidenceFrame ==
  ASSUME IInv, audit \subseteq audit', ledger' = ledger,
         \A p \in Payrolls : rec'[p].bc = "RECORDED" =>
           rec[p].bc = "RECORDED" /\ rec'[p].tx = rec[p].tx
  PROVE  RecordedHasEvidence'
BY DEF IInv, RecordedHasEvidence

(* A step of the handler of w that leaves rows, audit log and ledger.      *)
LEMMA LocalStep ==
  ASSUME IInv, NEW w \in Workers, NEW l \in Labels, NEW a \in Args, Goto(w, l, a),
         pc'[w] = l /\ arg'[w] = a => HandlerInv(w)',
         calc' \in [Payrolls -> Calculations],
         edited' \in SUBSET Payrolls,
         \A p \in Payrolls : calc[p].stamp <= calc'[p].stamp,
         \A p \in Payrolls : calc'[p].status \in LockedStatuses => calc'[p].stamp >= 1,
         UNCHANGED <<rec, audit, tampered, ledger, amendments, txs>>
  PROVE  IInv'
<1>1. /\ pc' \in [Workers -> Labels] /\ arg' \in [Workers -> Args]
      /\ pc'[w] = l /\ arg'[w] = a
      /\ \A v \in Workers : v # w => pc'[v] = pc[v] /\ arg'[v] = arg[v]
  BY GotoStep DEF IInv, TypeOK
<1>2. TypeOK'
  BY <1>1 DEF IInv, TypeOK, LedgerTypeOK
<1>3. Grows
  BY BoundsAssumption DEF Grows, IInv, TypeOK, Calculations, Stamps
<1>4. RowsInv'
  BY DEF IInv, RowsInv
<1>5. StampInv'
  <2> SUFFICES ASSUME NEW p \in Payrolls, rec[p].appr = "Finalized"
               PROVE  rec[p].stamp \in 1..calc'[p].stamp
    BY DEF StampInv
  <2>1. rec[p].stamp \in 1..calc[p].stamp
    BY DEF IInv, StampInv
  <2> QED BY <2>1, <1>3 DEF Grows
<1>6. \A v \in Workers : HandlerInv(v)'
  BY <1>1, <1>2, <1>3, OtherHandlers
<1>7. TxInv' /\ OnlyApprovedAnchored'
  BY <1>3, LedgerFrame
<1>8. VerdictsAgreeWithLedger' /\ RecordedHasEvidence'
  BY DEF IInv, VerdictsAgreeWithLedger, RecordedHasEvidence
<1> QED BY <1>2, <1>4, <1>5, <1>6, <1>7, <1>8 DEF IInv

(* A step of the handler of w that only changes its own locals.            *)
LEMMA QuietStep ==
  ASSUME IInv, NEW w \in Workers, NEW l \in Labels, NEW a \in Args, Goto(w, l, a),
         pc'[w] = l /\ arg'[w] = a => HandlerInv(w)',
         UNCHANGED <<snapshotData, ledgerState>>
  PROVE  IInv'
<1>1. UNCHANGED <<calc, rec, audit, edited, tampered, ledger, amendments, txs>>
  BY DEF snapshotData, ledgerState
<1>2. \A p \in Payrolls : calc[p].stamp \in Nat
  BY BoundsAssumption DEF IInv, TypeOK, Calculations, Stamps
<1>3. \A p \in Payrolls : calc[p].status \in LockedStatuses => calc[p].stamp >= 1
  BY DEF IInv, StampInv
<1>4. calc \in [Payrolls -> Calculations] /\ edited \in SUBSET Payrolls
  BY DEF IInv, TypeOK
<1> QED BY <1>1, <1>2, <1>3, <1>4, LocalStep

LEMMA QuietReturn ==
  ASSUME IInv, NEW w \in Workers, Return(w), UNCHANGED <<snapshotData, ledgerState>>
  PROVE  IInv'
<1>1. "idle" \in Labels /\ NoArg \in Args /\ Goto(w, "idle", NoArg)
  BY ConstantTypes DEF Labels, Return
<1>2. pc'[w] = "idle" => HandlerInv(w)'
  BY DEF HandlerInv, EditingInv, RecordingInv, VerifyingInv, Recording
<1> QED BY <1>1, <1>2, QuietStep

(* A step of the handler of w that stores a snapshot.                      *)
LEMMA UpsertStep ==
  ASSUME IInv, NEW w \in Workers, NEW a \in Args, Goto(w, "statusAudit", a),
         a.row.appr # "None", a.row.bc \in {"PENDING_APPROVAL", "PENDING"},
         NEW p \in Payrolls, upsertRecord(p, a.row),
         a.row.appr = "Finalized" => a.row.stamp \in 1..calc'[p].stamp,
         calc' \in [Payrolls -> Calculations],
         \A q \in Payrolls : calc[q].stamp <= calc'[q].stamp,
         \A q \in Payrolls : calc'[q].status \in LockedStatuses => calc'[q].stamp >= 1,
         UNCHANGED <<audit, edited, tampered, ledger, amendments, txs>>
  PROVE  IInv'
<1> DEFINE row == upsertedRow(rec[p], a.row)
<1>1. /\ pc' \in [Workers -> Labels] /\ arg' \in [Workers -> Args]
      /\ pc'[w] = "statusAudit" /\ arg'[w] = a
      /\ \A v \in Workers : v # w => pc'[v] = pc[v] /\ arg'[v] = arg[v]
  <2>1. "statusAudit" \in Labels
    BY DEF Labels
  <2> QED BY <2>1, GotoStep DEF IInv, TypeOK
<1>2. rec[p] \in Rows /\ a.row \in Rows
  BY DEF IInv, TypeOK, Args
<1>3. /\ row \in Rows
      /\ rec[p].bc = "RECORDED" => row = rec[p]
      /\ rec[p].bc # "RECORDED" => /\ row.bc = a.row.bc
                                   /\ row.appr = a.row.appr
                                   /\ row.stamp = a.row.stamp
  BY <1>2, UpsertedRow
<1>4. rec' = [rec EXCEPT ![p] = row]
  BY DEF upsertRecord
<1> HIDE DEF row
<1>5. rec' \in [Payrolls -> Rows] /\ rec'[p] = row
      /\ \A q \in Payrolls : q # p => rec'[q] = rec[q]
  BY <1>3, <1>4 DEF IInv, TypeOK
<1>6. TypeOK'
  BY <1>1, <1>5 DEF IInv, TypeOK, LedgerTypeOK
<1>7. NoRow.bc = "NONE"
  BY DEF NoRow
<1>8. row.appr # "None"
  BY <1>3, <1>7 DEF IInv, RowsInv, NoRow
<1>9. Grows
  BY <1>5, <1>8, BoundsAssumption DEF Grows, IInv, TypeOK, Calculations, Stamps
<1>10. RowsInv'
  BY <1>5, <1>8 DEF IInv, RowsInv
<1>11. StampInv'
  <2> SUFFICES ASSUME NEW q \in Payrolls, rec'[q].appr = "Finalized"
               PROVE  rec'[q].stamp \in 1..calc'[q].stamp
    BY DEF StampInv
  <2>1. rec[q].appr = "Finalized" => rec[q].stamp \in 1..calc'[q].stamp
    <3>1. rec[q].appr = "Finalized" => rec[q].stamp \in 1..calc[q].stamp
      BY DEF IInv, StampInv
    <3> QED BY <3>1, <1>9 DEF Grows
  <2> QED BY <2>1, <1>3, <1>5
<1>12. HandlerInv(w)'
  BY <1>1 DEF HandlerInv, EditingInv, RecordingInv, VerifyingInv, Recording
<1>13. \A v \in Workers : HandlerInv(v)'
  BY <1>1, <1>6, <1>9, <1>12, OtherHandlers
<1>14. TxInv' /\ OnlyApprovedAnchored'
  BY <1>9, LedgerFrame
<1>15. RecordedHasEvidence'
  BY <1>3, <1>5, EvidenceFrame
<1>16. VerdictsAgreeWithLedger'
  BY DEF IInv, VerdictsAgreeWithLedger
<1> QED BY <1>6, <1>10, <1>11, <1>13, <1>14, <1>15, <1>16 DEF IInv

(* A step of the handler of w that ends with an audit row, and nothing else.*)
LEMMA AuditStep ==
  ASSUME IInv, NEW w \in Workers, Return(w) \/ UNCHANGED <<pc, arg>>,
         NEW r \in AuditRows, audit' = audit \cup {r},
         IsVerdict(r) =>
           /\ r.status \in {"RECORDED", "VERIFIED"} =>
                r.hash = ledger[r.key] /\ r.hash # NoHash
           /\ r.status = "CRITICAL" => ledger[r.key] \notin {r.hash, NoHash},
         UNCHANGED <<calc, rec, edited, tampered, ledger, amendments, txs>>
  PROVE  IInv'
<1>1. /\ pc' \in [Workers -> Labels] /\ arg' \in [Workers -> Args]
      /\ pc'[w] = "idle" \/ (pc'[w] = pc[w] /\ arg'[w] = arg[w])
      /\ \A v \in Workers : v # w => pc'[v] = pc[v] /\ arg'[v] = arg[v]
  BY ReturnStep DEF IInv, TypeOK
<1>2. TypeOK'
  BY <1>1 DEF IInv, TypeOK, LedgerTypeOK
<1>3. Grows
  BY BoundsAssumption DEF Grows, IInv, TypeOK, Calculations, Stamps
<1>4. pc'[w] = "idle" => HandlerInv(w)'
  BY DEF HandlerInv, EditingInv, RecordingInv, VerifyingInv, Recording
<1>5. \A v \in Workers : HandlerInv(v)'
  BY <1>1, <1>2, <1>3, <1>4, OtherHandlers
<1>6. TxInv' /\ OnlyApprovedAnchored'
  BY <1>3, LedgerFrame
<1>7. RecordedHasEvidence'
  BY EvidenceFrame
<1>8. VerdictsAgreeWithLedger'
  BY AuditFrame
<1>9. RowsInv' /\ StampInv'
  BY DEF IInv, RowsInv, StampInv
<1> QED BY <1>2, <1>5, <1>6, <1>7, <1>8, <1>9 DEF IInv

-----------------------------------------------------------------------------
(* The handlers of payroll.js.                                             *)

LEMMA recordTransactionStep ==
  ASSUME IInv, NEW w \in Workers, NEW p \in Payrolls, recordTransaction(w, p),
         UNCHANGED ledgerState
  PROVE  IInv'
<1>1. PICK requested \in {"Draft", "Submitted"} :
        Goto(w, "recordWrite",
             [NoArg EXCEPT !.key = p,
                           !.next = IF calc[p].status = "Draft" THEN requested
                                                                ELSE calc[p].status])
  BY DEF recordTransaction
<1> DEFINE a == [NoArg EXCEPT !.key = p,
                              !.next = IF calc[p].status = "Draft" THEN requested
                                                                   ELSE calc[p].status]
<1>2. calc[p].status \in CalcStatuses
  BY DEF IInv, TypeOK, Calculations
<1>3. a \in Args /\ a.key = p /\ (a.next \in LockedStatuses => a.next = calc[p].status)
  BY <1>2, ConstantTypes DEF Args, CalcStatuses, LockedStatuses
<1>4. Goto(w, "recordWrite", a) /\ "recordWrite" \in Labels
  BY <1>1 DEF Labels
<1> HIDE DEF a
<1>5. UNCHANGED <<snapshotData, ledgerState>>
  BY DEF recordTransaction, snapshotData
<1>6. pc'[w] = "recordWrite" /\ arg'[w] = a => HandlerInv(w)'
  BY <1>3, <1>5 DEF HandlerInv, EditingInv, RecordingInv, VerifyingInv, Recording,
     IInv, StampInv, snapshotData
<1> QED BY <1>3, <1>4, <1>5, <1>6, QuietStep

LEMMA saveCalculationStep ==
  ASSUME IInv, NEW w \in Workers, NEW p \in Payrolls, saveCalculation(w, p),
         UNCHANGED ledgerState
  PROVE  IInv'
<1>1. PICK requested \in {"Draft", "Submitted"} :
        Goto(w, "saveWrite", [NoArg EXCEPT !.key = p, !.next = requested])
  BY DEF saveCalculation
<1> DEFINE a == [NoArg EXCEPT !.key = p, !.next = requested]
<1>2. a \in Args /\ a.next \notin LockedStatuses
  BY ConstantTypes DEF Args, CalcStatuses, LockedStatuses
<1>3. Goto(w, "saveWrite", a) /\ "saveWrite" \in Labels
  BY <1>1 DEF Labels
<1> HIDE DEF a
<1>4. UNCHANGED <<snapshotData, ledgerState>>
  BY DEF saveCalculation, snapshotData
<1>5. pc'[w] = "saveWrite" /\ arg'[w] = a => HandlerInv(w)'
  BY <1>2 DEF HandlerInv, EditingInv, RecordingInv, VerifyingInv, Recording
<1> QED BY <1>2, <1>3, <1>4, <1>5, QuietStep

LEMMA editWriteStep ==
  ASSUME IInv, NEW w \in Workers, editWrite(w), UNCHANGED ledgerState
  PROVE  IInv'
<1> DEFINE p == arg[w].key
           a == [NoArg EXCEPT !.key = arg[w].key]
<1>1. p \in Payrolls /\ arg[w].next \in CalcStatuses
  BY DEF IInv, TypeOK, Args
<1> DEFINE new == reencoded(calc[p], arg[w].next)
<1>2. calc[p] \in Calculations /\ calc[p].content < MaxEdits
      /\ calc' = [calc EXCEPT ![p] = new]
  BY <1>1 DEF editWrite, IInv, TypeOK
<1>3. /\ new \in Calculations /\ calc' \in [Payrolls -> Calculations]
      /\ new.stamp = calc[p].stamp /\ new.status = arg[w].next
  <2>1. new \in Calculations /\ new.stamp = calc[p].stamp /\ new.status = arg[w].next
    BY <1>1, <1>2, EditedCalculation
  <2> QED BY <1>1, <1>2, <2>1 DEF IInv, TypeOK
<1>4. \A q \in Payrolls : /\ calc'[q].stamp = calc[q].stamp /\ calc[q].stamp \in Nat
                          /\ q # p => calc'[q] = calc[q]
  BY <1>1, <1>2, <1>3, BoundsAssumption DEF IInv, TypeOK, Calculations, Stamps
<1>5. calc'[p].status = arg[w].next
  BY <1>1, <1>2, <1>3 DEF IInv, TypeOK
<1>6. \A q \in Payrolls : calc'[q].status \in LockedStatuses => calc'[q].stamp >= 1
  BY <1>1, <1>4, <1>5 DEF IInv, StampInv, HandlerInv, EditingInv, editWrite
<1>7. edited' \in SUBSET Payrolls
  BY <1>1 DEF editWrite, IInv, TypeOK
<1>8. UNCHANGED <<rec, audit, tampered, ledger, amendments, txs>>
  BY DEF editWrite, ledgerState
<1>9. a \in Args /\ NoArg \in Args /\ "queueRead" \in Labels /\ "idle" \in Labels
  BY <1>1, ConstantTypes DEF Args, Labels
<1>10. Goto(w, "queueRead", a) \/ Goto(w, "idle", NoArg)
  BY DEF editWrite, Return
<1>11. pc'[w] \in {"queueRead", "idle"} => HandlerInv(w)'
  BY DEF HandlerInv, EditingInv, RecordingInv, VerifyingInv, Recording
<1> HIDE DEF a, p
<1> QED BY <1>3, <1>4, <1>6, <1>7, <1>8, <1>9, <1>10, <1>11, LocalStep

LEMMA queueReadStep ==
  ASSUME IInv, NEW w \in Workers, queueRead(w), UNCHANGED ledgerState
  PROVE  IInv'
<1> DEFINE c == calc[arg[w].key]
           a == [arg[w] EXCEPT !.row = submittedRow(c)]
<1>1. c \in Calculations /\ arg[w] \in Args
  BY DEF IInv, TypeOK, Args
<1>2. submittedRow(c) \in Rows /\ submittedRow(c).appr = "For Approval"
      /\ submittedRow(c).bc = "PENDING_APPROVAL"
  BY <1>1, SnapshotRows
<1>3. a \in Args /\ a.row = submittedRow(c)
  BY <1>1, <1>2 DEF Args
<1>4. UNCHANGED <<snapshotData, ledgerState>>
  BY DEF queueRead, snapshotData
<1>5. Goto(w, "queueUpsert", a) \/ Return(w)
  BY DEF queueRead
<1> HIDE DEF a, c
<1>6. CASE Goto(w, "queueUpsert", a)
  <2>1. "queueUpsert" \in Labels
    BY DEF Labels
  <2>2. pc'[w] = "queueUpsert" /\ arg'[w] = a => HandlerInv(w)'
    BY <1>2, <1>3 DEF HandlerInv, EditingInv, RecordingInv, VerifyingInv, Recording
  <2> QED BY <1>3, <1>4, <1>6, <2>1, <2>2, QuietStep
<1>7. CASE Return(w)
  BY <1>4, <1>7, QuietReturn
<1> QED BY <1>5, <1>6, <1>7

LEMMA submitForApprovalStep ==
  ASSUME IInv, NEW w \in Workers, NEW p \in Payrolls, submitForApproval(w, p),
         UNCHANGED ledgerState
  PROVE  IInv'
<1> DEFINE row == submittedRow(calc[p])
           a   == PendingAudit(p, row)
<1>1. calc[p] \in Calculations
  BY DEF IInv, TypeOK
<1>2. row \in Rows /\ row.appr = "For Approval" /\ row.bc = "PENDING_APPROVAL"
  BY <1>1, SnapshotRows
<1>3. a \in Args /\ a.row = row
  BY <1>2, PendingAuditType
<1>4. Goto(w, "statusAudit", a) /\ upsertRecord(p, a.row)
  BY <1>3 DEF submitForApproval
<1>5. calc' = [calc EXCEPT ![p].status = "For Approval"]
  BY DEF submitForApproval
<1>6. /\ calc' \in [Payrolls -> Calculations]
      /\ \A q \in Payrolls : calc'[q].stamp = calc[q].stamp
      /\ \A q \in Payrolls : calc[q].stamp <= calc'[q].stamp
      /\ \A q \in Payrolls :
           calc'[q].status = IF q = p THEN "For Approval" ELSE calc[q].status
  BY <1>5, StatusChange DEF IInv, TypeOK, CalcStatuses
<1>7. \A q \in Payrolls : calc'[q].status \in LockedStatuses => calc'[q].stamp >= 1
  BY <1>6 DEF IInv, StampInv, LockedStatuses
<1>8. UNCHANGED <<audit, edited, tampered, ledger, amendments, txs>>
  BY DEF submitForApproval, ledgerState
<1> HIDE DEF a, row
<1> QED BY <1>2, <1>3, <1>4, <1>6, <1>7, <1>8, UpsertStep

LEMMA approveStep ==
  ASSUME IInv, NEW w \in Workers, NEW p \in Payrolls, approve(w, p),
         UNCHANGED ledgerState
  PROVE  IInv'
<1> DEFINE c   == stamped(calc[p], "Approved")
           row == finalizedRow(c)
           a   == PendingAudit(p, row)
<1>1. c \in Calculations /\ calc[p].stamp <= c.stamp /\ c.stamp >= 1
  BY StampedCalculation DEF IInv, TypeOK, approve, CalcStatuses
<1>2. row \in Rows /\ row.appr = "Finalized" /\ row.bc = "PENDING" /\ row.stamp = c.stamp
  BY <1>1, SnapshotRows
<1>3. a \in Args /\ a.row = row
  BY <1>2, PendingAuditType
<1>4. Goto(w, "statusAudit", a) /\ upsertRecord(p, a.row)
      /\ calc' = [calc EXCEPT ![p] = c]
  BY <1>3 DEF approve
<1>5. UNCHANGED <<audit, edited, tampered, ledger, amendments, txs>>
  BY DEF approve, ledgerState
<1> HIDE DEF a, row, c
<1>6. /\ calc' \in [Payrolls -> Calculations]
      /\ calc'[p] = c
      /\ \A q \in Payrolls : q # p => calc'[q] = calc[q]
  BY <1>1, <1>4 DEF IInv, TypeOK
<1>7. \A q \in Payrolls : calc[q].stamp \in Nat
  BY BoundsAssumption DEF IInv, TypeOK, Calculations, Stamps
<1>8. c.stamp \in Nat
  BY <1>1, BoundsAssumption DEF Calculations, Stamps
<1>9. \A q \in Payrolls : calc[q].stamp <= calc'[q].stamp
  BY <1>1, <1>6, <1>7
<1>10. \A q \in Payrolls : calc'[q].status \in LockedStatuses => calc'[q].stamp >= 1
  BY <1>1, <1>6 DEF IInv, StampInv
<1>11. a.row.stamp \in 1..calc'[p].stamp
  BY <1>1, <1>2, <1>3, <1>6, <1>8
<1> QED BY <1>2, <1>3, <1>4, <1>5, <1>6, <1>9, <1>10, <1>11, UpsertStep

LEMMA releaseOrPayStep ==
  ASSUME IInv, NEW w \in Workers, NEW p \in Payrolls, releaseOrPay(w, p),
         UNCHANGED ledgerState
  PROVE  IInv'
<1> DEFINE row == finalizedRow(calc[p])
           a   == PendingAudit(p, row)
<1>1. calc[p] \in Calculations /\ calc[p].stamp \in Nat
  BY BoundsAssumption DEF IInv, TypeOK, Calculations, Stamps
<1>2. row \in Rows /\ row.appr = "Finalized" /\ row.bc = "PENDING"
      /\ row.stamp = calc[p].stamp
  BY <1>1, SnapshotRows
<1>3. a \in Args /\ a.row = row
  BY <1>2, PendingAuditType
<1>4. Goto(w, "statusAudit", a) /\ upsertRecord(p, a.row)
  BY <1>3 DEF releaseOrPay
<1>5. PICK to \in {"Released", "Paid"} :
        /\ <<calc[p].status, to>> \in Transitions
        /\ calc' = [calc EXCEPT ![p].status = to]
  BY DEF releaseOrPay
<1>6. calc[p].stamp >= 1
  <2>1. calc[p].status \in {"Approved", "Released"}
    BY <1>5 DEF Transitions
  <2> QED BY <2>1 DEF IInv, StampInv, LockedStatuses
<1>7. /\ calc' \in [Payrolls -> Calculations]
      /\ \A q \in Payrolls : calc'[q].stamp = calc[q].stamp
      /\ \A q \in Payrolls : calc[q].stamp <= calc'[q].stamp
      /\ \A q \in Payrolls : calc'[q].status = IF q = p THEN to ELSE calc[q].status
  <2>1. to \in CalcStatuses /\ calc \in [Payrolls -> Calculations]
           /\ calc' = [calc EXCEPT ![p].status = to]
    BY <1>5 DEF CalcStatuses, IInv, TypeOK
  <2> QED BY <2>1, StatusChange
<1>8. \A q \in Payrolls : calc'[q].status \in LockedStatuses => calc'[q].stamp >= 1
  BY <1>6, <1>7 DEF IInv, StampInv
<1>9. UNCHANGED <<audit, edited, tampered, ledger, amendments, txs>>
  BY DEF releaseOrPay, ledgerState
<1> HIDE DEF a, row
<1>10. a.row.stamp \in 1..calc'[p].stamp
  BY <1>1, <1>2, <1>3, <1>6, <1>7
<1> QED BY <1>2, <1>3, <1>4, <1>7, <1>8, <1>9, <1>10, UpsertStep

LEMMA queueUpsertStep ==
  ASSUME IInv, NEW w \in Workers, queueUpsert(w), UNCHANGED ledgerState
  PROVE  IInv'
<1> DEFINE a == arg[w]
<1>1. a \in Args /\ a.key \in Payrolls
  BY DEF IInv, TypeOK, Args
<1>2. a.row.appr = "For Approval" /\ a.row.bc \in {"PENDING_APPROVAL", "PENDING"}
  BY DEF queueUpsert, IInv, HandlerInv, EditingInv
<1>3. Goto(w, "statusAudit", a) /\ upsertRecord(a.key, a.row)
  BY DEF queueUpsert
<1>4. UNCHANGED <<calc, audit, edited, tampered, ledger, amendments, txs>>
  BY DEF queueUpsert, ledgerState
<1>5. calc' \in [Payrolls -> Calculations]
      /\ \A q \in Payrolls : calc[q].stamp <= calc'[q].stamp
  BY <1>4, BoundsAssumption DEF IInv, TypeOK, Calculations, Stamps
<1>6. \A q \in Payrolls : calc'[q].status \in LockedStatuses => calc'[q].stamp >= 1
  BY <1>4 DEF IInv, StampInv
<1>7. a.row.appr # "None" /\ a.row.appr # "Finalized"
  BY <1>2
<1> HIDE DEF a
<1> QED BY <1>1, <1>2, <1>3, <1>4, <1>5, <1>6, <1>7, UpsertStep

LEMMA lockStep ==
  ASSUME IInv, NEW w \in Workers, NEW p \in Payrolls, lock(w, p), UNCHANGED ledgerState
  PROVE  IInv'
<1>1. /\ calc[p].status \in {"Approved", "Released"}
      /\ calc' = [calc EXCEPT ![p].status = "Locked"]
      /\ UNCHANGED <<rec, audit, pc, arg, edited, tampered, ledger, amendments, txs>>
  BY DEF lock, Transitions, ledgerState
<1>2. /\ calc' \in [Payrolls -> Calculations]
      /\ \A q \in Payrolls : calc'[q].stamp = calc[q].stamp
      /\ \A q \in Payrolls : calc[q].stamp <= calc'[q].stamp
      /\ \A q \in Payrolls : calc'[q].status = IF q = p THEN "Locked" ELSE calc[q].status
  BY <1>1, StatusChange DEF IInv, TypeOK, CalcStatuses
<1>3. calc[p].stamp >= 1
  BY <1>1 DEF IInv, StampInv, LockedStatuses
<1>4. \A q \in Payrolls : calc'[q].status \in LockedStatuses => calc'[q].stamp >= 1
  BY <1>2, <1>3 DEF IInv, StampInv
<1>5. Goto(w, pc[w], arg[w]) /\ pc[w] \in Labels /\ arg[w] \in Args
  BY <1>1 DEF Goto, IInv, TypeOK
<1>6. TypeOK'
  BY <1>1, <1>2 DEF IInv, TypeOK, LedgerTypeOK
<1>7. Grows
  BY <1>1, <1>2, BoundsAssumption DEF Grows, IInv, TypeOK, Calculations, Stamps
<1>8. HandlerInv(w)'
  BY <1>1, <1>6, <1>7, OtherHandlers
<1>9. edited' \in SUBSET Payrolls
  BY <1>1 DEF IInv, TypeOK
<1> QED BY <1>1, <1>2, <1>4, <1>5, <1>8, <1>9, LocalStep

LEMMA writePayrollBlockchainAuditStep ==
  ASSUME IInv, NEW w \in Workers, writePayrollBlockchainAudit(w), UNCHANGED ledgerState
  PROVE  IInv'
<1> DEFINE row == arg[w].row
           e == IF row.appr = "Finalized" THEN "PAYROLL_APPROVED_READY_FOR_ANCHOR"
                                          ELSE "PAYROLL_SUBMITTED_QUEUE"
           r == AuditRow(arg[w].key, e, row.bc, NoTx, computePayrollHash(row))
<1>1. row \in Rows /\ arg[w].key \in Payrolls
  BY DEF IInv, TypeOK, Args
<1>2. row.appr # "None" /\ row.bc \in {"PENDING_APPROVAL", "PENDING"}
  BY DEF writePayrollBlockchainAudit, IInv, HandlerInv, EditingInv
<1>3. computePayrollHash(row) \in Hashes
  BY <1>1, <1>2, HashType
<1>4. r \in AuditRows /\ ~ IsVerdict(r)
  BY <1>1, <1>2, <1>3 DEF AuditRow, AuditRows, IsVerdict
<1>5. audit' = audit \cup {r} /\ Return(w)
      /\ UNCHANGED <<calc, rec, edited, tampered, ledger, amendments, txs>>
  BY DEF writePayrollBlockchainAudit, ledgerState
<1> HIDE DEF r
<1> QED BY <1>4, <1>5, AuditStep

LEMMA abortStep ==
  ASSUME IInv, NEW w \in Workers, abort(w)
  PROVE  IInv'
BY QuietReturn DEF abort

(* The record changed by hand keeps its status and its transaction.        *)
LEMMA changeOutOfBandStep ==
  ASSUME IInv, NEW p \in Payrolls, changeOutOfBand(p), UNCHANGED ledgerState
  PROVE  IInv'
<1>1. /\ rec[p].appr # "None"
      /\ rec' = [rec EXCEPT ![p].content = Forged]
      /\ tampered' = tampered \cup {p}
      /\ UNCHANGED <<calc, audit, pc, arg, edited, ledger, amendments, txs>>
  BY DEF changeOutOfBand, ledgerState
<1>2. \A q \in Payrolls : /\ rec'[q] \in Rows
                          /\ rec'[q].appr = rec[q].appr
                          /\ rec'[q].stamp = rec[q].stamp
                          /\ rec'[q].bc = rec[q].bc
                          /\ rec'[q].tx = rec[q].tx
                          /\ q # p => rec'[q] = rec[q]
  <2>1. Forged \in Contents /\ rec[p] \in Rows
    BY BoundsAssumption DEF Contents, Forged, IInv, TypeOK
  <2>2. [rec[p] EXCEPT !.content = Forged] \in Rows
    BY <2>1 DEF Rows
  <2> QED BY <1>1, <2>2 DEF IInv, TypeOK, Rows
<1>3. rec' \in [Payrolls -> Rows]
  BY <1>1, <1>2 DEF IInv, TypeOK
<1>4. TypeOK'
  BY <1>1, <1>3 DEF IInv, TypeOK, LedgerTypeOK
<1>5. Grows
  BY <1>1, <1>2, BoundsAssumption DEF Grows, IInv, TypeOK, Calculations, Stamps
<1>6. RowsInv' /\ StampInv'
  BY <1>1, <1>2 DEF IInv, RowsInv, StampInv
<1>7. \A v \in Workers : HandlerInv(v)'
  BY <1>1, <1>4, <1>5, OtherHandlers
<1>8. TxInv' /\ OnlyApprovedAnchored'
  BY <1>1, <1>5, LedgerFrame
<1>9. RecordedHasEvidence'
  BY <1>1, <1>2, EvidenceFrame
<1>10. VerdictsAgreeWithLedger'
  BY <1>1 DEF IInv, VerdictsAgreeWithLedger
<1> QED BY <1>4, <1>6, <1>7, <1>8, <1>9, <1>10 DEF IInv
-----------------------------------------------------------------------------
(* Recording and adjusting.                                                *)

LEMMA startFinalizeStep ==
  ASSUME IInv, NEW w \in Workers, NEW p \in Payrolls, startFinalize(w, p)
  PROVE  IInv'
<1> DEFINE a == [NoArg EXCEPT !.key = p, !.row = rec[p], !.kind = "create"]
<1>1. rec[p] \in Rows
  BY DEF IInv, TypeOK
<1>2. a \in Args /\ a.key = p /\ a.row = rec[p] /\ a.kind = "create"
  BY <1>1, ConstantTypes DEF Args
<1>3. Goto(w, "submit", a) /\ "submit" \in Labels
  BY DEF startFinalize, Begin, Labels
<1> HIDE DEF a
<1>4. UNCHANGED <<snapshotData, ledgerState>>
  BY DEF startFinalize, snapshotData
<1>5. rec[p].appr = "Finalized" /\ rec[p].stamp \in 1..calc[p].stamp
  BY DEF startFinalize, IInv, StampInv
<1>6. pc'[w] = "submit" /\ arg'[w] = a => HandlerInv(w)'
  BY <1>2, <1>4, <1>5 DEF HandlerInv, EditingInv, RecordingInv, VerifyingInv, Recording,
     snapshotData
<1> QED BY <1>2, <1>3, <1>4, <1>6, QuietStep

LEMMA startAdjustmentStep ==
  ASSUME IInv, NEW w \in Workers, NEW p \in Payrolls, startAdjustment(w, p)
  PROVE  IInv'
<1> DEFINE a == [NoArg EXCEPT !.key = p, !.row = NoRow, !.kind = "adjust"]
<1>1. a \in Args /\ a.row = NoRow /\ a.kind = "adjust"
  BY ConstantTypes DEF Args
<1>2. Goto(w, "submit", a) /\ "submit" \in Labels
  BY DEF startAdjustment, Begin, Labels
<1> HIDE DEF a
<1>3. UNCHANGED <<snapshotData, ledgerState>>
  BY DEF startAdjustment, snapshotData
<1>4. pc'[w] = "submit" /\ arg'[w] = a => HandlerInv(w)'
  BY <1>1 DEF HandlerInv, EditingInv, RecordingInv, VerifyingInv, Recording
<1> QED BY <1>1, <1>2, <1>3, <1>4, QuietStep

LEMMA gatewayReceiptStep ==
  ASSUME IInv, NEW w \in Workers, gatewayReceipt(w)
  PROVE  IInv'
<1>1. pc[w] = "wait" /\ txs[arg[w].tx].st = "valid" /\ Goto(w, "receipt", arg[w])
  BY DEF gatewayReceipt
<1>2. arg[w] \in Args /\ "receipt" \in Labels
  BY DEF IInv, TypeOK, Labels
<1>3. UNCHANGED <<snapshotData, ledgerState>>
  BY DEF gatewayReceipt
<1>4. RecordingInv(w)
  BY DEF IInv, HandlerInv
<1>5. pc'[w] = "receipt" /\ arg'[w] = arg[w] => HandlerInv(w)'
  BY <1>1, <1>3, <1>4 DEF HandlerInv, EditingInv, RecordingInv, VerifyingInv, Recording,
     snapshotData, ledgerState, computePayrollHash
<1> QED BY <1>1, <1>2, <1>3, <1>5, QuietStep

LEMMA gatewayErrorStep ==
  ASSUME IInv, NEW w \in Workers, gatewayError(w)
  PROVE  IInv'
<1> DEFINE a == [arg[w] EXCEPT !.tx = NoTx]
<1>1. arg[w] \in Args
  BY DEF IInv, TypeOK
<1>2. a \in Args /\ a.key = arg[w].key /\ a.row = arg[w].row /\ a.kind = arg[w].kind
  BY <1>1 DEF Args
<1>3. pc[w] \in {"submit", "wait"} /\ Goto(w, "unavailable", a) /\ "unavailable" \in Labels
  BY DEF gatewayError, Labels
<1> HIDE DEF a
<1>4. UNCHANGED <<snapshotData, ledgerState>>
  BY DEF gatewayError
<1>5. RecordingInv(w)
  BY DEF IInv, HandlerInv
<1>6. pc'[w] = "unavailable" /\ arg'[w] = a => HandlerInv(w)'
  BY <1>2, <1>3, <1>4, <1>5 DEF HandlerInv, EditingInv, RecordingInv, VerifyingInv,
     Recording, snapshotData
<1> QED BY <1>2, <1>3, <1>4, <1>6, QuietStep

LEMMA auditAdjustmentStep ==
  ASSUME IInv, NEW w \in Workers, auditAdjustment(w)
  PROVE  IInv'
<1> DEFINE s == IF pc[w] = "receipt" THEN "RECORDED" ELSE "PENDING_ANCHOR"
           r == AuditRow(arg[w].key, "ADJUSTMENT_RECORD", s, arg[w].tx, NoHash)
<1>1. arg[w].key \in Payrolls /\ arg[w].tx \in TxIds \cup {NoTx}
  BY DEF IInv, TypeOK, Args
<1>2. r \in AuditRows /\ ~ IsVerdict(r)
  BY <1>1 DEF AuditRow, AuditRows, IsVerdict
<1>3. audit' = audit \cup {r} /\ Return(w)
      /\ UNCHANGED <<calc, rec, edited, tampered, ledger, amendments, txs>>
  BY DEF auditAdjustment, ledgerState
<1> HIDE DEF r
<1> QED BY <1>2, <1>3, AuditStep

(* A step of the handler of w that marks the row of p and logs it.         *)
LEMMA MarkStep ==
  ASSUME IInv, NEW w \in Workers, Return(w), NEW p \in Payrolls, rec[p].appr # "None",
         NEW row \in Rows, rec' = [rec EXCEPT ![p] = row],
         row.appr = rec[p].appr, row.stamp = rec[p].stamp, row.content = rec[p].content,
         NEW r \in AuditRows, audit' = audit \cup {r},
         r.key = p, r.event = "FINALIZE_RECORD",
         r.status = row.bc, row.bc \in {"RECORDED", "PENDING_ANCHOR"},
         row.bc = "RECORDED" =>
           row.tx = r.tx /\ r.hash = ledger[p] /\ r.hash # NoHash,
         UNCHANGED <<calc, edited, tampered, ledger, amendments, txs>>
  PROVE  IInv'
<1>1. /\ pc' \in [Workers -> Labels] /\ arg' \in [Workers -> Args]
      /\ pc'[w] = "idle"
      /\ \A v \in Workers : v # w => pc'[v] = pc[v] /\ arg'[v] = arg[v]
  BY ReturnStep DEF IInv, TypeOK
<1>2. TypeOK'
  BY <1>1 DEF IInv, TypeOK, LedgerTypeOK
<1>3. \A q \in Payrolls : /\ rec'[q].appr = rec[q].appr
                          /\ rec'[q].stamp = rec[q].stamp
                          /\ q # p => rec'[q] = rec[q]
  BY DEF IInv, TypeOK
<1>4. Grows
  BY <1>3, BoundsAssumption DEF Grows, IInv, TypeOK, Calculations, Stamps
<1>5. RowsInv' /\ StampInv'
  BY <1>3 DEF IInv, RowsInv, StampInv
<1>6. HandlerInv(w)'
  BY <1>1 DEF HandlerInv, EditingInv, RecordingInv, VerifyingInv, Recording
<1>7. \A v \in Workers : HandlerInv(v)'
  BY <1>1, <1>2, <1>4, <1>6, OtherHandlers
<1>8. TxInv' /\ OnlyApprovedAnchored'
  BY <1>4, LedgerFrame
<1>9. VerdictsAgreeWithLedger'
  BY AuditFrame
<1>10. rec'[p] = row
  BY DEF IInv, TypeOK
<1>11. RecordedHasEvidence'
  <2> SUFFICES ASSUME NEW q \in Payrolls, rec'[q].bc = "RECORDED"
               PROVE  /\ ledger'[q] # NoHash
                      /\ \E b \in audit' : /\ b.key = q
                                           /\ b.event = "FINALIZE_RECORD"
                                           /\ b.status = "RECORDED"
                                           /\ b.tx = rec'[q].tx
                                           /\ b.hash = ledger'[q]
    BY DEF RecordedHasEvidence
  <2>1. CASE q = p
    BY <1>10, <2>1
  <2>2. CASE q # p
    BY <1>3, <2>2 DEF IInv, RecordedHasEvidence
  <2> QED BY <2>1, <2>2
<1> QED BY <1>2, <1>5, <1>7, <1>8, <1>9, <1>11 DEF IInv

LEMMA recordAnchoredStep ==
  ASSUME IInv, NEW w \in Workers, recordAnchored(w)
  PROVE  IInv'
<1> DEFINE p == arg[w].key
           t == arg[w].tx
           h == computePayrollHash(arg[w].row)
           row == [rec[p] EXCEPT !.tx = t, !.bc = "RECORDED"]
           r == AuditRow(p, "FINALIZE_RECORD", "RECORDED", t, h)
<1>1. /\ pc[w] = "receipt" /\ arg[w].kind = "create" /\ Return(w)
      /\ rec' = [rec EXCEPT ![p] = row]
      /\ audit' = audit \cup {r}
      /\ UNCHANGED <<calc, edited, tampered, ledger, amendments, txs>>
  <2>1. rec[p] \in Rows
    BY DEF IInv, TypeOK, Args
  <2> QED BY <2>1 DEF recordAnchored, ledgerState, IInv, TypeOK
<1>2. p \in Payrolls /\ rec[p] \in Rows /\ rec[p].appr # "None" /\ t \in TxIds
  BY <1>1 DEF IInv, TypeOK, Args, HandlerInv, RecordingInv, Recording
<1>3. /\ row \in Rows /\ row.appr = rec[p].appr /\ row.stamp = rec[p].stamp
      /\ row.content = rec[p].content /\ row.tx = t /\ row.bc = "RECORDED"
  BY <1>2 DEF Rows
<1>4. h = ledger[p] /\ h # NoHash
  <2>1. txs[t].st = "valid" /\ txs[t].kind = "create" /\ txs[t].key = p /\ txs[t].hash = h
    BY <1>1 DEF IInv, HandlerInv, RecordingInv
  <2> QED BY <1>2, <2>1 DEF IInv, TxInv
<1>5. h \in Hashes
  BY <1>2, <1>4 DEF IInv, TypeOK, LedgerTypeOK
<1>6. /\ r \in AuditRows /\ r.key = p /\ r.event = "FINALIZE_RECORD"
      /\ r.status = "RECORDED" /\ r.tx = t /\ r.hash = h
  BY <1>2, <1>5 DEF AuditRow, AuditRows
<1> HIDE DEF r, row, h, t, p
<1> QED BY <1>1, <1>2, <1>3, <1>4, <1>6, MarkStep

LEMMA markPendingAnchorStep ==
  ASSUME IInv, NEW w \in Workers, markPendingAnchor(w)
  PROVE  IInv'
<1> DEFINE p == arg[w].key
           h == computePayrollHash(arg[w].row)
           row == [rec[p] EXCEPT !.bc = "PENDING_ANCHOR"]
           r == AuditRow(p, "FINALIZE_RECORD", "PENDING_ANCHOR", NoTx, h)
<1>1. /\ pc[w] = "unavailable" /\ arg[w].kind = "create" /\ Return(w)
      /\ rec' = [rec EXCEPT ![p] = row]
      /\ audit' = audit \cup {r}
      /\ UNCHANGED <<calc, edited, tampered, ledger, amendments, txs>>
  BY DEF markPendingAnchor, ledgerState
<1>2. /\ p \in Payrolls /\ rec[p] \in Rows /\ rec[p].appr # "None"
      /\ arg[w].row \in Rows /\ arg[w].row.appr = "Finalized"
  BY <1>1 DEF IInv, TypeOK, Args, HandlerInv, RecordingInv, Recording
<1>3. /\ row \in Rows /\ row.appr = rec[p].appr /\ row.stamp = rec[p].stamp
      /\ row.content = rec[p].content /\ row.bc = "PENDING_ANCHOR"
  BY <1>2 DEF Rows
<1>4. h \in Hashes
  BY <1>2, HashType
<1>5. /\ r \in AuditRows /\ r.key = p /\ r.event = "FINALIZE_RECORD"
      /\ r.status = "PENDING_ANCHOR"
  BY <1>2, <1>4 DEF AuditRow, AuditRows
<1> HIDE DEF r, row, h, p
<1> QED BY <1>1, <1>2, <1>3, <1>5, MarkStep

(* The identifier chosen is not one another handler waits for, so only the *)
(* transaction of w changes.                                               *)
LEMMA submitTransactionStep ==
  ASSUME IInv, NEW w \in Workers, submitTransaction(w)
  PROVE  IInv'
<1> DEFINE h == computePayrollHash(arg[w].row)
<1>1. PICK t \in TxIds :
        /\ \A v \in Workers : arg[v].tx # t
        /\ OrderTx(t, arg[w].kind, arg[w].key, h)
        /\ Goto(w, "wait", [arg[w] EXCEPT !.tx = t])
  BY DEF submitTransaction
<1> DEFINE a == [arg[w] EXCEPT !.tx = t]
           tx == [st |-> "ordered", kind |-> arg[w].kind, key |-> arg[w].key, hash |-> h]
<1>2. arg[w] \in Args /\ arg[w].row \in Rows /\ arg[w].key \in Payrolls
      /\ arg[w].kind \in {"create", "adjust"}
  BY DEF IInv, TypeOK, Args
<1>3. a \in Args /\ a.tx = t /\ a.key = arg[w].key /\ a.row = arg[w].row /\ a.kind = arg[w].kind
  BY <1>2 DEF Args
<1>4. pc[w] = "submit" /\ UNCHANGED <<calc, rec, audit, edited, tampered>>
  BY DEF submitTransaction, snapshotData
<1>5. /\ txs' = [txs EXCEPT ![t] = tx]
      /\ Reusable(t)
      /\ arg[w].kind = "adjust" => ledger[arg[w].key] # NoHash
      /\ UNCHANGED <<ledger, amendments>>
  BY <1>1 DEF OrderTx, Endorsed
<1>6. /\ arg[w].kind = "create" =>
           /\ h \in Hashes /\ h # NoHash /\ h.appr = "Finalized"
           /\ h.stamp = arg[w].row.stamp
           /\ arg[w].row.stamp \in 1..calc[arg[w].key].stamp
      /\ arg[w].kind = "adjust" => h = NoHash
  <2>1. RecordingInv(w) /\ pc[w] \in Recording
    BY <1>4 DEF IInv, HandlerInv, Recording
  <2> QED BY <1>2, <2>1, HashType, ConstantTypes DEF RecordingInv
<1>7. tx \in Transactions /\ tx.st = "ordered" /\ tx.kind = arg[w].kind
      /\ tx.key = arg[w].key /\ tx.hash = h
  BY <1>2, <1>6 DEF Transactions
<1>8. /\ pc' \in [Workers -> Labels] /\ arg' \in [Workers -> Args]
      /\ pc'[w] = "wait" /\ arg'[w] = a
      /\ \A v \in Workers : v # w => pc'[v] = pc[v] /\ arg'[v] = arg[v]
  <2>1. "wait" \in Labels /\ Goto(w, "wait", a)
    BY <1>1 DEF Labels
  <2> HIDE DEF a
  <2> QED BY <1>3, <2>1, GotoStep DEF IInv, TypeOK
<1> HIDE DEF a, tx
<1>9. /\ txs' \in [TxIds -> Transactions] /\ txs'[t] = tx
      /\ \A s \in TxIds : s # t => txs'[s] = txs[s]
  BY <1>5, <1>7 DEF IInv, TypeOK, LedgerTypeOK
<1>10. TypeOK'
  BY <1>4, <1>5, <1>8, <1>9 DEF IInv, TypeOK, LedgerTypeOK
<1>11. HandlerInv(w)'
  <2>1. RecordingInv(w)
    BY DEF IInv, HandlerInv
  <2>2. EditingInv(w)' /\ VerifyingInv(w)'
    BY <1>8 DEF EditingInv, VerifyingInv
  <2>3. RecordingInv(w)'
    BY <1>3, <1>4, <1>7, <1>8, <1>9, <2>1 DEF RecordingInv, Recording, computePayrollHash
  <2> QED BY <2>2, <2>3 DEF HandlerInv
<1>12. ASSUME NEW v \in Workers, v # w PROVE HandlerInv(v)'
  <2>1. pc'[v] = pc[v] /\ arg'[v] = arg[v] /\ arg[v].tx # t
    BY <1>1, <1>8, <1>12
  <2>2. HandlerInv(v)
    BY DEF IInv
  <2>3. EditingInv(v)' /\ VerifyingInv(v)'
    BY <1>4, <1>5, <2>1, <2>2 DEF HandlerInv, EditingInv, VerifyingInv, computePayrollHash
  <2>4. RecordingInv(v)'
    BY <1>4, <1>9, <2>1, <2>2 DEF HandlerInv, RecordingInv, computePayrollHash
  <2> QED BY <2>3, <2>4 DEF HandlerInv
<1>13. TxInv'
  <2> SUFFICES ASSUME NEW s \in TxIds
               PROVE  /\ txs'[s].kind = "create" /\ txs'[s].st = "ordered" =>
                           /\ txs'[s].hash # NoHash
                           /\ txs'[s].hash.appr = "Finalized"
                           /\ txs'[s].hash.stamp \in 1..calc'[txs'[s].key].stamp
                      /\ txs'[s].kind = "create" /\ txs'[s].st = "valid" =>
                           ledger'[txs'[s].key] = txs'[s].hash /\ txs'[s].hash # NoHash
                      /\ txs'[s].kind = "adjust" /\ txs'[s].st = "ordered" =>
                           ledger'[txs'[s].key] # NoHash
    BY DEF TxInv
  <2>1. CASE s = t
    <3>1. txs'[s] = tx
      BY <1>9, <2>1
    <3> QED BY <1>4, <1>5, <1>6, <1>7, <3>1
  <2>2. CASE s # t
    BY <1>4, <1>5, <1>9, <2>2 DEF IInv, TxInv
  <2> QED BY <2>1, <2>2
<1>14. RowsInv' /\ StampInv'
  BY <1>4 DEF IInv, RowsInv, StampInv
<1>15. VerdictsAgreeWithLedger' /\ RecordedHasEvidence' /\ OnlyApprovedAnchored'
  BY <1>4, <1>5 DEF IInv, VerdictsAgreeWithLedger, RecordedHasEvidence, OnlyApprovedAnchored
<1> QED BY <1>10, <1>11, <1>12, <1>13, <1>14, <1>15 DEF IInv

-----------------------------------------------------------------------------
(* Verification.                                                           *)

LEMMA verifyRefusedStep ==
  ASSUME IInv, NEW w \in Workers, NEW p \in Payrolls, verifyRefused(w, p)
  PROVE  IInv'
<1>1. rec[p] \in Rows /\ rec[p].tx \in TxIds \cup {NoTx}
  BY DEF IInv, TypeOK, Rows
<1>2. PICK r : /\ r \in AuditRows
               /\ r.status \notin {"RECORDED", "VERIFIED", "CRITICAL"}
               /\ audit' = audit \cup {r}
  <2>1. CASE rec[p].appr = "None" /\ AuditVerify(p, "NOT_FOUND", NoTx, NoHash)
    <3>1. AuditRow(p, "VERIFY_INTEGRITY", "NOT_FOUND", NoTx, NoHash) \in AuditRows
      BY DEF AuditRow, AuditRows
    <3> QED BY <2>1, <3>1 DEF AuditVerify, AuditRow
  <2>2. CASE rec[p].appr = "For Approval"
             /\ AuditVerify(p, "NOT_FINALIZED", rec[p].tx, NoHash)
    <3>1. AuditRow(p, "VERIFY_INTEGRITY", "NOT_FINALIZED", rec[p].tx, NoHash) \in AuditRows
      BY <1>1 DEF AuditRow, AuditRows
    <3> QED BY <2>2, <3>1 DEF AuditVerify, AuditRow
  <2>3. CASE rec[p].appr = "Finalized"
             /\ AuditVerify(p, "PENDING_ANCHOR", rec[p].tx, computePayrollHash(rec[p]))
    <3>1. computePayrollHash(rec[p]) \in Hashes
      BY <1>1, <2>3, HashType
    <3>2. AuditRow(p, "VERIFY_INTEGRITY", "PENDING_ANCHOR", rec[p].tx,
                   computePayrollHash(rec[p])) \in AuditRows
      BY <1>1, <3>1 DEF AuditRow, AuditRows
    <3> QED BY <2>3, <3>2 DEF AuditVerify, AuditRow
  <2> QED BY <2>1, <2>2, <2>3 DEF verifyRefused
<1>3. UNCHANGED <<calc, rec, pc, arg, edited, tampered, ledger, amendments, txs>>
  BY DEF verifyRefused, ledgerState
<1> QED BY <1>2, <1>3, AuditStep

LEMMA startVerifyStep ==
  ASSUME IInv, NEW w \in Workers, NEW p \in Payrolls, startVerify(w, p)
  PROVE  IInv'
<1> DEFINE a == [NoArg EXCEPT !.key = p, !.row = rec[p]]
<1>1. rec[p] \in Rows /\ rec[p].appr = "Finalized"
  BY DEF IInv, TypeOK, startVerify
<1>2. a \in Args /\ a.row = rec[p]
  BY <1>1, ConstantTypes DEF Args
<1>3. Goto(w, "verifyLocal", a) /\ "verifyLocal" \in Labels
  BY DEF startVerify, Labels
<1> HIDE DEF a
<1>4. UNCHANGED <<snapshotData, ledgerState>>
  BY DEF startVerify
<1>5. pc'[w] = "verifyLocal" /\ arg'[w] = a => HandlerInv(w)'
  BY <1>1, <1>2 DEF HandlerInv, EditingInv, RecordingInv, VerifyingInv, Recording
<1> QED BY <1>2, <1>3, <1>4, <1>5, QuietStep

(* A confirmed hash is the hash on the ledger.                             *)
LEMMA ConfirmedHash ==
  ASSUME IInv, NEW p \in Payrolls, NEW t, NEW conf \in fetchConfirmedPayrollHash(p, t),
         conf # NoHash
  PROVE  conf = ledger[p] /\ conf \in Hashes
<1>1. PICK b \in ConfirmedRows(p) : conf = b.hash
  BY DEF fetchConfirmedPayrollHash
<1>2. /\ b \in audit /\ b.key = p /\ IsVerdict(b) /\ b.status \in {"RECORDED", "VERIFIED"}
  BY <1>1 DEF ConfirmedRows, IsVerdict
<1>3. b.hash = ledger[p]
  BY <1>2 DEF IInv, VerdictsAgreeWithLedger
<1> QED BY <1>1, <1>3 DEF IInv, TypeOK, LedgerTypeOK

(* A verdict: the row judged, and what the audit row of it must satisfy.   *)
LEMMA VerifyRow ==
  ASSUME IInv, NEW w \in Workers, pc[w] \in {"verifyLocal", "verifyFabric"},
         NEW s \in {"VERIFIED", "CRITICAL", "FABRIC_UNAVAILABLE"}
  PROVE  LET r == AuditRow(arg[w].key, "VERIFY_INTEGRITY", s, arg[w].row.tx,
                           computePayrollHash(arg[w].row))
         IN  /\ r \in AuditRows /\ r.key = arg[w].key /\ r.status = s
             /\ r.hash = computePayrollHash(arg[w].row) /\ r.hash # NoHash
<1>1. arg[w].row \in Rows /\ arg[w].key \in Payrolls /\ arg[w].row.tx \in TxIds \cup {NoTx}
      /\ arg[w].row.appr = "Finalized"
  BY DEF IInv, TypeOK, Args, Rows, HandlerInv, VerifyingInv
<1>2. computePayrollHash(arg[w].row) \in Hashes /\ computePayrollHash(arg[w].row) # NoHash
  BY <1>1, HashType
<1> QED BY <1>1, <1>2 DEF AuditRow, AuditRows

LEMMA verifyLocalStep ==
  ASSUME IInv, NEW w \in Workers, verifyLocal(w)
  PROVE  IInv'
<1> DEFINE p == arg[w].key
           h == computePayrollHash(arg[w].row)
<1>1. PICK conf \in fetchConfirmedPayrollHash(p, arg[w].row.tx) :
        IF conf \notin {NoHash, h}
        THEN AuditVerify(p, "CRITICAL", arg[w].row.tx, h) /\ Return(w)
        ELSE /\ Goto(w, "verifyFabric", [arg[w] EXCEPT !.conf = conf])
             /\ UNCHANGED audit
  BY DEF verifyLocal
<1>2. pc[w] = "verifyLocal" /\ p \in Payrolls /\ arg[w] \in Args
      /\ arg[w].row.appr = "Finalized"
  BY DEF verifyLocal, IInv, TypeOK, Args, HandlerInv, VerifyingInv
<1>3. conf # NoHash => conf = ledger[p] /\ conf \in Hashes
  BY <1>1, <1>2, ConfirmedHash
<1>4. UNCHANGED <<calc, rec, edited, tampered, ledger, amendments, txs>>
  BY DEF verifyLocal, ledgerState
<1>5. CASE conf \notin {NoHash, h}
  <2> DEFINE r == AuditRow(p, "VERIFY_INTEGRITY", "CRITICAL", arg[w].row.tx, h)
  <2>1. r \in AuditRows /\ r.key = p /\ r.status = "CRITICAL" /\ r.hash = h
    BY <1>2, VerifyRow
  <2>2. audit' = audit \cup {r} /\ Return(w)
    BY <1>1, <1>5 DEF AuditVerify
  <2> HIDE DEF r, h, p
  <2> QED BY <1>3, <1>4, <1>5, <2>1, <2>2, AuditStep
<1>6. CASE conf \in {NoHash, h}
  <2> DEFINE a == [arg[w] EXCEPT !.conf = conf]
  <2>1. a \in Args /\ a.key = p /\ a.row = arg[w].row /\ a.conf = conf
    BY <1>2, <1>3 DEF Args
  <2>2. Goto(w, "verifyFabric", a) /\ "verifyFabric" \in Labels /\ UNCHANGED audit
    BY <1>1, <1>6 DEF Labels
  <2> HIDE DEF a
  <2>3. pc'[w] = "verifyFabric" /\ arg'[w] = a => HandlerInv(w)'
    BY <1>2, <1>3, <1>4, <1>6, <2>1 DEF HandlerInv, EditingInv, RecordingInv, VerifyingInv,
       Recording, computePayrollHash
  <2> QED BY <1>4, <2>1, <2>2, <2>3, QuietStep DEF snapshotData, ledgerState
<1> QED BY <1>5, <1>6

LEMMA verifyOnFabricStep ==
  ASSUME IInv, NEW w \in Workers, verifyOnFabric(w)
  PROVE  IInv'
<1> DEFINE p == arg[w].key
           h == computePayrollHash(arg[w].row)
           s == IF ledger[p] = h THEN "VERIFIED" ELSE "CRITICAL"
           r == AuditRow(p, "VERIFY_INTEGRITY", s, arg[w].row.tx, h)
<1>1. pc[w] = "verifyFabric" /\ ledger[p] # NoHash /\ audit' = audit \cup {r} /\ Return(w)
      /\ UNCHANGED <<calc, rec, edited, tampered, ledger, amendments, txs>>
  BY DEF verifyOnFabric, AuditVerify, ledgerState
<1>2. r \in AuditRows /\ r.key = p /\ r.status = s /\ r.hash = h /\ h # NoHash
  BY <1>1, VerifyRow
<1> HIDE DEF r, h, p
<1> QED BY <1>1, <1>2, AuditStep

LEMMA verifyFallbackStep ==
  ASSUME IInv, NEW w \in Workers, verifyFallback(w)
  PROVE  IInv'
<1> DEFINE p == arg[w].key
           h == computePayrollHash(arg[w].row)
           s == IF arg[w].conf = NoHash THEN "FABRIC_UNAVAILABLE"
                ELSE IF arg[w].conf = h THEN "VERIFIED" ELSE "CRITICAL"
           r == AuditRow(p, "VERIFY_INTEGRITY", s, arg[w].row.tx, h)
<1>1. pc[w] = "verifyFabric" /\ audit' = audit \cup {r} /\ Return(w)
      /\ UNCHANGED <<calc, rec, edited, tampered, ledger, amendments, txs>>
  BY DEF verifyFallback, AuditVerify, ledgerState
<1>2. r \in AuditRows /\ r.key = p /\ r.status = s /\ r.hash = h /\ h # NoHash
  BY <1>1, VerifyRow
<1>3. arg[w].conf # NoHash => arg[w].conf = ledger[p] /\ arg[w].conf = h
  BY <1>1 DEF IInv, HandlerInv, VerifyingInv
<1> HIDE DEF r, h, p
<1> QED BY <1>1, <1>2, <1>3, AuditStep
-----------------------------------------------------------------------------
(* The ledger's own steps.                                                 *)

(* A step that settles the transaction t and keeps every entry there is.   *)
LEMMA SettleStep ==
  ASSUME IInv, NEW t \in TxIds, txs[t].st = "ordered", NEW s \in {"valid", "invalid"},
         txs' = [txs EXCEPT ![t].st = s],
         ledger' \in [Payrolls -> Hashes \cup {NoHash}],
         amendments' \in [Payrolls -> SUBSET TxIds],
         \A p \in Payrolls : ledger[p] # NoHash => ledger'[p] = ledger[p],
         \A p \in Payrolls : ledger'[p] # ledger[p] =>
           ledger'[p].appr = "Finalized" /\ ledger'[p].stamp \in 1..calc[p].stamp,
         s = "valid" /\ txs[t].kind = "create" =>
           ledger'[txs[t].key] = txs[t].hash /\ txs[t].hash # NoHash,
         UNCHANGED snapshotVars
  PROVE  IInv'
<1>1. UNCHANGED <<calc, rec, audit, pc, arg, edited, tampered>>
  BY DEF snapshotVars, snapshotData
<1>2. txs[t] \in Transactions
  BY DEF IInv, TypeOK, LedgerTypeOK
<1>3. /\ txs' \in [TxIds -> Transactions]
      /\ txs'[t].st = s
      /\ \A u \in TxIds : /\ txs'[u].kind = txs[u].kind
                          /\ txs'[u].key = txs[u].key
                          /\ txs'[u].hash = txs[u].hash
                          /\ u # t => txs'[u].st = txs[u].st
  <2>1. [txs[t] EXCEPT !.st = s] \in Transactions
    BY <1>2 DEF Transactions
  <2> QED BY <2>1 DEF IInv, TypeOK, LedgerTypeOK, Transactions
<1>4. TypeOK'
  BY <1>1, <1>3 DEF IInv, TypeOK, LedgerTypeOK
<1>5. ASSUME NEW w \in Workers PROVE HandlerInv(w)'
  <2>1. HandlerInv(w) /\ arg[w].key \in Payrolls
    BY DEF IInv, TypeOK, Args
  <2>2. EditingInv(w)'
    BY <1>1, <2>1 DEF HandlerInv, EditingInv
  <2>3. RecordingInv(w)'
    BY <1>1, <1>3, <2>1 DEF HandlerInv, RecordingInv, computePayrollHash
  <2>4. VerifyingInv(w)'
    BY <1>1, <2>1 DEF HandlerInv, VerifyingInv, computePayrollHash
  <2> QED BY <2>2, <2>3, <2>4 DEF HandlerInv
<1>6. \A u \in TxIds : txs[u].key \in Payrolls
  BY DEF IInv, TypeOK, LedgerTypeOK, Transactions
<1>7. TxInv'
  BY <1>1, <1>3, <1>6 DEF IInv, TxInv
<1>8. audit \in SUBSET AuditRows
  BY DEF IInv, TypeOK
<1>9. VerdictsAgreeWithLedger'
  <2> SUFFICES ASSUME NEW a \in audit, IsVerdict(a)
               PROVE  /\ a.status \in {"RECORDED", "VERIFIED"} =>
                           a.hash = ledger'[a.key] /\ a.hash # NoHash
                      /\ a.status = "CRITICAL" => ledger'[a.key] \notin {a.hash, NoHash}
    BY <1>1 DEF VerdictsAgreeWithLedger, IsVerdict
  <2>1. a.key \in Payrolls
    BY <1>8 DEF AuditRows
  <2>2. /\ a.status \in {"RECORDED", "VERIFIED"} => a.hash = ledger[a.key] /\ a.hash # NoHash
        /\ a.status = "CRITICAL" => ledger[a.key] \notin {a.hash, NoHash}
    BY DEF IInv, VerdictsAgreeWithLedger
  <2> QED BY <2>1, <2>2
<1>10. RecordedHasEvidence'
  BY <1>1 DEF IInv, RecordedHasEvidence
<1>11. OnlyApprovedAnchored'
  BY <1>1 DEF IInv, OnlyApprovedAnchored
<1>12. RowsInv' /\ StampInv'
  BY <1>1 DEF IInv, RowsInv, StampInv
<1> QED BY <1>4, <1>5, <1>7, <1>9, <1>10, <1>11, <1>12 DEF IInv

LEMMA CommitRecordStep ==
  ASSUME IInv, NEW t \in TxIds, CommitRecord(t), UNCHANGED snapshotVars
  PROVE  IInv'
<1> DEFINE k == txs[t].key
<1>1. /\ txs[t].st = "ordered" /\ txs[t].kind = "create" /\ ledger[k] = NoHash
      /\ ledger' = [ledger EXCEPT ![k] = txs[t].hash]
      /\ txs' = [txs EXCEPT ![t].st = "valid"]
      /\ UNCHANGED amendments
  BY DEF CommitRecord
<1>2. k \in Payrolls /\ txs[t].hash \in Hashes \cup {NoHash}
  BY DEF IInv, TypeOK, LedgerTypeOK, Transactions
<1>3. /\ txs[t].hash # NoHash /\ txs[t].hash.appr = "Finalized"
      /\ txs[t].hash.stamp \in 1..calc[k].stamp
  BY <1>1 DEF IInv, TxInv
<1>4. /\ ledger' \in [Payrolls -> Hashes \cup {NoHash}] /\ ledger'[k] = txs[t].hash
      /\ \A p \in Payrolls : p # k => ledger'[p] = ledger[p]
  BY <1>1, <1>2 DEF IInv, TypeOK, LedgerTypeOK
<1>5. amendments' \in [Payrolls -> SUBSET TxIds]
  BY <1>1 DEF IInv, TypeOK, LedgerTypeOK
<1>6. \A p \in Payrolls : /\ ledger[p] # NoHash => ledger'[p] = ledger[p]
                          /\ ledger'[p] # ledger[p] => p = k
  BY <1>1, <1>4
<1> QED BY <1>1, <1>3, <1>4, <1>5, <1>6, SettleStep

LEMMA CommitAdjustmentStep ==
  ASSUME IInv, NEW t \in TxIds, CommitAdjustment(t), UNCHANGED snapshotVars
  PROVE  IInv'
<1>1. txs[t].key \in Payrolls
  BY DEF IInv, TypeOK, LedgerTypeOK, Transactions
<1>2. amendments' \in [Payrolls -> SUBSET TxIds]
  BY <1>1 DEF CommitAdjustment, IInv, TypeOK, LedgerTypeOK
<1>3. ledger' \in [Payrolls -> Hashes \cup {NoHash}]
  BY DEF CommitAdjustment, IInv, TypeOK, LedgerTypeOK
<1> QED BY <1>2, <1>3, SettleStep DEF CommitAdjustment

LEMMA DropStep ==
  ASSUME IInv, NEW t \in TxIds, InvalidateDuplicate(t) \/ LoseTx(t), UNCHANGED snapshotVars
  PROVE  IInv'
<1>1. /\ txs[t].st = "ordered" /\ txs' = [txs EXCEPT ![t].st = "invalid"]
      /\ UNCHANGED <<ledger, amendments>>
  BY DEF InvalidateDuplicate, LoseTx
<1>2. /\ ledger' \in [Payrolls -> Hashes \cup {NoHash}]
      /\ amendments' \in [Payrolls -> SUBSET TxIds]
  BY <1>1 DEF IInv, TypeOK, LedgerTypeOK
<1> QED BY <1>1, <1>2, SettleStep

-----------------------------------------------------------------------------
(* The invariant.                                                          *)

LEMMA InitInv == Init => IInv
<1> SUFFICES ASSUME Init PROVE IInv
  OBVIOUS
<1> USE DEF Init, SnapshotInit, LedgerInit
<1>1. TypeOK
  <2>1. calc \in [Payrolls -> Calculations]
    <3> QED BY FreshCalculation
  <2>2. FreeTx \in Transactions
    BY PayrollsAssumption DEF FreeTx, Transactions
  <2>3. LedgerTypeOK
    BY <2>2 DEF LedgerTypeOK
  <2> QED BY <2>1, <2>3, ConstantTypes DEF TypeOK, Labels
<1>2. RowsInv
  BY DEF RowsInv
<1>3. StampInv
  BY DEF StampInv, LockedStatuses, NoRow
<1>4. \A w \in Workers : HandlerInv(w)
  BY DEF HandlerInv, EditingInv, RecordingInv, VerifyingInv, Recording
<1>5. TxInv
  BY DEF TxInv, FreeTx
<1>6. VerdictsAgreeWithLedger /\ RecordedHasEvidence /\ OnlyApprovedAnchored
  BY DEF VerdictsAgreeWithLedger, RecordedHasEvidence, OnlyApprovedAnchored, NoRow
<1> QED BY <1>1, <1>2, <1>3, <1>4, <1>5, <1>6 DEF IInv

LEMMA StutterStep ==
  ASSUME IInv, UNCHANGED vars
  PROVE  IInv'
<1>1. UNCHANGED <<calc, rec, audit, pc, arg, edited, tampered, ledger, amendments, txs>>
  BY DEF vars
<1>2. TypeOK' /\ RowsInv' /\ StampInv'
  BY <1>1 DEF IInv, TypeOK, LedgerTypeOK, RowsInv, StampInv
<1>3. Grows
  BY <1>1, BoundsAssumption DEF Grows, IInv, TypeOK, Calculations, Stamps
<1>4. \A w \in Workers : HandlerInv(w)'
  BY <1>1, <1>2, <1>3, OtherHandlers
<1>5. TxInv' /\ OnlyApprovedAnchored'
  BY <1>1, <1>3, LedgerFrame
<1>6. VerdictsAgreeWithLedger' /\ RecordedHasEvidence'
  BY <1>1 DEF IInv, VerdictsAgreeWithLedger, RecordedHasEvidence
<1> QED BY <1>2, <1>4, <1>5, <1>6 DEF IInv

LEMMA NextInv == IInv /\ [Next]_vars => IInv'
<1> SUFFICES ASSUME IInv, [Next]_vars PROVE IInv'
  OBVIOUS
<1>1. ASSUME NEW w \in Workers, PayrollStep(w), UNCHANGED ledgerState PROVE IInv'
  BY <1>1, submitForApprovalStep, approveStep, releaseOrPayStep, lockStep,
     recordTransactionStep, saveCalculationStep, writePayrollBlockchainAuditStep,
     editWriteStep, queueReadStep, queueUpsertStep
     DEF PayrollStep
<1>2. ASSUME NEW w \in Workers, AnchorStep(w) PROVE IInv'
  BY <1>2, startFinalizeStep, startAdjustmentStep, submitTransactionStep,
     gatewayReceiptStep, gatewayErrorStep, recordAnchoredStep, markPendingAnchorStep,
     auditAdjustmentStep
     DEF AnchorStep
<1>3. ASSUME NEW w \in Workers, VerifyStep(w) PROVE IInv'
  BY <1>3, verifyRefusedStep, startVerifyStep, verifyLocalStep, verifyOnFabricStep,
     verifyFallbackStep
     DEF VerifyStep
<1>4. ASSUME NEW w \in Workers, abort(w) PROVE IInv'
  BY <1>4, abortStep
<1>5. ASSUME LedgerStep, UNCHANGED snapshotVars PROVE IInv'
  BY <1>5, CommitRecordStep, CommitAdjustmentStep, DropStep DEF LedgerStep
<1>6. ASSUME NEW p \in Payrolls, changeOutOfBand(p), UNCHANGED ledgerState PROVE IInv'
  BY <1>6, changeOutOfBandStep
<1>7. CASE UNCHANGED vars
  BY <1>7, StutterStep
<1> QED BY <1>1, <1>2, <1>3, <1>4, <1>5, <1>6, <1>7 DEF Next

(* The inductive invariant holds in every reachable state.                 *)
THEOREM Invariance == Spec => []IInv
BY InitInv, NextInv, PTL DEF Spec

(* Every variable keeps the kind of values the code gives it.              *)
THEOREM TypeCorrect == Spec => []TypeOK
BY Invariance, PTL DEF IInv

(* RECORDED is never claimed of a payroll without a receipt in the audit   *)
(* log and the very hash of that receipt on the ledger, however requests   *)
(* race and answers of Fabric get lost.                                    *)
THEOREM RecordedEvidence == Spec => []RecordedHasEvidence
BY Invariance, PTL DEF IInv

(* Receipts and VERIFIED verdicts name the hash on the ledger, CRITICAL    *)
(* ones another one, the verdicts given without Fabric included.           *)
THEOREM VerdictsAgree == Spec => []VerdictsAgreeWithLedger
BY Invariance, PTL DEF IInv

(* Whatever a stale requeue or an edit does to a record, only a snapshot   *)
(* that a manager approved gets on the ledger.                             *)
THEOREM AnchoredWasApproved == Spec => []OnlyApprovedAnchored
BY Invariance, PTL DEF IInv

(* What a record that is RECORDED hashes to only changes out of band: the  *)
(* upserts of status updates and requeues leave it alone, and marking it   *)
(* touches only its status and its transaction.                            *)
THEOREM RecordedFrozen == Spec => RecordedFieldsFrozen
<1> DEFINE A == \A p \in Payrolls :
                  /\ rec[p].bc = "RECORDED"
                  /\ computePayrollHash(rec'[p]) # computePayrollHash(rec[p])
                  => rec'[p].content = Forged
<1>1. ASSUME IInv, [Next]_vars PROVE [A]_vars
  <2>1. rec \in [Payrolls -> Rows]
    BY <1>1 DEF IInv, TypeOK
  <2>2. ASSUME UNCHANGED rec PROVE A
    BY <2>2
  <2>3. ASSUME NEW q \in Payrolls, NEW row \in Rows, upsertRecord(q, row) PROVE A
    <3>1. rec[q].bc = "RECORDED" => rec' = rec
      BY <2>1, <2>3, UpsertedRow DEF upsertRecord
    <3>2. \A p \in Payrolls : p # q => rec'[p] = rec[p]
      BY <2>1, <2>3 DEF upsertRecord
    <3> QED BY <3>1, <3>2
  <2>4. ASSUME NEW q \in Payrolls, NEW row \in Rows, rec' = [rec EXCEPT ![q] = row],
               computePayrollHash(row) = computePayrollHash(rec[q])
        PROVE  A
    BY <2>1, <2>4
  <2>6. ASSUME NEW q \in Payrolls, rec' = [rec EXCEPT ![q].content = Forged] PROVE A
    BY <2>1, <2>6 DEF Rows
  <2>7. ASSUME NEW w \in Workers, PayrollStep(w) PROVE A
    <3>1. \A p \in Payrolls : calc[p] \in Calculations
      BY <1>1 DEF IInv, TypeOK
    <3>2. ASSUME NEW p \in Payrolls, submitForApproval(w, p) PROVE A
      BY <2>3, <3>1, <3>2, SnapshotRows DEF submitForApproval
    <3>3. ASSUME NEW p \in Payrolls, approve(w, p) PROVE A
      <4>1. stamped(calc[p], "Approved") \in Calculations
        BY <3>1, <3>3, StampedCalculation DEF approve, CalcStatuses
      <4> QED BY <2>3, <3>3, <4>1, SnapshotRows DEF approve
    <3>4. ASSUME NEW p \in Payrolls, releaseOrPay(w, p) PROVE A
      BY <2>3, <3>1, <3>4, SnapshotRows DEF releaseOrPay
    <3>5. ASSUME queueUpsert(w) PROVE A
      BY <1>1, <2>3, <3>5 DEF queueUpsert, IInv, TypeOK, Args
    <3>6. ASSUME writePayrollBlockchainAudit(w) \/ editWrite(w) \/ queueRead(w) PROVE A
      BY <2>2, <3>6 DEF writePayrollBlockchainAudit, editWrite, queueRead
    <3>7. ASSUME NEW p \in Payrolls,
                 lock(w, p) \/ recordTransaction(w, p) \/ saveCalculation(w, p)
          PROVE  A
      BY <2>2, <3>7 DEF lock, recordTransaction, saveCalculation
    <3> QED BY <2>7, <3>2, <3>3, <3>4, <3>5, <3>6, <3>7 DEF PayrollStep
  <2>8. ASSUME NEW w \in Workers, AnchorStep(w) PROVE A
    <3>0. arg[w].key \in Payrolls /\ rec[arg[w].key] \in Rows /\ arg[w].tx \in TxIds \cup {NoTx}
      BY <1>1 DEF IInv, TypeOK, Args
    <3>1. CASE recordAnchored(w)
      <4> DEFINE row == [rec[arg[w].key] EXCEPT !.tx = arg[w].tx, !.bc = "RECORDED"]
      <4>1. row \in Rows /\ computePayrollHash(row) = computePayrollHash(rec[arg[w].key])
        BY <3>0 DEF Rows, computePayrollHash
      <4>2. rec' = [rec EXCEPT ![arg[w].key] = row]
        BY <2>1, <3>0, <3>1 DEF recordAnchored
      <4> HIDE DEF row
      <4> QED BY <2>4, <3>0, <4>1, <4>2
    <3>3. CASE markPendingAnchor(w)
      <4> DEFINE row == [rec[arg[w].key] EXCEPT !.bc = "PENDING_ANCHOR"]
      <4>1. row \in Rows /\ computePayrollHash(row) = computePayrollHash(rec[arg[w].key])
        BY <3>0 DEF Rows, computePayrollHash
      <4>2. rec' = [rec EXCEPT ![arg[w].key] = row]
        BY <2>1, <3>0, <3>3 DEF markPendingAnchor
      <4> HIDE DEF row
      <4> QED BY <2>4, <3>0, <4>1, <4>2
    <3>2. CASE ~ (recordAnchored(w) \/ markPendingAnchor(w))
      BY <2>2, <2>8, <3>2
         DEF AnchorStep, startFinalize, startAdjustment, submitTransaction, gatewayReceipt,
             gatewayError, auditAdjustment, snapshotData
    <3> QED BY <3>1, <3>2, <3>3
  <2>9. ASSUME NEW w \in Workers, VerifyStep(w) \/ abort(w) PROVE A
    BY <2>2, <2>9
       DEF VerifyStep, verifyRefused, startVerify, verifyLocal, verifyOnFabric,
           verifyFallback, abort, snapshotData
  <2>10. ASSUME UNCHANGED snapshotVars PROVE A
    BY <2>2, <2>10 DEF snapshotVars, snapshotData
  <2>11. ASSUME NEW p \in Payrolls, changeOutOfBand(p) PROVE A
    BY <2>6, <2>11 DEF changeOutOfBand
  <2> HIDE DEF A
  <2> QED BY <1>1, <2>7, <2>8, <2>9, <2>10, <2>11 DEF Next
<1> QED BY <1>1, Invariance, PTL DEF Spec, RecordedFieldsFrozen
-----------------------------------------------------------------------------
(* False alarms.  Of a payroll that was neither edited after an approval   *)
(* nor changed out of band, every finalized snapshot there is, wherever it *)
(* is on its way, is the one that its calculation would give now: it was   *)
(* approved once, and no status it can still reach lets it be edited or    *)
(* approved again.                                                         *)

Verifying == {"verifyLocal", "verifyFabric"}

Clean(p) == p \notin edited \cup tampered

(* x, a row or the hash of one, holds what the calculation of p holds.     *)
FromCalc(p, x) == x.content = calc[p].content /\ x.stamp \in 1..calc[p].stamp

ApprovedOnce(p) ==
  /\ calc[p].stamp <= 1
  /\ calc[p].stamp >= 1 => calc[p].status \in LockedStatuses

HandsOver(w, p) ==
  /\ (pc[w] \in Recording /\ arg[w].kind = "create") \/ pc[w] \in Verifying
  /\ arg[w].key = p

Anchors(t, p) == txs[t].kind = "create" /\ txs[t].st = "ordered" /\ txs[t].key = p

CleanAt(p) ==
  /\ ApprovedOnce(p)
  /\ rec[p].appr = "Finalized" => FromCalc(p, rec[p])
  /\ \A w \in Workers : HandsOver(w, p) => FromCalc(p, arg[w].row)
  /\ \A t \in TxIds : Anchors(t, p) => FromCalc(p, txs[t].hash)
  /\ ledger[p] # NoHash => FromCalc(p, ledger[p])

CleanInv == \A p \in Payrolls : Clean(p) => CleanAt(p)

(* A step keeps what finalized snapshots of p were taken from.             *)
KeepsFigures(p) ==
  /\ Clean(p)
  /\ calc[p].stamp <= calc'[p].stamp
  /\ calc[p].stamp >= 1 => calc'[p].content = calc[p].content

LEMMA SnapshotKept ==
  ASSUME IInv, IInv', NEW p \in Payrolls, KeepsFigures(p), NEW x, FromCalc(p, x)
  PROVE  x.content = calc'[p].content /\ x.stamp \in 1..calc'[p].stamp
<1>1. calc[p].stamp \in Nat /\ calc'[p].stamp \in Nat
  BY BoundsAssumption DEF IInv, TypeOK, Calculations, Stamps
<1>2. x.stamp \in 1..calc[p].stamp
  BY DEF FromCalc
<1> QED BY <1>1, <1>2 DEF FromCalc, KeepsFigures

(* Nobody takes an edit or a change out of band back.                      *)
LEMMA HistoryGrows ==
  ASSUME [Next]_vars
  PROVE  edited \subseteq edited' /\ tampered \subseteq tampered'
<1>1. CASE UNCHANGED vars
  BY <1>1 DEF vars
<1>2. ASSUME NEW w \in Workers, PayrollStep(w) PROVE edited \subseteq edited' /\ UNCHANGED tampered
  BY <1>2 DEF PayrollStep, submitForApproval, approve, releaseOrPay, lock, recordTransaction,
     saveCalculation, writePayrollBlockchainAudit, editWrite, queueRead, queueUpsert
<1>3. ASSUME NEW w \in Workers, AnchorStep(w) \/ VerifyStep(w) \/ abort(w)
      PROVE  UNCHANGED <<edited, tampered>>
  BY <1>3 DEF AnchorStep, startFinalize, startAdjustment, submitTransaction, gatewayReceipt,
     gatewayError, recordAnchored, markPendingAnchor, auditAdjustment, VerifyStep,
     verifyRefused, startVerify, verifyLocal, verifyOnFabric, verifyFallback, abort,
     snapshotData
<1>4. ASSUME UNCHANGED snapshotVars PROVE UNCHANGED <<edited, tampered>>
  BY <1>4 DEF snapshotVars, snapshotData
<1>5. ASSUME NEW p \in Payrolls, changeOutOfBand(p)
      PROVE  UNCHANGED edited /\ tampered \subseteq tampered'
  BY <1>5 DEF changeOutOfBand
<1> QED BY <1>1, <1>2, <1>3, <1>4, <1>5 DEF Next

(* The calculation: approved once, then locked; edited only before.        *)
LEMMA FiguresKept ==
  ASSUME IInv, CleanInv, [Next]_vars, NEW p \in Payrolls, Clean(p)'
  PROVE  KeepsFigures(p) /\ ApprovedOnce(p)'
<1> DEFINE Goal == KeepsFigures(p) /\ ApprovedOnce(p)'
<1>1. Clean(p) /\ ApprovedOnce(p)
  BY HistoryGrows DEF Clean, CleanInv, CleanAt
<1>2. calc \in [Payrolls -> Calculations] /\ calc[p].stamp \in Nat
  BY BoundsAssumption DEF IInv, TypeOK, Calculations, Stamps
<1>3. ASSUME UNCHANGED calc PROVE Goal
  BY <1>1, <1>2, <1>3 DEF KeepsFigures, ApprovedOnce
<1>4. ASSUME NEW q \in Payrolls, NEW s \in CalcStatuses,
             calc' = [calc EXCEPT ![q].status = s],
             calc[q].status \in LockedStatuses => s \in LockedStatuses
      PROVE  Goal
  <2>1. /\ calc'[p].stamp = calc[p].stamp
        /\ calc'[p].content = calc[p].content
        /\ calc'[p].status = IF p = q THEN s ELSE calc[p].status
    BY <1>2, <1>4 DEF Calculations
  <2> QED BY <1>1, <1>2, <1>4, <2>1 DEF KeepsFigures, ApprovedOnce
<1>5. ASSUME NEW w \in Workers, NEW q \in Payrolls, submitForApproval(w, q) PROVE Goal
  <2>1. calc[q].status \notin LockedStatuses /\ "For Approval" \in CalcStatuses
    BY <1>5 DEF submitForApproval, Transitions, LockedStatuses, CalcStatuses
  <2> QED BY <1>4, <1>5, <2>1 DEF submitForApproval
<1>6. ASSUME NEW w \in Workers, NEW q \in Payrolls, approve(w, q) PROVE Goal
  <2>1. calc[q].status \notin LockedStatuses
    BY <1>6 DEF approve, Transitions, LockedStatuses
  <2>2. calc' = [calc EXCEPT ![q] = stamped(calc[q], "Approved")]
    BY <1>6 DEF approve
  <2>3. CASE p # q
    <3>1. calc'[p] = calc[p]
      BY <1>2, <2>2, <2>3
    <3> QED BY <1>1, <1>2, <3>1 DEF KeepsFigures, ApprovedOnce
  <2>4. CASE p = q
    <3>1. calc'[p] = stamped(calc[p], "Approved")
      BY <1>2, <2>2, <2>4
    <3>2. calc[p].stamp = 0
      BY <1>1, <1>2, <2>1, <2>4 DEF ApprovedOnce
    <3>3. calc'[p].stamp = 1 /\ calc'[p].status = "Approved"
      BY <3>1, <3>2 DEF stamped
    <3> QED BY <1>1, <3>2, <3>3 DEF KeepsFigures, ApprovedOnce, LockedStatuses
  <2> QED BY <2>3, <2>4
<1>7. ASSUME NEW w \in Workers, NEW q \in Payrolls, releaseOrPay(w, q) \/ lock(w, q) PROVE Goal
  <2>1. PICK s \in {"Released", "Paid", "Locked"} : calc' = [calc EXCEPT ![q].status = s]
    BY <1>7 DEF releaseOrPay, lock
  <2>2. s \in CalcStatuses /\ s \in LockedStatuses
    BY DEF CalcStatuses, LockedStatuses
  <2> QED BY <1>4, <2>1, <2>2
<1>8. ASSUME NEW w \in Workers, editWrite(w) PROVE Goal
  <2> DEFINE q == arg[w].key
  <2>1. q \in Payrolls
    BY DEF IInv, TypeOK, Args
  <2>2. /\ calc' = [calc EXCEPT ![q] = reencoded(calc[q], arg[w].next)]
        /\ calc[q].stamp > 0 => q \in edited'
    BY <1>8 DEF editWrite
  <2> HIDE DEF q
  <2>3. CASE p # q
    <3>1. calc'[p] = calc[p]
      BY <1>2, <2>2, <2>3
    <3> QED BY <1>1, <1>2, <3>1 DEF KeepsFigures, ApprovedOnce
  <2>4. CASE p = q
    <3>1. calc'[p] = reencoded(calc[p], arg[w].next)
      BY <1>2, <2>2, <2>4
    <3>2. calc[p].stamp = 0
      BY <1>2, <2>2, <2>4 DEF Clean
    <3>3. calc'[p].stamp = 0
      BY <3>1, <3>2 DEF reencoded
    <3> QED BY <1>1, <3>2, <3>3 DEF KeepsFigures, ApprovedOnce
  <2> QED BY <2>3, <2>4
<1>9. ASSUME NEW w \in Workers, PayrollStep(w) PROVE Goal
  <2>1. ASSUME \/ writePayrollBlockchainAudit(w) \/ queueRead(w) \/ queueUpsert(w)
               \/ \E q \in Payrolls : recordTransaction(w, q) \/ saveCalculation(w, q)
        PROVE  UNCHANGED calc
    BY <2>1 DEF writePayrollBlockchainAudit, queueRead, queueUpsert, recordTransaction,
       saveCalculation
  <2> HIDE DEF Goal
  <2> QED BY <1>3, <1>5, <1>6, <1>7, <1>8, <1>9, <2>1 DEF PayrollStep
<1>10. ASSUME NEW w \in Workers, AnchorStep(w) \/ VerifyStep(w) \/ abort(w) PROVE UNCHANGED calc
  BY <1>10 DEF AnchorStep, startFinalize, startAdjustment, submitTransaction, gatewayReceipt,
     gatewayError, recordAnchored, markPendingAnchor, auditAdjustment, VerifyStep,
     verifyRefused, startVerify, verifyLocal, verifyOnFabric, verifyFallback, abort,
     snapshotData
<1>11. ASSUME UNCHANGED snapshotVars \/ UNCHANGED vars
              \/ \E q \in Payrolls : changeOutOfBand(q)
       PROVE  UNCHANGED calc
  BY <1>11 DEF snapshotVars, snapshotData, vars, changeOutOfBand
<1> HIDE DEF Goal
<1>12. Goal
  BY <1>3, <1>9, <1>10, <1>11 DEF Next
<1> QED BY <1>12 DEF Goal

(* A finalized record: only an approval or a release stores one, and what  *)
(* it stores is the calculation it has just stamped.                       *)
LEMMA RecordsKept ==
  ASSUME IInv, IInv', CleanInv, [Next]_vars, NEW p \in Payrolls, Clean(p)',
         rec'[p].appr = "Finalized"
  PROVE  FromCalc(p, rec[p])'
<1> DEFINE Goal == rec'[p].content = calc'[p].content
<1>1. KeepsFigures(p) /\ CleanAt(p)
  BY FiguresKept DEF KeepsFigures, CleanInv
<1>2. rec \in [Payrolls -> Rows] /\ calc \in [Payrolls -> Calculations]
  BY DEF IInv, TypeOK
<1>3. ASSUME computePayrollHash(rec'[p]) = computePayrollHash(rec[p]) PROVE Goal
  <2>1. rec[p].appr = "Finalized" /\ rec'[p].content = rec[p].content
    BY <1>3 DEF computePayrollHash
  <2>2. FromCalc(p, rec[p])
    BY <1>1, <2>1 DEF CleanAt
  <2> QED BY <1>1, <2>1, <2>2, SnapshotKept
<1>4. ASSUME NEW q \in Payrolls, NEW row \in Rows, upsertRecord(q, row),
             p = q /\ row.appr = "Finalized" => row.content = calc'[p].content
      PROVE  Goal
  <2>1. rec' = [rec EXCEPT ![q] = upsertedRow(rec[q], row)]
    BY <1>4 DEF upsertRecord
  <2>2. CASE p # q \/ rec[q].bc = "RECORDED"
    <3>1. rec'[p] = rec[p]
      BY <1>2, <1>4, <2>1, <2>2, UpsertedRow
    <3> QED BY <1>3, <3>1
  <2>3. CASE p = q /\ rec[q].bc # "RECORDED"
    <3>1. rec'[p].appr = row.appr /\ rec'[p].content = row.content
      BY <1>2, <1>4, <2>1, <2>3, UpsertedRow
    <3> QED BY <1>4, <2>3, <3>1
  <2> QED BY <2>2, <2>3
<1>5. ASSUME NEW w \in Workers, PayrollStep(w) PROVE Goal
  <2>1. ASSUME NEW q \in Payrolls, submitForApproval(w, q) PROVE Goal
    BY <1>2, <1>4, <2>1, SnapshotRows DEF submitForApproval
  <2>2. ASSUME NEW q \in Payrolls, approve(w, q) PROVE Goal
    <3> DEFINE c == stamped(calc[q], "Approved")
    <3>1. c \in Calculations
      BY <1>2, <2>2, StampedCalculation DEF approve, CalcStatuses
    <3>2. finalizedRow(c) \in Rows /\ finalizedRow(c).content = c.content
      BY <3>1, SnapshotRows DEF finalizedRow
    <3>3. calc'[q] = c /\ upsertRecord(q, finalizedRow(c))
      BY <1>2, <2>2 DEF approve
    <3> HIDE DEF c
    <3> QED BY <1>4, <3>2, <3>3
  <2>3. ASSUME NEW q \in Payrolls, releaseOrPay(w, q) PROVE Goal
    <3>1. finalizedRow(calc[q]) \in Rows /\ finalizedRow(calc[q]).content = calc[q].content
      BY <1>2, SnapshotRows DEF finalizedRow
    <3>2. calc'[q].content = calc[q].content
      BY <1>2, <2>3 DEF releaseOrPay, Calculations
    <3>3. upsertRecord(q, finalizedRow(calc[q]))
      BY <2>3 DEF releaseOrPay
    <3> QED BY <1>4, <3>1, <3>2, <3>3
  <2>4. ASSUME queueUpsert(w) PROVE Goal
    <3>1. arg[w].row \in Rows /\ arg[w].key \in Payrolls /\ arg[w].row.appr = "For Approval"
      BY <2>4 DEF queueUpsert, IInv, TypeOK, Args, HandlerInv, EditingInv
    <3> QED BY <1>4, <2>4, <3>1 DEF queueUpsert
  <2>5. ASSUME \/ writePayrollBlockchainAudit(w) \/ editWrite(w) \/ queueRead(w)
               \/ \E q \in Payrolls : lock(w, q) \/ recordTransaction(w, q)
                                        \/ saveCalculation(w, q)
        PROVE  UNCHANGED rec
    BY <2>5 DEF writePayrollBlockchainAudit, editWrite, queueRead, lock, recordTransaction,
       saveCalculation
  <2> HIDE DEF Goal
  <2> QED BY <1>3, <1>5, <2>1, <2>2, <2>3, <2>4, <2>5 DEF PayrollStep
<1>6. ASSUME NEW w \in Workers, AnchorStep(w) PROVE Goal
  <2>1. arg[w].key \in Payrolls /\ rec[arg[w].key] \in Rows /\ rec[p] \in Rows
    BY <1>2 DEF IInv, TypeOK, Args
  <2>2. CASE recordAnchored(w) \/ markPendingAnchor(w)
    <3> DEFINE row == IF pc[w] = "receipt"
                      THEN [rec[arg[w].key] EXCEPT !.tx = arg[w].tx, !.bc = "RECORDED"]
                      ELSE [rec[arg[w].key] EXCEPT !.bc = "PENDING_ANCHOR"]
    <3>1. rec' = [rec EXCEPT ![arg[w].key] = row]
      BY <1>2, <2>1, <2>2 DEF recordAnchored, markPendingAnchor
    <3>2. computePayrollHash(row) = computePayrollHash(rec[arg[w].key])
      BY <2>1 DEF Rows, computePayrollHash
    <3> HIDE DEF row
    <3>3. rec'[p] = IF p = arg[w].key THEN row ELSE rec[p]
      BY <1>2, <2>1, <3>1
    <3> QED BY <1>3, <3>2, <3>3
  <2>3. CASE ~ (recordAnchored(w) \/ markPendingAnchor(w))
    <3>1. UNCHANGED rec
      BY <1>6, <2>3
         DEF AnchorStep, startFinalize, startAdjustment, submitTransaction, gatewayReceipt,
             gatewayError, auditAdjustment, snapshotData
    <3> QED BY <1>3, <3>1
  <2> QED BY <2>2, <2>3
<1>7. ASSUME NEW q \in Payrolls, changeOutOfBand(q) PROVE Goal
  <2>1. p # q /\ rec' = [rec EXCEPT ![q].content = Forged]
    BY <1>7 DEF changeOutOfBand, Clean
  <2>2. rec'[p] = rec[p]
    BY <1>2, <2>1
  <2> QED BY <1>3, <2>2
<1>8. ASSUME \/ \E w \in Workers : VerifyStep(w) \/ abort(w)
             \/ UNCHANGED snapshotVars \/ UNCHANGED vars
      PROVE  UNCHANGED rec
  BY <1>8 DEF VerifyStep, verifyRefused, startVerify, verifyLocal, verifyOnFabric,
     verifyFallback, abort, snapshotVars, snapshotData, vars
<1> HIDE DEF Goal
<1>9. Goal
  BY <1>3, <1>5, <1>6, <1>7, <1>8 DEF Next
<1>10. rec'[p].stamp \in 1..calc'[p].stamp
  BY DEF IInv, StampInv
<1> QED BY <1>9, <1>10 DEF FromCalc, Goal

(* The copy of a record that a handler of the blockchain API goes by.      *)
LEMMA CopiesKept ==
  ASSUME IInv, IInv', CleanInv, [Next]_vars, NEW p \in Payrolls, Clean(p)',
         NEW w \in Workers, HandsOver(w, p)'
  PROVE  FromCalc(p, arg[w].row)'
<1> DEFINE Goal == /\ arg'[w].row.content = calc'[p].content
                   /\ arg'[w].row.stamp \in 1..calc'[p].stamp
           Anchoring(l) == l \in Recording \cup Verifying
<1>1. KeepsFigures(p) /\ CleanAt(p)
  BY FiguresKept DEF KeepsFigures, CleanInv
<1>2. pc \in [Workers -> Labels] /\ arg \in [Workers -> Args]
  BY DEF IInv, TypeOK
<1>3. ASSUME HandsOver(w, p), arg'[w].row = arg[w].row PROVE Goal
  <2>1. FromCalc(p, arg[w].row)
    BY <1>1, <1>3 DEF CleanAt
  <2> QED BY <1>1, <1>3, <2>1, SnapshotKept
<1>4. ASSUME UNCHANGED <<pc, arg>> PROVE Goal
  BY <1>3, <1>4 DEF HandsOver
<1>5. ASSUME NEW v \in Workers, NEW l, NEW a, Goto(v, l, a),
             ~ Anchoring(l) \/ (l \in Recording /\ a.kind = "adjust")
      PROVE  Goal
  <2>1. /\ v = w => pc'[w] = l /\ arg'[w] = a
        /\ v # w => pc'[w] = pc[w] /\ arg'[w] = arg[w]
    BY <1>2, <1>5 DEF Goto
  <2>2. v # w
    BY <1>5, <2>1 DEF HandsOver, Recording, Verifying
  <2> QED BY <1>3, <2>1, <2>2 DEF HandsOver
<1>6. ASSUME NEW v \in Workers, NEW l, NEW a, Goto(v, l, a),
             \/ l \in Recording /\ pc[v] \in Recording /\ a.kind = arg[v].kind
             \/ l \in Verifying /\ pc[v] \in Verifying,
             a.key = arg[v].key, a.row = arg[v].row
      PROVE  Goal
  <2>1. /\ v = w => pc'[w] = l /\ arg'[w] = a
        /\ v # w => pc'[w] = pc[w] /\ arg'[w] = arg[w]
    BY <1>2, <1>6 DEF Goto
  <2>2. HandsOver(w, p) /\ arg'[w].row = arg[w].row
    BY <1>6, <2>1 DEF HandsOver, Recording, Verifying
  <2> QED BY <1>3, <2>2
<1>7. ASSUME NEW v \in Workers, NEW q \in Payrolls, NEW l, NEW a, Goto(v, l, a),
             a.key = q, a.row = rec[q], rec[q].appr = "Finalized"
      PROVE  Goal
  <2>1. /\ v = w => pc'[w] = l /\ arg'[w] = a
        /\ v # w => pc'[w] = pc[w] /\ arg'[w] = arg[w]
    BY <1>2, <1>7 DEF Goto
  <2>2. CASE v = w
    <3>1. p = q /\ arg'[w].row = rec[p]
      BY <1>7, <2>1, <2>2 DEF HandsOver
    <3>2. FromCalc(p, rec[p])
      BY <1>1, <1>7, <3>1 DEF CleanAt
    <3> QED BY <1>1, <3>1, <3>2, SnapshotKept
  <2>3. CASE v # w
    BY <1>3, <2>1, <2>3 DEF HandsOver
  <2> QED BY <2>2, <2>3
<1> HIDE DEF Goal
<1>8. ASSUME NEW v \in Workers, Return(v) PROVE Goal
  BY <1>5, <1>8 DEF Return, Recording, Verifying
<1>9. ASSUME NEW v \in Workers, PayrollStep(v) PROVE Goal
  <2>1. ASSUME NEW l \in {"statusAudit", "recordWrite", "saveWrite", "queueRead", "queueUpsert"},
               NEW a, Goto(v, l, a)
        PROVE  Goal
    BY <1>5, <2>1 DEF Recording, Verifying
  <2>2. ASSUME NEW q \in Payrolls, submitForApproval(v, q) \/ approve(v, q) \/ releaseOrPay(v, q)
        PROVE  Goal
    BY <2>1, <2>2 DEF submitForApproval, approve, releaseOrPay
  <2>3. ASSUME NEW q \in Payrolls, recordTransaction(v, q) \/ saveCalculation(v, q) PROVE Goal
    BY <2>1, <2>3 DEF recordTransaction, saveCalculation
  <2>4. ASSUME NEW q \in Payrolls, lock(v, q) PROVE Goal
    BY <1>4, <2>4 DEF lock
  <2>5. ASSUME writePayrollBlockchainAudit(v) \/ editWrite(v) \/ queueRead(v) \/ queueUpsert(v)
        PROVE  Goal
    BY <1>8, <2>1, <2>5 DEF writePayrollBlockchainAudit, editWrite, queueRead, queueUpsert
  <2> QED BY <1>9, <2>2, <2>3, <2>4, <2>5 DEF PayrollStep
<1>10. ASSUME NEW v \in Workers, AnchorStep(v) PROVE Goal
  <2>0. arg[v] \in Args /\ arg[v].row \in Rows
    BY <1>2 DEF Args
  <2>1. ASSUME NEW q \in Payrolls, startFinalize(v, q) PROVE Goal
    <3> DEFINE a == [NoArg EXCEPT !.key = q, !.row = rec[q], !.kind = "create"]
    <3>1. Goto(v, "submit", a) /\ rec[q].appr = "Finalized"
      BY <2>1 DEF startFinalize, Begin
    <3>2. a.key = q /\ a.row = rec[q]
      BY ConstantTypes DEF NoArg
    <3> HIDE DEF a
    <3> QED BY <1>7, <3>1, <3>2
  <2>2. ASSUME NEW q \in Payrolls, startAdjustment(v, q) PROVE Goal
    <3> DEFINE a == [NoArg EXCEPT !.key = q, !.row = NoRow, !.kind = "adjust"]
    <3>1. Goto(v, "submit", a)
      BY <2>2 DEF startAdjustment, Begin
    <3>2. a.kind = "adjust"
      BY DEF NoArg
    <3> HIDE DEF a
    <3> QED BY <1>5, <3>1, <3>2 DEF Recording
  <2>3. ASSUME NEW t \in TxIds \cup {NoTx}, NEW l \in Recording,
               pc[v] \in Recording, Goto(v, l, [arg[v] EXCEPT !.tx = t])
        PROVE  Goal
    <3> DEFINE a == [arg[v] EXCEPT !.tx = t]
    <3>1. a.key = arg[v].key /\ a.row = arg[v].row /\ a.kind = arg[v].kind
      BY <2>0 DEF Args
    <3>2. Goto(v, l, a)
      BY <2>3
    <3> HIDE DEF a
    <3> QED BY <1>6, <2>3, <3>1, <3>2
  <2>4. ASSUME submitTransaction(v) \/ gatewayError(v) PROVE Goal
    BY <2>3, <2>4 DEF submitTransaction, gatewayError, Recording
  <2>5. ASSUME gatewayReceipt(v) PROVE Goal
    BY <1>6, <2>5 DEF gatewayReceipt, Recording
  <2>6. ASSUME recordAnchored(v) \/ markPendingAnchor(v) \/ auditAdjustment(v) PROVE Goal
    BY <1>8, <2>6 DEF recordAnchored, markPendingAnchor, auditAdjustment
  <2> QED BY <1>10, <2>1, <2>2, <2>4, <2>5, <2>6 DEF AnchorStep
<1>11. ASSUME NEW v \in Workers, VerifyStep(v) \/ abort(v) PROVE Goal
  <2>0. arg[v] \in Args
    BY <1>2
  <2>1. ASSUME NEW q \in Payrolls, startVerify(v, q) PROVE Goal
    <3> DEFINE a == [NoArg EXCEPT !.key = q, !.row = rec[q]]
    <3>1. Goto(v, "verifyLocal", a) /\ rec[q].appr = "Finalized"
      BY <2>1 DEF startVerify
    <3>2. a.key = q /\ a.row = rec[q]
      BY ConstantTypes DEF NoArg
    <3> HIDE DEF a
    <3> QED BY <1>7, <3>1, <3>2
  <2>2. ASSUME verifyLocal(v) PROVE Goal
    <3>1. ASSUME NEW conf, Goto(v, "verifyFabric", [arg[v] EXCEPT !.conf = conf]) PROVE Goal
      <4> DEFINE a == [arg[v] EXCEPT !.conf = conf]
      <4>1. a.key = arg[v].key /\ a.row = arg[v].row
        BY <2>0 DEF Args
      <4>2. Goto(v, "verifyFabric", a) /\ pc[v] \in Verifying
        BY <2>2, <3>1 DEF verifyLocal, Verifying
      <4> HIDE DEF a
      <4> QED BY <1>6, <4>1, <4>2 DEF Verifying
    <3> QED BY <1>8, <2>2, <3>1 DEF verifyLocal
  <2>3. ASSUME verifyOnFabric(v) \/ verifyFallback(v) \/ abort(v) PROVE Goal
    BY <1>8, <2>3 DEF verifyOnFabric, verifyFallback, abort
  <2>4. ASSUME NEW q \in Payrolls, verifyRefused(v, q) PROVE Goal
    BY <1>4, <2>4 DEF verifyRefused
  <2> QED BY <1>11, <2>1, <2>2, <2>3, <2>4 DEF VerifyStep
<1>12. ASSUME UNCHANGED snapshotVars \/ UNCHANGED vars \/ \E q \in Payrolls : changeOutOfBand(q)
       PROVE  UNCHANGED <<pc, arg>>
  BY <1>12 DEF snapshotVars, vars, changeOutOfBand
<1>13. Goal
  BY <1>4, <1>9, <1>10, <1>11, <1>12 DEF Next
<1> QED BY <1>13 DEF FromCalc, Goal

(* A hash on its way to the ledger, and the entry of the ledger.           *)
LEMMA SubmissionsKept ==
  ASSUME IInv, IInv', CleanInv, [Next]_vars, NEW p \in Payrolls, Clean(p)',
         NEW t \in TxIds, Anchors(t, p)'
  PROVE  FromCalc(p, txs[t].hash)'
<1> DEFINE Goal == /\ txs'[t].hash.content = calc'[p].content
                   /\ txs'[t].hash.stamp \in 1..calc'[p].stamp
<1>1. KeepsFigures(p) /\ CleanAt(p)
  BY FiguresKept DEF KeepsFigures, CleanInv
<1>2. txs \in [TxIds -> Transactions] /\ arg \in [Workers -> Args]
  BY DEF IInv, TypeOK, LedgerTypeOK
<1>3. ASSUME txs'[t] = txs[t] PROVE Goal
  <2>1. FromCalc(p, txs[t].hash)
    BY <1>1, <1>3 DEF CleanAt, Anchors
  <2> QED BY <1>1, <1>3, <2>1, SnapshotKept
<1>4. ASSUME NEW w \in Workers, submitTransaction(w) PROVE Goal
  <2>1. PICK u \in TxIds : OrderTx(u, arg[w].kind, arg[w].key, computePayrollHash(arg[w].row))
    BY <1>4 DEF submitTransaction
  <2>2. /\ txs' = [txs EXCEPT ![u] = [st |-> "ordered", kind |-> arg[w].kind, key |-> arg[w].key,
                                       hash |-> computePayrollHash(arg[w].row)]]
        /\ pc[w] \in Recording
    BY <1>4, <2>1 DEF OrderTx, submitTransaction, Recording
  <2>3. CASE u = t
    <3>1. /\ txs'[t].hash = computePayrollHash(arg[w].row)
          /\ arg[w].key = p /\ arg[w].kind = "create"
      BY <1>2, <2>2, <2>3 DEF Anchors
    <3>2. FromCalc(p, computePayrollHash(arg[w].row))
      BY <1>1, <2>2, <3>1 DEF CleanAt, HandsOver, FromCalc, computePayrollHash
    <3> QED BY <1>1, <3>1, <3>2, SnapshotKept
  <2>4. CASE u # t
    BY <1>2, <1>3, <2>2, <2>4
  <2> QED BY <2>3, <2>4
<1>5. ASSUME NEW u \in TxIds, NEW s \in {"valid", "invalid"}, txs' = [txs EXCEPT ![u].st = s]
      PROVE  Goal
  <2>1. u # t
    BY <1>2, <1>5 DEF Anchors, Transactions
  <2> QED BY <1>2, <1>3, <1>5, <2>1
<1>6. ASSUME LedgerStep PROVE Goal
  <2> HIDE DEF Goal
  <2> QED BY <1>5, <1>6
          DEF LedgerStep, CommitRecord, InvalidateDuplicate, CommitAdjustment, LoseTx
<1>7. ASSUME NEW w \in Workers, AnchorStep(w), ~ submitTransaction(w) PROVE UNCHANGED txs
  BY <1>7 DEF AnchorStep, startFinalize, startAdjustment, gatewayReceipt, gatewayError,
     recordAnchored, markPendingAnchor, auditAdjustment, ledgerState
<1>8. ASSUME NEW w \in Workers, VerifyStep(w) \/ abort(w) PROVE UNCHANGED txs
  BY <1>8 DEF VerifyStep, verifyRefused, startVerify, verifyLocal, verifyOnFabric,
     verifyFallback, abort, ledgerState
<1>9. ASSUME UNCHANGED ledgerState \/ UNCHANGED vars PROVE UNCHANGED txs
  BY <1>9 DEF ledgerState, vars
<1> HIDE DEF Goal
<1>10. Goal
  BY <1>3, <1>4, <1>6, <1>7, <1>8, <1>9 DEF Next
<1> QED BY <1>10 DEF FromCalc, Goal

LEMMA EntriesKept ==
  ASSUME IInv, IInv', CleanInv, [Next]_vars, NEW p \in Payrolls, Clean(p)',
         ledger'[p] # NoHash
  PROVE  FromCalc(p, ledger[p])'
<1> DEFINE Goal == ledger'[p].content = calc'[p].content /\ ledger'[p].stamp \in 1..calc'[p].stamp
<1>1. KeepsFigures(p) /\ CleanAt(p)
  BY FiguresKept DEF KeepsFigures, CleanInv
<1>2. ledger \in [Payrolls -> Hashes \cup {NoHash}]
  BY DEF IInv, TypeOK, LedgerTypeOK
<1>3. ASSUME ledger'[p] = ledger[p] PROVE Goal
  <2>1. FromCalc(p, ledger[p])
    BY <1>1, <1>3 DEF CleanAt
  <2> QED BY <1>1, <1>3, <2>1, SnapshotKept
<1>4. ASSUME NEW t \in TxIds, CommitRecord(t) PROVE Goal
  <2>1. ledger' = [ledger EXCEPT ![txs[t].key] = txs[t].hash]
        /\ txs[t].kind = "create" /\ txs[t].st = "ordered"
    BY <1>4 DEF CommitRecord
  <2>2. CASE txs[t].key = p
    <3>1. FromCalc(p, txs[t].hash) /\ ledger'[p] = txs[t].hash
      BY <1>1, <1>2, <2>1, <2>2 DEF CleanAt, Anchors
    <3> QED BY <1>1, <3>1, SnapshotKept
  <2>3. CASE txs[t].key # p
    BY <1>2, <1>3, <2>1, <2>3
  <2> QED BY <2>2, <2>3
<1>5. ASSUME LedgerStep, \A t \in TxIds : ~ CommitRecord(t) PROVE UNCHANGED ledger
  BY <1>5 DEF LedgerStep, InvalidateDuplicate, CommitAdjustment, LoseTx
<1>6. ASSUME NEW w \in Workers, AnchorStep(w) \/ VerifyStep(w) \/ abort(w) PROVE UNCHANGED ledger
  BY <1>6 DEF AnchorStep, startFinalize, startAdjustment, submitTransaction, OrderTx,
     gatewayReceipt, gatewayError, recordAnchored, markPendingAnchor, auditAdjustment,
     VerifyStep, verifyRefused, startVerify, verifyLocal, verifyOnFabric, verifyFallback,
     abort, ledgerState
<1>7. ASSUME UNCHANGED ledgerState \/ UNCHANGED vars PROVE UNCHANGED ledger
  BY <1>7 DEF ledgerState, vars
<1> HIDE DEF Goal
<1>8. Goal
  BY <1>3, <1>4, <1>5, <1>6, <1>7 DEF Next
<1> QED BY <1>8 DEF FromCalc, Goal

LEMMA CleanStep == IInv /\ IInv' /\ CleanInv /\ [Next]_vars => CleanInv'
<1> SUFFICES ASSUME IInv, IInv', CleanInv, [Next]_vars, NEW p \in Payrolls, Clean(p)'
             PROVE  CleanAt(p)'
  BY DEF CleanInv
<1>1. ApprovedOnce(p)'
  BY FiguresKept
<1>2. (rec[p].appr = "Finalized" => FromCalc(p, rec[p]))'
  BY RecordsKept
<1>3. ASSUME NEW w \in Workers PROVE (HandsOver(w, p) => FromCalc(p, arg[w].row))'
  BY CopiesKept
<1>4. ASSUME NEW t \in TxIds PROVE (Anchors(t, p) => FromCalc(p, txs[t].hash))'
  BY SubmissionsKept
<1>5. (ledger[p] # NoHash => FromCalc(p, ledger[p]))'
  BY EntriesKept
<1> QED BY <1>1, <1>2, <1>3, <1>4, <1>5 DEF CleanAt

LEMMA CleanStart == Init => CleanInv
<1> SUFFICES ASSUME Init, NEW p \in Payrolls PROVE CleanAt(p)
  BY DEF CleanInv
<1>1. calc[p].stamp = 0
  BY DEF Init, SnapshotInit
<1>2. ApprovedOnce(p)
  BY <1>1 DEF ApprovedOnce
<1>3. rec[p].appr # "Finalized" /\ ledger[p] = NoHash
  BY DEF Init, SnapshotInit, LedgerInit, NoRow
<1>4. \A w \in Workers : ~ HandsOver(w, p)
  BY DEF Init, SnapshotInit, HandsOver, Recording, Verifying
<1>5. \A t \in TxIds : ~ Anchors(t, p)
  BY DEF Init, LedgerInit, Anchors, FreeTx
<1> QED BY <1>2, <1>3, <1>4, <1>5 DEF CleanAt

(* Of such a payroll, what a verification computes is what the ledger has. *)
LEMMA CleanVerdict ==
  ASSUME IInv, CleanInv, NEW w \in Workers, pc[w] \in Verifying,
         Clean(arg[w].key), ledger[arg[w].key] # NoHash
  PROVE  computePayrollHash(arg[w].row) = ledger[arg[w].key]
<1> DEFINE p == arg[w].key
           h == computePayrollHash(arg[w].row)
<1>1. p \in Payrolls /\ arg[w].row \in Rows /\ ledger[p] \in Hashes
  BY DEF IInv, TypeOK, Args, LedgerTypeOK
<1>2. FromCalc(p, arg[w].row) /\ FromCalc(p, ledger[p]) /\ calc[p].stamp \in 0..1
  <2>1. calc[p].stamp \in Nat
    BY <1>1, BoundsAssumption DEF IInv, TypeOK, Calculations, Stamps
  <2> QED BY <1>1, <2>1 DEF CleanInv, CleanAt, ApprovedOnce, HandsOver
<1>3. arg[w].row.appr = "Finalized" /\ ledger[p].appr = "Finalized"
  BY <1>1 DEF IInv, HandlerInv, VerifyingInv, Verifying, OnlyApprovedAnchored
<1>4. arg[w].row.content = ledger[p].content /\ arg[w].row.stamp = ledger[p].stamp
  BY <1>2 DEF FromCalc
<1>5. h = [content |-> ledger[p].content, stamp |-> ledger[p].stamp, appr |-> ledger[p].appr]
  BY <1>3, <1>4 DEF computePayrollHash
<1> HIDE DEF h
<1> QED BY <1>1, <1>5 DEF Hashes, h

LEMMA AlarmStep ==
  ASSUME IInv, CleanInv, NoFalseAlarm, [Next]_vars
  PROVE  NoFalseAlarm'
<1>1. audit \in SUBSET AuditRows
  BY DEF IInv, TypeOK
<1>2. edited \subseteq edited' /\ tampered \subseteq tampered'
  BY HistoryGrows
<1>3. ASSUME audit' \subseteq audit PROVE NoFalseAlarm'
  BY <1>2, <1>3 DEF NoFalseAlarm
<1>4. ASSUME NEW a, audit' = audit \cup {a}, a.status = "CRITICAL" => ~ Clean(a.key)
      PROVE  NoFalseAlarm'
  BY <1>2, <1>4 DEF NoFalseAlarm, Clean
<1>5. ASSUME NEW p, NEW s, NEW t, NEW h, AuditVerify(p, s, t, h), s = "CRITICAL" => ~ Clean(p)
      PROVE  NoFalseAlarm'
  <2> DEFINE a == AuditRow(p, "VERIFY_INTEGRITY", s, t, h)
  <2>1. a.status = s /\ a.key = p /\ audit' = audit \cup {a}
    BY <1>5 DEF AuditVerify, AuditRow
  <2> HIDE DEF a
  <2> QED BY <1>4, <1>5, <2>1
<1>6. ASSUME NEW w \in Workers, verifyLocal(w) PROVE NoFalseAlarm'
  <2> DEFINE p == arg[w].key
             h == computePayrollHash(arg[w].row)
  <2>1. p \in Payrolls /\ pc[w] \in Verifying
    BY <1>6 DEF verifyLocal, IInv, TypeOK, Args, Verifying
  <2>2. PICK conf \in fetchConfirmedPayrollHash(p, arg[w].row.tx) :
          IF conf \notin {NoHash, h} THEN AuditVerify(p, "CRITICAL", arg[w].row.tx, h)
          ELSE UNCHANGED audit
    BY <1>6 DEF verifyLocal
  <2>3. CASE conf \notin {NoHash, h}
    <3>1. conf = ledger[p]
      BY <2>1, <2>3, ConfirmedHash
    <3>2. ~ Clean(p)
      BY <2>1, <2>3, <3>1, CleanVerdict
    <3> QED BY <1>5, <2>2, <2>3, <3>2
  <2>4. CASE conf \in {NoHash, h}
    BY <1>3, <2>2, <2>4
  <2> QED BY <2>3, <2>4
<1>7. ASSUME NEW w \in Workers, verifyOnFabric(w) PROVE NoFalseAlarm'
  <2> DEFINE p == arg[w].key
             h == computePayrollHash(arg[w].row)
             s == IF ledger[p] = h THEN "VERIFIED" ELSE "CRITICAL"
  <2>1. pc[w] \in Verifying /\ ledger[p] # NoHash /\ AuditVerify(p, s, arg[w].row.tx, h)
    BY <1>7 DEF verifyOnFabric, Verifying
  <2>2. s = "CRITICAL" => ~ Clean(p)
    BY <2>1, CleanVerdict
  <2> HIDE DEF s, p, h
  <2> QED BY <1>5, <2>1, <2>2
<1>8. ASSUME NEW w \in Workers, verifyFallback(w) PROVE NoFalseAlarm'
  <2> DEFINE h == computePayrollHash(arg[w].row)
             s == IF arg[w].conf = NoHash THEN "FABRIC_UNAVAILABLE"
                  ELSE IF arg[w].conf = h THEN "VERIFIED" ELSE "CRITICAL"
  <2>1. pc[w] = "verifyFabric" /\ AuditVerify(arg[w].key, s, arg[w].row.tx, h)
    BY <1>8 DEF verifyFallback
  <2>2. s # "CRITICAL"
    BY <2>1 DEF IInv, HandlerInv, VerifyingInv
  <2> HIDE DEF s, h
  <2> QED BY <1>5, <2>1, <2>2
<1>9. ASSUME NEW w \in Workers, NEW p \in Payrolls, verifyRefused(w, p) PROVE NoFalseAlarm'
  <2>1. \/ AuditVerify(p, "NOT_FOUND", NoTx, NoHash)
        \/ AuditVerify(p, "NOT_FINALIZED", rec[p].tx, NoHash)
        \/ AuditVerify(p, "PENDING_ANCHOR", rec[p].tx, computePayrollHash(rec[p]))
    BY <1>9 DEF verifyRefused
  <2>2. CASE AuditVerify(p, "NOT_FOUND", NoTx, NoHash)
    BY <1>5, <2>2
  <2>3. CASE AuditVerify(p, "NOT_FINALIZED", rec[p].tx, NoHash)
    BY <1>5, <2>3
  <2>4. CASE AuditVerify(p, "PENDING_ANCHOR", rec[p].tx, computePayrollHash(rec[p]))
    BY <1>5, <2>4
  <2> QED BY <2>1, <2>2, <2>3, <2>4
<1>10. ASSUME NEW w \in Workers, VerifyStep(w) \/ abort(w) PROVE NoFalseAlarm'
  <2>1. ASSUME abort(w) \/ \E p \in Payrolls : startVerify(w, p) PROVE UNCHANGED audit
    BY <2>1 DEF startVerify, abort, snapshotData
  <2> QED BY <1>3, <1>6, <1>7, <1>8, <1>9, <1>10, <2>1 DEF VerifyStep
<1>11. ASSUME NEW p, NEW e, NEW s, NEW t, NEW h, audit' = audit \cup {AuditRow(p, e, s, t, h)},
              s # "CRITICAL"
       PROVE  NoFalseAlarm'
  <2> DEFINE a == AuditRow(p, e, s, t, h)
  <2>1. a.status = s
    BY DEF AuditRow
  <2> HIDE DEF a
  <2> QED BY <1>4, <1>11, <2>1 DEF a
<1>12. ASSUME NEW w \in Workers, AnchorStep(w) PROVE NoFalseAlarm'
  <2>1. CASE recordAnchored(w) \/ markPendingAnchor(w) \/ auditAdjustment(w)
    BY <1>11, <2>1 DEF recordAnchored, markPendingAnchor, auditAdjustment
  <2>2. CASE ~ (recordAnchored(w) \/ markPendingAnchor(w) \/ auditAdjustment(w))
    <3>1. UNCHANGED audit
      BY <1>12, <2>2 DEF AnchorStep, startFinalize, startAdjustment, submitTransaction,
         gatewayReceipt, gatewayError, snapshotData
    <3> QED BY <1>3, <3>1
  <2> QED BY <2>1, <2>2
<1>13. ASSUME NEW w \in Workers, PayrollStep(w) PROVE NoFalseAlarm'
  <2>1. CASE writePayrollBlockchainAudit(w)
    <3>1. arg[w].row.bc # "CRITICAL"
      BY DEF IInv, TypeOK, Args, Rows
    <3> QED BY <1>11, <2>1, <3>1 DEF writePayrollBlockchainAudit
  <2>2. CASE ~ writePayrollBlockchainAudit(w)
    <3>1. UNCHANGED audit
      BY <1>13, <2>2 DEF PayrollStep, submitForApproval, approve, releaseOrPay, lock,
         recordTransaction, saveCalculation, editWrite, queueRead, queueUpsert
    <3> QED BY <1>3, <3>1
  <2> QED BY <2>1, <2>2
<1>14. ASSUME UNCHANGED snapshotVars \/ UNCHANGED vars \/ \E p \in Payrolls : changeOutOfBand(p)
       PROVE  UNCHANGED audit
  BY <1>14 DEF snapshotVars, snapshotData, vars, changeOutOfBand
<1> QED BY <1>3, <1>10, <1>12, <1>13, <1>14 DEF Next

(* A CRITICAL verdict has a cause: without an edit after an approval and   *)
(* without a change out of band, no order of approvals, requeues,          *)
(* submissions, lost answers and verifications raises a tampering alarm.   *)
THEOREM AlarmsHaveCause == Spec => []NoFalseAlarm
<1>1. Init => IInv /\ CleanInv /\ NoFalseAlarm
  <2>1. Init => NoFalseAlarm
    BY DEF Init, SnapshotInit, NoFalseAlarm
  <2> QED BY <2>1, InitInv, CleanStart
<1>2. IInv /\ CleanInv /\ NoFalseAlarm /\ [Next]_vars => (IInv /\ CleanInv /\ NoFalseAlarm)'
  BY NextInv, CleanStep, AlarmStep
<1> QED BY <1>1, <1>2, PTL DEF Spec
=============================================================================
