--------------------------- MODULE PayrollAnchor ----------------------------
(***************************************************************************)
(* Anchoring payroll on the permissioned blockchain: the handlers of       *)
(* blockchainPayrollController.js (record, verify, adjust) over the        *)
(* snapshot that payroll.js keeps and the ledger that fabricService.js     *)
(* reaches.  None of these handlers locks the PAYROLL_RECORD row it read,  *)
(* and fabricService reports every error of the gateway, a refusal of the  *)
(* chaincode included, as "Fabric unavailable".                            *)
(***************************************************************************)
EXTENDS PayrollSnapshot

VARIABLES ledger, amendments, txs

INSTANCE FabricLedger WITH Keys <- Payrolls

ledgerState == <<ledger, amendments, txs>>
vars == <<calc, rec, audit, pc, arg, edited, tampered, ledger, amendments, txs>>

Labels == {"idle", "statusAudit", "recordWrite", "saveWrite", "queueRead",
           "queueUpsert", "submit", "wait", "receipt", "unavailable",
           "verifyLocal", "verifyFabric"}

(* The events and statuses of the audit rows the handlers write.           *)
AuditRows ==
  [key    : Payrolls,
   event  : {"PAYROLL_SUBMITTED_QUEUE", "PAYROLL_APPROVED_READY_FOR_ANCHOR",
             "FINALIZE_RECORD", "VERIFY_INTEGRITY", "ADJUSTMENT_RECORD"},
   status : {"PENDING_APPROVAL", "PENDING", "PENDING_ANCHOR", "RECORDED",
             "NOT_FOUND", "NOT_FINALIZED", "VERIFIED", "CRITICAL",
             "FABRIC_UNAVAILABLE"},
   tx     : TxIds \cup {NoTx},
   hash   : Hashes \cup {NoHash}]

Args == [key : Payrolls, row : Rows, tx : TxIds \cup {NoTx},
         conf : Hashes \cup {NoHash}, next : CalcStatuses,
         kind : {"create", "adjust"}]

(* Every variable holds values of the kind the code gives it.              *)
TypeOK ==
  /\ calc \in [Payrolls -> Calculations]
  /\ rec \in [Payrolls -> Rows]
  /\ audit \in SUBSET AuditRows
  /\ pc \in [Workers -> Labels]
  /\ arg \in [Workers -> Args]
  /\ edited \in SUBSET Payrolls
  /\ tampered \in SUBSET Payrolls
  /\ LedgerTypeOK

Init == SnapshotInit /\ LedgerInit

-----------------------------------------------------------------------------
(* POST /blockchain/payroll/record and /adjust: finalize and adjustment    *)
(* requests run the same steps up to what they write at the end.           *)

isAnchored(row) == row.bc = "RECORDED" /\ row.tx # NoTx

Begin(w, p, kind, row) ==
  Goto(w, "submit", [NoArg EXCEPT !.key = p, !.row = row, !.kind = kind])

startUnfinalized(w, p) ==   (* mutant: the approval status is not asserted   *)
  /\ Idle(w)
  /\ rec[p].appr # "None"
  /\ ~ isAnchored(rec[p])
  /\ Begin(w, p, "create", rec[p])
  /\ UNCHANGED <<calc, rec, audit, edited, tampered, ledgerState>>

startNeverRetry(w, p) ==    (* mutant: PENDING_ANCHOR counts as recorded       *)
  /\ Idle(w)
  /\ rec[p].appr = "Finalized"
  /\ rec[p].bc = "PENDING"
  /\ Begin(w, p, "create", rec[p])
  /\ UNCHANGED <<calc, rec, audit, edited, tampered, ledgerState>>

(* finalizePayrollAndRecordOnBlockchain up to the gateway call; a record   *)
(* that is anchored already is answered with 409.                          *)
startFinalize(w, p) ==
  /\ Idle(w)
  /\ rec[p].appr = "Finalized"
  /\ ~ isAnchored(rec[p])
  /\ Begin(w, p, "create", rec[p])
  /\ UNCHANGED <<calc, rec, audit, edited, tampered, ledgerState>>

(* createPayrollAdjustment up to the gateway call; the digest of an        *)
(* adjustment is not compared with anything, so it is left out.            *)
startAdjustment(w, p) ==
  /\ Idle(w)
  /\ rec[p].appr = "Finalized"
  /\ Begin(w, p, "adjust", NoRow)
  /\ UNCHANGED <<calc, rec, audit, edited, tampered, ledgerState>>

submitTransaction(w) ==
  /\ pc[w] = "submit"
  /\ \E t \in TxIds :
       /\ \A v \in Workers : arg[v].tx # t
       /\ OrderTx(t, arg[w].kind, arg[w].key, computePayrollHash(arg[w].row))
       /\ Goto(w, "wait", [arg[w] EXCEPT !.tx = t])
  /\ UNCHANGED snapshotData

receiptOnOrder(w) ==        (* mutant: does not wait for the commit status     *)
  /\ pc[w] = "wait"
  /\ txs[arg[w].tx].st \in {"ordered", "valid"}
  /\ Goto(w, "receipt", arg[w])
  /\ UNCHANGED <<snapshotData, ledgerState>>

gatewayReceipt(w) ==
  /\ pc[w] = "wait"
  /\ txs[arg[w].tx].st = "valid"
  /\ Goto(w, "receipt", arg[w])
  /\ UNCHANGED <<snapshotData, ledgerState>>

(* withContract turns any error into "unavailable": Fabric is down, the    *)
(* endorsement or the validation failed, or the answer did not come.       *)
gatewayError(w) ==
  /\ pc[w] \in {"submit", "wait"}
  /\ Goto(w, "unavailable", [arg[w] EXCEPT !.tx = NoTx])
  /\ UNCHANGED <<snapshotData, ledgerState>>

recordRereadRow(w) ==       (* mutant: hashes the row as it is now             *)
  /\ pc[w] = "receipt"
  /\ arg[w].kind = "create"
  /\ LET p == arg[w].key IN
       /\ rec' = [rec EXCEPT ![p].tx = arg[w].tx, ![p].bc = "RECORDED"]
       /\ audit' = audit \cup {AuditRow(p, "FINALIZE_RECORD", "RECORDED", arg[w].tx,
                                        computePayrollHash(rec[p]))}
  /\ Return(w)
  /\ UNCHANGED <<calc, edited, tampered, ledgerState>>

recordAnchored(w) ==
  /\ pc[w] = "receipt"
  /\ arg[w].kind = "create"
  /\ LET p == arg[w].key IN
       /\ rec' = [rec EXCEPT ![p].tx = arg[w].tx, ![p].bc = "RECORDED"]
       /\ audit' = audit \cup {AuditRow(p, "FINALIZE_RECORD", "RECORDED", arg[w].tx,
                                        computePayrollHash(arg[w].row))}
  /\ Return(w)
  /\ UNCHANGED <<calc, edited, tampered, ledgerState>>

markFailed(w) ==            (* mutant: a status the column never had           *)
  /\ pc[w] = "unavailable"
  /\ arg[w].kind = "create"
  /\ rec' = [rec EXCEPT ![arg[w].key].bc = "FAILED"]
  /\ Return(w)
  /\ UNCHANGED <<calc, audit, edited, tampered, ledgerState>>

markPendingAnchor(w) ==
  /\ pc[w] = "unavailable"
  /\ arg[w].kind = "create"
  /\ LET p == arg[w].key IN
       /\ rec' = [rec EXCEPT ![p].bc = "PENDING_ANCHOR"]
       /\ audit' = audit \cup {AuditRow(p, "FINALIZE_RECORD", "PENDING_ANCHOR", NoTx,
                                        computePayrollHash(arg[w].row))}
  /\ Return(w)
  /\ UNCHANGED <<calc, edited, tampered, ledgerState>>

(* An adjustment only leaves an audit row, whichever way it went.          *)
auditAdjustment(w) ==
  /\ pc[w] \in {"receipt", "unavailable"}
  /\ arg[w].kind = "adjust"
  /\ LET s == IF pc[w] = "receipt" THEN "RECORDED" ELSE "PENDING_ANCHOR" IN
       audit' = audit \cup {AuditRow(arg[w].key, "ADJUSTMENT_RECORD", s, arg[w].tx, NoHash)}
  /\ Return(w)
  /\ UNCHANGED <<calc, rec, edited, tampered, ledgerState>>

-----------------------------------------------------------------------------
(* GET /blockchain/payroll/verify/:payrollId *)

AuditVerify(p, s, t, h) ==
  audit' = audit \cup {AuditRow(p, "VERIFY_INTEGRITY", s, t, h)}

(* A record that is absent, not finalized or not anchored.                 *)
verifyRefused(w, p) ==
  /\ Idle(w)
  /\ LET row == rec[p] IN
       \/ /\ row.appr = "None"
          /\ AuditVerify(p, "NOT_FOUND", NoTx, NoHash)
       \/ /\ row.appr = "For Approval"
          /\ AuditVerify(p, "NOT_FINALIZED", row.tx, NoHash)
       \/ /\ row.appr = "Finalized"
          /\ ~ isAnchored(row)
          /\ AuditVerify(p, "PENDING_ANCHOR", row.tx, computePayrollHash(row))
  /\ UNCHANGED <<calc, rec, pc, arg, edited, tampered, ledgerState>>

startVerify(w, p) ==
  /\ Idle(w)
  /\ rec[p].appr = "Finalized"
  /\ isAnchored(rec[p])
  /\ Goto(w, "verifyLocal", [NoArg EXCEPT !.key = p, !.row = rec[p]])
  /\ UNCHANGED <<snapshotData, ledgerState>>

(* The rows fetchConfirmedPayrollHash selects from, and the rank of its    *)
(* ORDER BY; the newest row of the best rank is one of the best-ranked.    *)
ConfirmedRows(p) ==
  {a \in audit : /\ a.key = p
                 /\ a.hash # NoHash
                 /\ a.status \in {"RECORDED", "VERIFIED"}
                 /\ a.event \in {"FINALIZE_RECORD", "VERIFY_INTEGRITY"}}

Rank(a, t) == CASE a.event = "FINALIZE_RECORD" /\ a.tx = t  -> 1
                [] a.event = "FINALIZE_RECORD" /\ a.tx # t  -> 2
                [] a.event # "FINALIZE_RECORD" /\ a.tx = t  -> 3
                [] OTHER                                    -> 4

fetchConfirmedPayrollHash(p, t) ==
  LET rows == ConfirmedRows(p)
      best == {a \in rows : \A b \in rows : Rank(a, t) <= Rank(b, t)}
  IN  IF rows = {} THEN {NoHash} ELSE {a.hash : a \in best}

verifyLocal(w) ==
  /\ pc[w] = "verifyLocal"
  /\ LET p == arg[w].key
         h == computePayrollHash(arg[w].row)
     IN  \E conf \in fetchConfirmedPayrollHash(p, arg[w].row.tx) :
           IF conf \notin {NoHash, h}
           THEN AuditVerify(p, "CRITICAL", arg[w].row.tx, h) /\ Return(w)
           ELSE /\ Goto(w, "verifyFabric", [arg[w] EXCEPT !.conf = conf])
                /\ UNCHANGED audit
  /\ UNCHANGED <<calc, rec, edited, tampered, ledgerState>>

(* VerifyPayrollHash throws when the record is absent.                     *)
verifyOnFabric(w) ==
  /\ pc[w] = "verifyFabric"
  /\ LET p == arg[w].key
         h == computePayrollHash(arg[w].row)
     IN  /\ ledger[p] # NoHash
         /\ AuditVerify(p, IF ledger[p] = h THEN "VERIFIED" ELSE "CRITICAL",
                        arg[w].row.tx, h)
  /\ Return(w)
  /\ UNCHANGED <<calc, rec, edited, tampered, ledgerState>>

(* Fabric unavailable: the confirmed local hash stands in for the ledger.  *)
verifyFallback(w) ==
  /\ pc[w] = "verifyFabric"
  /\ LET h == computePayrollHash(arg[w].row)
         s == IF arg[w].conf = NoHash THEN "FABRIC_UNAVAILABLE"
              ELSE IF arg[w].conf = h THEN "VERIFIED" ELSE "CRITICAL"
     IN  AuditVerify(arg[w].key, s, arg[w].row.tx, h)
  /\ Return(w)
  /\ UNCHANGED <<calc, rec, edited, tampered, ledgerState>>

-----------------------------------------------------------------------------
(* A handler that fails (or a process that stops) between two of its       *)
(* statements leaves what it has committed.                                *)
abort(w) ==
  /\ ~ Idle(w)
  /\ Return(w)
  /\ UNCHANGED <<snapshotData, ledgerState>>

PayrollStep(w) ==
  \/ \E p \in Payrolls :
       \/ submitForApproval(w, p) \/ approve(w, p) \/ releaseOrPay(w, p) \/ lock(w, p)
       \/ recordTransaction(w, p) \/ saveCalculation(w, p)
  \/ writePayrollBlockchainAudit(w) \/ editWrite(w) \/ queueRead(w) \/ queueUpsert(w)

AnchorStep(w) ==
  \/ \E p \in Payrolls : startFinalize(w, p) \/ startAdjustment(w, p)
  \/ submitTransaction(w) \/ gatewayReceipt(w) \/ gatewayError(w)
  \/ recordAnchored(w) \/ markPendingAnchor(w) \/ auditAdjustment(w)

VerifyStep(w) ==
  \/ \E p \in Payrolls : verifyRefused(w, p) \/ startVerify(w, p)
  \/ verifyLocal(w) \/ verifyOnFabric(w) \/ verifyFallback(w)

LedgerStep == \E t \in TxIds :
  CommitRecord(t) \/ InvalidateDuplicate(t) \/ CommitAdjustment(t) \/ LoseTx(t)

Next ==
  \/ \E w \in Workers :
       \/ PayrollStep(w) /\ UNCHANGED ledgerState
       \/ AnchorStep(w)
       \/ VerifyStep(w)
       \/ abort(w)
  \/ LedgerStep /\ UNCHANGED snapshotVars
  \/ \E p \in Payrolls : changeOutOfBand(p) /\ UNCHANGED ledgerState

Spec == Init /\ [][Next]_vars
-----------------------------------------------------------------------------
(* Properties *)

(* The verdicts given so far, and the promise of EvidenceLog: one          *)
(* immutable entry per payroll on the ledger, whatever number of handlers  *)
(* raced to submit it; adjustments only after it; and no verdict, Fabric's *)
(* or the fallback's, that misreports the comparison with that entry.      *)
Verdicts ==
  {<<a.key, a.hash, a.status>> :
     a \in {b \in audit : b.event = "VERIFY_INTEGRITY"
                          /\ b.status \in {"VERIFIED", "CRITICAL"}}}

Evidence == INSTANCE EvidenceLog
              WITH Keys <- Payrolls, Ids <- TxIds,
                   evidence <- ledger, verdicts <- Verdicts

ImplementsEvidenceLog == Evidence!Spec

(* A record marked RECORDED carries the transaction that stored a hash for *)
(* it on the ledger, and the receipt is in the audit log.                  *)
RecordedHasEvidence ==
  \A p \in Payrolls : rec[p].bc = "RECORDED" =>
    /\ ledger[p] # NoHash
    /\ \E a \in audit : /\ a.key = p
                        /\ a.event = "FINALIZE_RECORD"
                        /\ a.status = "RECORDED"
                        /\ a.tx = rec[p].tx
                        /\ a.hash = ledger[p]

(* A receipt or a VERIFIED verdict in the audit log, from Fabric or from   *)
(* the local fallback, names exactly the hash the ledger holds; a CRITICAL *)
(* verdict names another one.                                              *)
IsVerdict(a) == a.event \in {"FINALIZE_RECORD", "VERIFY_INTEGRITY"}

VerdictsAgreeWithLedger ==
  \A a \in audit : IsVerdict(a) =>
    /\ a.status \in {"RECORDED", "VERIFIED"} => a.hash = ledger[a.key] /\ a.hash # NoHash
    /\ a.status = "CRITICAL" => ledger[a.key] \notin {a.hash, NoHash}

(* A tampering alarm has a cause: the record was changed out of band, or   *)
(* its calculation was edited after an approval.                           *)
NoFalseAlarm ==
  \A a \in audit : a.status = "CRITICAL" => a.key \in tampered \cup edited

(* No status update and no requeue changes what a RECORDED record hashes   *)
(* to: only an out-of-band change does.                                    *)
RecordedFieldsFrozen ==
  [][\A p \in Payrolls :
       /\ rec[p].bc = "RECORDED"
       /\ computePayrollHash(rec'[p]) # computePayrollHash(rec[p])
       => rec'[p].content = Forged]_vars

(* The ledger only holds snapshots taken after a manager approved.         *)
OnlyApprovedAnchored ==
  \A p \in Payrolls : ledger[p] # NoHash =>
    /\ ledger[p].appr = "Finalized"
    /\ ledger[p].stamp \in 1..calc[p].stamp

-----------------------------------------------------------------------------
(* Fairness: a handler runs to its end; users keep asking for a record     *)
(* that is not anchored; Fabric accepts and commits some of the            *)
(* submissions it keeps getting.                                           *)

HandlerProgress(w) ==
  \/ (writePayrollBlockchainAudit(w) \/ editWrite(w) \/ queueRead(w) \/ queueUpsert(w))
       /\ UNCHANGED ledgerState
  \/ gatewayReceipt(w) \/ gatewayError(w)
  \/ recordAnchored(w) \/ markPendingAnchor(w) \/ auditAdjustment(w)
  \/ verifyLocal(w) \/ verifyFallback(w)

Fairness ==
  /\ \A w \in Workers :
       /\ WF_vars(HandlerProgress(w))
       /\ SF_vars(submitTransaction(w))
       /\ SF_vars(gatewayReceipt(w))
       /\ SF_vars(recordAnchored(w))
       /\ \A p \in Payrolls : SF_vars(startFinalize(w, p))
  /\ \A t \in TxIds : SF_vars((CommitRecord(t) \/ InvalidateDuplicate(t))
                               /\ UNCHANGED snapshotVars)

FairSpec == Spec /\ Fairness

(* A payroll that stays finalized is eventually on the ledger, however     *)
(* many attempts were lost, timed out or aborted before.                   *)
EventuallyOnLedger ==
  \A p \in Payrolls :
    <>[](rec[p].appr = "Finalized") => <>(ledger[p] # NoHash)
-----------------------------------------------------------------------------
(* What the documentation says of this program and the code does not keep. *)

(* "Finalized, released, or locked salary calculations are read-only": the *)
(* transaction handlers accept Approved and Locked calculations.           *)
LockedFiguresFrozen ==
  [][\A p \in Payrolls :
       calc[p].status \in LockedStatuses => calc'[p].content = calc[p].content]_vars
=============================================================================
