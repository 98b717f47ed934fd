-------------------------- MODULE PayrollSnapshot ---------------------------
(***************************************************************************)
(* One salary calculation per payroll and its off-chain integrity          *)
(* snapshot: the rows salary_calculations, PAYROLL_RECORD and              *)
(* BLOCKCHAIN_AUDIT_LOG, and the payroll.js handlers that write them.      *)
(*                                                                         *)
(* A request handler is a worker.  A handler that holds a transaction and  *)
(* the row lock of SELECT ... FOR UPDATE is one step up to its commit; a   *)
(* handler that works on the pool is one step per statement, with the row  *)
(* it read kept in arg[w].                                                 *)
(***************************************************************************)
EXTENDS Naturals, FiniteSets

CONSTANTS
  Payrolls,      (* salary calculation ids (= Payroll_ID)                   *)
  Workers,       (* request handlers that may be active at once             *)
  TxIds,         (* Fabric transaction ids                                  *)
  NoTx,          (* a NULL Transaction_Hash                                 *)
  MaxEdits,      (* bound: how often the content of a calculation changes   *)
  MaxApprovals   (* bound: how often a calculation is approved              *)

ASSUME BoundsAssumption == MaxEdits \in Nat /\ MaxApprovals \in Nat
ASSUME NoTxAssumption == NoTx \notin TxIds
ASSUME PayrollsAssumption == Payrolls # {}

VARIABLES
  calc,     (* calc[p]: status, content (version of the pay figures) and   *)
            (* approval stamp (approved_at with approved_by, 0 for NULL)   *)
  rec,      (* rec[p]: the PAYROLL_RECORD row, NoRow when absent           *)
  audit,    (* the BLOCKCHAIN_AUDIT_LOG rows                                *)
  pc,       (* pc[w]: the statement the handler of w runs next             *)
  arg,      (* arg[w]: the local variables of that handler                 *)
  edited,   (* history: the calculations edited after an approval          *)
  tampered  (* history: the records changed behind the application         *)

snapshotData == <<calc, rec, audit, edited, tampered>>
snapshotVars == <<snapshotData, pc, arg>>

CalcStatuses == {"Draft", "For Review", "Submitted", "For Approval",
                 "Approved", "Released", "Locked", "Paid"}
LockedStatuses == {"Approved", "Released", "Locked", "Paid"}

Forged == MaxEdits + 1      (* figures no calculation ever had              *)
Contents == 0..Forged
Stamps == 0..MaxApprovals
Calculations == [status : CalcStatuses, content : 0..MaxEdits, stamp : Stamps]

(* What computePayrollHash digests: figures, approval stamp and the        *)
(* approval status of the row.                                             *)
Hashes == [content : Contents, stamp : Stamps, appr : {"For Approval", "Finalized"}]
NoHash == [content |-> 0, stamp |-> 0, appr |-> "None"]
computePayrollHash(row) ==
  [content |-> row.content, stamp |-> row.stamp, appr |-> row.appr]

Rows == [content : Contents, stamp : Stamps,
         appr    : {"None", "For Approval", "Finalized"},
         bc      : {"NONE", "PENDING_APPROVAL", "PENDING", "PENDING_ANCHOR", "RECORDED"},
         tx      : TxIds \cup {NoTx}]
NoRow == [content |-> 0, stamp |-> 0, appr |-> "None", bc |-> "NONE", tx |-> NoTx]

AuditRow(p, e, s, t, h) == [key |-> p, event |-> e, status |-> s, tx |-> t, hash |-> h]

NoArg == [key |-> CHOOSE p \in Payrolls : TRUE, row |-> NoRow, tx |-> NoTx,
          conf |-> NoHash, next |-> "Draft", kind |-> "create"]

Idle(w) == pc[w] = "idle"

(* The handler of w goes on at l with the locals a, or is done.            *)
Goto(w, l, a) == pc' = [pc EXCEPT ![w] = l] /\ arg' = [arg EXCEPT ![w] = a]
Return(w) == Goto(w, "idle", NoArg)

SnapshotInit ==
  /\ calc \in [Payrolls -> [status : {"Draft", "For Review"}, content : {0}, stamp : {0}]]
  /\ rec = [p \in Payrolls |-> NoRow]
  /\ audit = {}
  /\ pc = [w \in Workers |-> "idle"]
  /\ arg = [w \in Workers |-> NoArg]
  /\ edited = {}
  /\ tampered = {}

-----------------------------------------------------------------------------
(* The two snapshots of a calculation c, and the upsert that stores one:   *)
(* it leaves a RECORDED row alone and never clears the transaction hash.   *)

submittedRow(c) == [content |-> c.content, stamp |-> 0, appr |-> "For Approval",
                    bc |-> "PENDING_APPROVAL", tx |-> NoTx]

finalizedRow(c) == [content |-> c.content, stamp |-> c.stamp, appr |-> "Finalized",
                    bc |-> "PENDING", tx |-> NoTx]

upsertedUnguarded(old, row) == [row EXCEPT !.tx = old.tx]   (* mutant *)
upsertedRow(old, row) ==
  IF old.bc = "RECORDED" THEN old ELSE [row EXCEPT !.tx = old.tx]
upsertRecord(p, row) == rec' = [rec EXCEPT ![p] = upsertedRow(@, row)]

(* The row the handler still has to insert once the CREATE TABLE IF NOT    *)
(* EXISTS before it has committed the transaction.                         *)
PendingAudit(p, row) == [NoArg EXCEPT !.key = p, !.row = row]

-----------------------------------------------------------------------------
(* PATCH /salary-calculations/:id/status *)

Transitions ==
  ({"Draft", "For Review"} \X {"For Approval"})
    \cup ({"For Review", "Submitted", "For Approval"} \X {"Approved"})
    \cup ({"Approved"} \X {"Released", "Paid", "Locked"})
    \cup ({"Released"} \X {"Locked", "Paid"})

submitForApproval(w, p) ==
  /\ Idle(w)
  /\ <<calc[p].status, "For Approval">> \in Transitions
  /\ calc' = [calc EXCEPT ![p].status = "For Approval"]
  /\ upsertRecord(p, submittedRow(calc[p]))
  /\ Goto(w, "statusAudit", PendingAudit(p, submittedRow(calc[p])))
  /\ UNCHANGED <<audit, edited, tampered>>

(* approved_at = NOW(), approved_by = the user                             *)
stamped(c, status) ==
  [status |-> status, content |-> c.content, stamp |-> c.stamp + 1]

approve(w, p) ==
  /\ Idle(w)
  /\ <<calc[p].status, "Approved">> \in Transitions
  /\ calc[p].stamp < MaxApprovals
  /\ calc' = [calc EXCEPT ![p] = stamped(calc[p], "Approved")]
  /\ upsertRecord(p, finalizedRow(stamped(calc[p], "Approved")))
  /\ Goto(w, "statusAudit", PendingAudit(p, finalizedRow(stamped(calc[p], "Approved"))))
  /\ UNCHANGED <<audit, edited, tampered>>

(* mutant: approved_at is stamped on every status update                   *)
releaseOrPayRestamped(w, p) ==
  /\ Idle(w)
  /\ <<calc[p].status, "Released">> \in Transitions
  /\ calc[p].stamp < MaxApprovals
  /\ calc' = [calc EXCEPT ![p] = stamped(calc[p], "Released")]
  /\ upsertRecord(p, finalizedRow(stamped(calc[p], "Released")))
  /\ Goto(w, "statusAudit", PendingAudit(p, finalizedRow(stamped(calc[p], "Released"))))
  /\ UNCHANGED <<audit, edited, tampered>>

(* Released and Paid store the snapshot again.                             *)
releaseOrPay(w, p) ==
  /\ Idle(w)
  /\ \E to \in {"Released", "Paid"} :
       /\ <<calc[p].status, to>> \in Transitions
       /\ calc' = [calc EXCEPT ![p].status = to]
  /\ upsertRecord(p, finalizedRow(calc[p]))
  /\ Goto(w, "statusAudit", PendingAudit(p, finalizedRow(calc[p])))
  /\ UNCHANGED <<audit, edited, tampered>>

(* Locked is not among the statuses syncFinalizedPayrollRecord stores.     *)
lock(w, p) ==
  /\ Idle(w)
  /\ <<calc[p].status, "Locked">> \in Transitions
  /\ calc' = [calc EXCEPT ![p].status = "Locked"]
  /\ UNCHANGED <<rec, audit, pc, arg, edited, tampered>>

writePayrollBlockchainAudit(w) ==
  /\ pc[w] = "statusAudit"
  /\ LET row == arg[w].row
         e   == IF row.appr = "Finalized" THEN "PAYROLL_APPROVED_READY_FOR_ANCHOR"
                                          ELSE "PAYROLL_SUBMITTED_QUEUE"
     IN  audit' = audit \cup {AuditRow(arg[w].key, e, row.bc, NoTx, computePayrollHash(row))}
  /\ Return(w)
  /\ UNCHANGED <<calc, rec, edited, tampered>>

-----------------------------------------------------------------------------
(* The handlers that encode pay figures work on the pool: they read the    *)
(* status of the calculation, decide, and write by id alone.               *)

(* POST /transactions/production and /transactions/logistics               *)
recordTransaction(w, p) ==
  /\ Idle(w)
  /\ calc[p].status \notin {"Released", "Paid"}
  /\ calc[p].content < MaxEdits
  /\ \E requested \in {"Draft", "Submitted"} :
       LET next == IF calc[p].status = "Draft" THEN requested ELSE calc[p].status
       IN  Goto(w, "recordWrite", [NoArg EXCEPT !.key = p, !.next = next])
  /\ UNCHANGED <<calc, rec, audit, edited, tampered>>

(* POST /salary-calculation with the id of an existing calculation         *)
saveCalculation(w, p) ==
  /\ Idle(w)
  /\ calc[p].status \notin LockedStatuses
  /\ calc[p].content < MaxEdits
  /\ \E requested \in {"Draft", "Submitted"} :
       Goto(w, "saveWrite", [NoArg EXCEPT !.key = p, !.next = requested])
  /\ UNCHANGED <<calc, rec, audit, edited, tampered>>

reencoded(c, next) ==
  [status |-> next, content |-> c.content + 1, stamp |-> c.stamp]

editWrite(w) ==
  /\ pc[w] \in {"recordWrite", "saveWrite"}
  /\ LET p == arg[w].key IN
       /\ calc[p].content < MaxEdits
       /\ calc' = [calc EXCEPT ![p] = reencoded(calc[p], arg[w].next)]
       /\ edited' = IF calc[p].stamp > 0 THEN edited \cup {p} ELSE edited
  /\ IF pc[w] = "recordWrite" \/ arg[w].next = "Submitted"
     THEN Goto(w, "queueRead", [NoArg EXCEPT !.key = arg[w].key])
     ELSE Return(w)
  /\ UNCHANGED <<rec, audit, tampered>>

(* queueSubmittedPayrollRecord(pool, ...): nothing holds the calculation   *)
(* between its SELECT and its upsert.                                      *)
queueRead(w) ==
  /\ pc[w] = "queueRead"
  /\ LET c == calc[arg[w].key] IN
       IF c.status \in {"For Approval", "Submitted"}
       THEN Goto(w, "queueUpsert", [arg[w] EXCEPT !.row = submittedRow(c)])
       ELSE Return(w)
  /\ UNCHANGED <<calc, rec, audit, edited, tampered>>

queueUpsert(w) ==
  /\ pc[w] = "queueUpsert"
  /\ upsertRecord(arg[w].key, arg[w].row)
  /\ Goto(w, "statusAudit", arg[w])
  /\ UNCHANGED <<calc, audit, edited, tampered>>

(* PAYROLL_RECORD changed by a statement that is none of the application's,*)
(* as in the integrity walk-through of the README.                         *)
changeOutOfBand(p) ==
  /\ rec[p].appr # "None"
  /\ rec' = [rec EXCEPT ![p].content = Forged]
  /\ tampered' = tampered \cup {p}
  /\ UNCHANGED <<calc, audit, pc, arg, edited>>

=============================================================================
