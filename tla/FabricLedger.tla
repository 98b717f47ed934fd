---------------------------- MODULE FabricLedger ----------------------------
(***************************************************************************)
(* The permissioned ledger behind fabricService.js: the payroll-audit      *)
(* chaincode and the transactions a gateway client has in flight.          *)
(*                                                                         *)
(* A client's submitTransaction is endorsed against the current world      *)
(* state, then ordered, then validated when its block commits; the client  *)
(* only waits.  It may stop waiting at any time, and the transaction may   *)
(* still commit afterwards.  The same contract holds the payroll and the   *)
(* DTR records, so the keys are a parameter.                               *)
(***************************************************************************)
EXTENDS Naturals, FiniteSets

CONSTANTS
  Keys,      (* record identifiers: payroll ids or DTR ids                 *)
  Hashes,    (* payload hashes; SHA-256 is taken to be injective           *)
  NoHash,    (* the value of an absent world-state key                     *)
  TxIds      (* Fabric transaction ids; bounds the transactions in flight  *)

VARIABLES
  ledger,     (* ledger[k]: Payroll_Hash of the one FINAL record of k      *)
  amendments, (* amendments[k]: transactions that stored an adjustment     *)
  txs         (* txs[t]: what became of the transaction t                  *)

FreeTx == [st |-> "free", kind |-> "create", key |-> CHOOSE k \in Keys : TRUE,
           hash |-> NoHash]

Transactions == [st   : {"free", "ordered", "valid", "invalid"},
                 kind : {"create", "adjust"},
                 key  : Keys,
                 hash : Hashes \cup {NoHash}]

LedgerTypeOK ==
  /\ ledger \in [Keys -> Hashes \cup {NoHash}]
  /\ amendments \in [Keys -> SUBSET TxIds]
  /\ txs \in [TxIds -> Transactions]

LedgerInit ==
  /\ ledger = [k \in Keys |-> NoHash]
  /\ amendments = [k \in Keys |-> {}]
  /\ txs = [t \in TxIds |-> FreeTx]

(***************************************************************************)
(* Endorsement: CreatePayrollRecord throws when the FINAL key exists,      *)
(* CreatePayrollAdjustmentRecord throws when it does not.                  *)
(***************************************************************************)
Endorsed(kind, k) ==
  IF kind = "create" THEN ledger[k] = NoHash ELSE ledger[k] # NoHash

(* An identifier is free for a new submission once nothing refers to it:   *)
(* reusing it keeps the number of retries unbounded and the model finite.  *)
Reusable(t) == txs[t].st \in {"free", "invalid"}

(* The gateway hands an endorsed transaction to the ordering service.      *)
OrderTx(t, kind, k, h) ==
  /\ Reusable(t)
  /\ Endorsed(kind, k)
  /\ txs' = [txs EXCEPT ![t] = [st |-> "ordered", kind |-> kind,
                                key |-> k, hash |-> h]]
  /\ UNCHANGED <<ledger, amendments>>

(***************************************************************************)
(* Block validation (multi-version concurrency control): what the          *)
(* endorsement read must still be so, or the transaction is invalidated.   *)
(* A create read that its key was absent; an adjustment read a key that    *)
(* nothing ever overwrites, and writes a key of its own that holds its     *)
(* transaction id.                                                         *)
(***************************************************************************)
CommitUnvalidated(t) ==   (* mutant: no check that the key is still absent   *)
  /\ txs[t].st = "ordered"
  /\ txs[t].kind = "create"
  /\ ledger' = [ledger EXCEPT ![txs[t].key] = txs[t].hash]
  /\ txs' = [txs EXCEPT ![t].st = "valid"]
  /\ UNCHANGED amendments

CommitRecord(t) ==
  /\ txs[t].st = "ordered"
  /\ txs[t].kind = "create"
  /\ ledger[txs[t].key] = NoHash
  /\ ledger' = [ledger EXCEPT ![txs[t].key] = txs[t].hash]
  /\ txs' = [txs EXCEPT ![t].st = "valid"]
  /\ UNCHANGED amendments

InvalidateDuplicate(t) ==
  /\ txs[t].st = "ordered"
  /\ txs[t].kind = "create"
  /\ ledger[txs[t].key] # NoHash
  /\ txs' = [txs EXCEPT ![t].st = "invalid"]
  /\ UNCHANGED <<ledger, amendments>>

CommitAdjustment(t) ==
  /\ txs[t].st = "ordered"
  /\ txs[t].kind = "adjust"
  /\ amendments' = [amendments EXCEPT ![txs[t].key] = @ \cup {t}]
  /\ txs' = [txs EXCEPT ![t].st = "valid"]
  /\ UNCHANGED ledger

(* An endorsed transaction that never reaches a block.                     *)
LoseTx(t) ==
  /\ txs[t].st = "ordered"
  /\ txs' = [txs EXCEPT ![t].st = "invalid"]
  /\ UNCHANGED <<ledger, amendments>>

=============================================================================
