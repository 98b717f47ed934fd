---------------------------- MODULE EvidenceLog -----------------------------
(***************************************************************************)
(* What anchoring promises, whatever the handlers, retries and lost        *)
(* answers in between: a record is attested at most once, amendments only  *)
(* follow an attestation, and a verdict on a record is given only against  *)
(* its attestation and says truly whether the presented hash is the        *)
(* attested one.                                                           *)
(***************************************************************************)
CONSTANTS
  Keys,     (* the records                                                 *)
  Hashes,   (* what a record may hash to                                   *)
  NoHash,   (* the evidence of a record that is not attested               *)
  Ids       (* names of amendments                                         *)

VARIABLES
  evidence,    (* evidence[k]: the attested hash of k                      *)
  amendments,  (* amendments[k]: the amendments of k                       *)
  verdicts     (* the verdicts given, as <<record, hash, "VERIFIED" or     *)
               (* "CRITICAL">>                                             *)

vars == <<evidence, amendments, verdicts>>

Init ==
  /\ evidence = [k \in Keys |-> NoHash]
  /\ amendments = [k \in Keys |-> {}]
  /\ verdicts = {}

Attest(k, h) ==
  /\ evidence[k] = NoHash
  /\ evidence' = [evidence EXCEPT ![k] = h]
  /\ UNCHANGED <<amendments, verdicts>>

Amend(k, i) ==
  /\ evidence[k] # NoHash
  /\ amendments' = [amendments EXCEPT ![k] = @ \cup {i}]
  /\ UNCHANGED <<evidence, verdicts>>

Judge(k, h) ==
  /\ evidence[k] # NoHash
  /\ verdicts' = verdicts \cup {<<k, h, IF h = evidence[k] THEN "VERIFIED" ELSE "CRITICAL">>}
  /\ UNCHANGED <<evidence, amendments>>

Next == \E k \in Keys :
  \/ \E h \in Hashes : Attest(k, h) \/ Judge(k, h)
  \/ \E i \in Ids : Amend(k, i)

Spec == Init /\ [][Next]_vars
=============================================================================
