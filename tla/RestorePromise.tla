---------------------------- MODULE RestorePromise ----------------------------
(***************************************************************************)
(* What the recovery API promises of a request that changes a system: it   *)
(* was asked for and approved before, a restore was rehearsed as well, and *)
(* a target is only changed for a request that was started.                *)
(***************************************************************************)
CONSTANTS Restores, Rollbacks

VARIABLES
  stage,    \* stage[j]: how far the request has come
  begun,    \* the requests that were started at some time
  changed   \* the requests whose target was changed

Jobs == Restores \cup Rollbacks
vars == <<stage, begun, changed>>
Stages == {"none", "asked", "approved", "rehearsed", "started", "over"}

Init == stage = [j \in Jobs |-> "none"] /\ begun = {} /\ changed = {}

Move(j, from, to) == stage[j] \in from /\ stage' = [stage EXCEPT ![j] = to]

Ask(j) == Move(j, {"none"}, "asked") /\ UNCHANGED <<begun, changed>>
Approve(j) == Move(j, {"asked"}, "approved") /\ UNCHANGED <<begun, changed>>
Rehearse(j) ==
  j \in Restores /\ Move(j, {"approved"}, "rehearsed") /\ UNCHANGED <<begun, changed>>
Start(j) ==
  /\ Move(j, IF j \in Restores THEN {"rehearsed"} ELSE {"approved"}, "started")
  /\ begun' = begun \cup {j} /\ UNCHANGED changed
Change(j) == j \in begun /\ changed' = changed \cup {j} /\ UNCHANGED <<stage, begun>>
Close(j) == Move(j, Stages \ {"none"}, "over") /\ UNCHANGED <<begun, changed>>

Next == \E j \in Jobs :
          Ask(j) \/ Approve(j) \/ Rehearse(j) \/ Start(j) \/ Change(j) \/ Close(j)

Spec == Init /\ [][Next]_vars
=============================================================================
