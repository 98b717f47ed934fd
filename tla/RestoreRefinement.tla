-------------------------- MODULE RestoreRefinement --------------------------
(***************************************************************************)
(* RestoreWorkflow implements RestorePromise for every value of the        *)
(* constants: a request moves along the stages of the promise, or is       *)
(* closed from any of them, and only one that was started changes its      *)
(* target.                                                                 *)
(***************************************************************************)
EXTENDS RestoreWorkflowProofs

stages == [j \in Jobs |-> Stage(job[j])]
starts == {j \in Jobs : job[j].started}

LEMMA StageValue ==
  ASSUME NEW r \in Row
  PROVE  /\ Stage(r) \in Promise!Stages
         /\ Stage(r) = "none" <=> r.status = "none"
         /\ r.status = "AWAITING_APPROVAL" => Stage(r) = "asked"
         /\ r.status \in {"APPROVED", "DRY_RUN_IN_PROGRESS"} => Stage(r) = "approved"
         /\ r.status = "DRY_RUN_PASSED" => Stage(r) = "rehearsed"
         /\ r.status \in {"IN_PROGRESS", "VERIFYING"} => Stage(r) = "started"
         /\ r.status \in Closed => Stage(r) = "over"
  BY DEF Stage, Promise!Stages, Row, Open, Closed

(* How a step moves a request from row q to row r.                         *)
Closes(q, r) == q.status # "none" /\ r.status \in Closed /\ r.started = q.started
Stays(q, r) == Stage(r) = Stage(q) /\ r.started = q.started
MovesTo(j, q, r) ==
  \/ Stays(q, r) \/ Closes(q, r)
  \/ /\ r.started = q.started
     /\ \/ Stage(q) = "none" /\ Stage(r) = "asked"
        \/ Stage(q) = "asked" /\ Stage(r) = "approved"
        \/ j \in Restores /\ Stage(q) = "approved" /\ Stage(r) = "rehearsed"
  \/ /\ r.started /\ Stage(r) = "started"
     /\ Stage(q) = IF j \in Restores THEN "rehearsed" ELSE "approved"

LEMMA QuietMaps ==
  ASSUME UNCHANGED <<job, touched>>
  PROVE  UNCHANGED Promise!vars
  BY DEF Promise!vars

LEMMA MoveMaps ==
  ASSUME IInv, NEW j \in Jobs, NEW r \in Row, job' = [job EXCEPT ![j] = r],
         UNCHANGED touched, MovesTo(j, job[j], r)
  PROVE  [Promise!Next]_Promise!vars
<1>1. job \in [Jobs -> Row] /\ job[j] \in Row
  BY Types DEF IInv
<1>2. stages' = [stages EXCEPT ![j] = Stage(r)] /\ stages[j] = Stage(job[j])
  <2>1. stages' = [k \in Jobs |-> Stage(job'[k])]
    BY DEF stages, Stage
  <2>2. ASSUME NEW k \in Jobs
        PROVE  Stage(job'[k]) = IF k = j THEN Stage(r) ELSE Stage(job[k])
    <3>1. job'[k] = IF k = j THEN r ELSE job[k]
      BY <1>1
    <3>2. CASE k = j
      BY <3>1, <3>2
    <3>3. CASE k # j
      BY <3>1, <3>3
    <3> QED BY <3>2, <3>3
  <2> QED BY <2>1, <2>2 DEF stages
<1>3. r.started = job[j].started => starts' = starts
  BY <1>1 DEF starts
<1>4. r.started => starts' = starts \cup {j}
  BY <1>1 DEF starts
<1>5. j \in Promise!Jobs
  BY DEF Jobs, Promise!Jobs
<1>6. CASE Stays(job[j], r)
  <2>1. stages' = stages
    BY <1>2, <1>6 DEF Stays, stages
  <2> QED BY <1>3, <1>6, <2>1 DEF Stays, stages, starts, Promise!vars
<1>7. CASE Closes(job[j], r)
  <2>1. stages[j] \in Promise!Stages \ {"none"} /\ Stage(r) = "over"
    BY <1>1, <1>2, <1>7, StageValue DEF Closes
  <2>2. Promise!Close(j)
    BY <1>2, <1>3, <1>7, <2>1 DEF Closes, Promise!Close, Promise!Move, stages, starts
  <2> QED BY <1>5, <2>2 DEF Promise!Next
<1>8. CASE Stage(job[j]) = "none" /\ Stage(r) = "asked" /\ r.started = job[j].started
  <2>1. Promise!Ask(j)
    BY <1>2, <1>3, <1>8 DEF Promise!Ask, Promise!Move, stages, starts
  <2> QED BY <1>5, <2>1 DEF Promise!Next
<1>9. CASE Stage(job[j]) = "asked" /\ Stage(r) = "approved" /\ r.started = job[j].started
  <2>1. Promise!Approve(j)
    BY <1>2, <1>3, <1>9 DEF Promise!Approve, Promise!Move, stages, starts
  <2> QED BY <1>5, <2>1 DEF Promise!Next
<1>10. CASE /\ j \in Restores /\ Stage(job[j]) = "approved" /\ Stage(r) = "rehearsed"
            /\ r.started = job[j].started
  <2>1. Promise!Rehearse(j)
    BY <1>2, <1>3, <1>10 DEF Promise!Rehearse, Promise!Move, stages, starts
  <2> QED BY <1>5, <2>1 DEF Promise!Next
<1>11. CASE /\ r.started /\ Stage(r) = "started"
            /\ Stage(job[j]) = IF j \in Restores THEN "rehearsed" ELSE "approved"
  <2>1. Promise!Start(j)
    BY <1>2, <1>4, <1>11 DEF Promise!Start, Promise!Move, stages, starts
  <2> QED BY <1>5, <2>1 DEF Promise!Next
<1> QED BY <1>6, <1>7, <1>8, <1>9, <1>10, <1>11 DEF MovesTo

(* The target of a request that was started changes.                       *)
LEMMA ChangeMaps ==
  ASSUME IInv, NEW j \in Jobs, job[j].started, UNCHANGED job, touched' = touched \cup {j}
  PROVE  [Promise!Next]_Promise!vars
<1>1. Promise!Change(j)
  BY DEF Promise!Change
<1>2. j \in Promise!Jobs
  BY DEF Jobs, Promise!Jobs
<1> QED BY <1>1, <1>2 DEF Promise!Next

LEMMA InitMaps == Init => Promise!Init
<1> SUFFICES ASSUME Init PROVE Promise!Init
  OBVIOUS
<1>1. \A j \in Jobs : job[j] = NoJob
  BY DEF Init
<1>2. Stage(NoJob) = "none" /\ NoJob.started = FALSE
  BY DEF NoJob, Stage
<1>3. [j \in Jobs |-> Stage(job[j])] = [j \in Jobs |-> "none"] /\ {j \in Jobs : job[j].started} = {}
  BY <1>1, <1>2
<1> QED BY <1>3 DEF Init, Promise!Init, Promise!Jobs, Jobs
-----------------------------------------------------------------------------
LEMMA HandlerMaps ==
  ASSUME IInv, NEW j \in Jobs, approve(j) \/ reject(j) \/ cancel(j) \/ recoverExpiredOperations(j)
  PROVE  [Promise!Next]_Promise!vars
<1>1. job[j] \in Row /\ job \in [Jobs -> Row]
  BY Types DEF IInv
<1>2. CASE approve(j)
  <2> DEFINE r == [job[j] EXCEPT !.status = "APPROVED", !.approved = TRUE]
  <2>1. job' = [job EXCEPT ![j] = r] /\ job[j].status = "AWAITING_APPROVAL"
    BY <1>1, <1>2 DEF approve
  <2>2. r \in Row /\ r.status = "APPROVED" /\ r.started = job[j].started
    BY <1>1 DEF Row, Open
  <2> HIDE DEF r
  <2>3. Stage(job[j]) = "asked" /\ Stage(r) = "approved"
    BY <1>1, <2>1, <2>2, StageValue
  <2>4. MovesTo(j, job[j], r)
    BY <2>2, <2>3 DEF MovesTo
  <2> QED BY <1>2, <2>1, <2>2, <2>4, MoveMaps DEF approve
<1>3. CASE reject(j) \/ cancel(j) \/ recoverExpiredOperations(j)
  <2>1. \E r \in Row : job' = [job EXCEPT ![j] = r] /\ Closes(job[j], r)
    <3>1. CASE reject(j)
      <4> DEFINE r == [job[j] EXCEPT !.status = "REJECTED", !.approved = FALSE]
      <4>1. job' = [job EXCEPT ![j] = r] /\ job[j].status # "none"
        BY <1>1, <3>1 DEF reject
      <4>2. r \in Row /\ r.status = "REJECTED" /\ r.started = job[j].started
        BY <1>1 DEF Row, Closed
      <4> HIDE DEF r
      <4> QED BY <4>1, <4>2 DEF Closes, Closed
    <3>2. CASE cancel(j)
      <4> DEFINE r == [job[j] EXCEPT !.status = "CANCELLED"]
      <4>1. job' = [job EXCEPT ![j] = r] /\ job[j].status # "none"
        BY <1>1, <3>2 DEF cancel
      <4>2. r \in Row /\ r.status = "CANCELLED" /\ r.started = job[j].started
        BY <1>1 DEF Row, Closed
      <4> HIDE DEF r
      <4> QED BY <4>1, <4>2 DEF Closes, Closed
    <3>3. CASE recoverExpiredOperations(j)
      <4> DEFINE dry == IF job[j].status = "DRY_RUN_IN_PROGRESS" THEN "FAILED" ELSE job[j].dry
                 r == [job[j] EXCEPT !.status = "FAILED", !.integrity = "ERROR", !.lease = None, !.dry = dry]
      <4>1. job' = [job EXCEPT ![j] = r] /\ job[j].status # "none"
        BY <1>1, <3>3 DEF recoverExpiredOperations
      <4>2. dry \in Runs
        BY <1>1 DEF Runs, Row
      <4> HIDE DEF dry
      <4>3. r \in Row /\ r.status = "FAILED" /\ r.started = job[j].started
        BY <1>1, <4>2 DEF Row, Closed, Verdicts
      <4> HIDE DEF r
      <4> QED BY <4>1, <4>3 DEF Closes, Closed
    <3> QED BY <1>3, <3>1, <3>2, <3>3
  <2>2. UNCHANGED touched
    BY <1>3 DEF reject, cancel, recoverExpiredOperations
  <2> QED BY <2>1, <2>2, MoveMaps DEF MovesTo
<1> QED BY <1>2, <1>3

LEMMA RequestMaps ==
  ASSUME IInv, NEW j \in Jobs, NEW b \in Backups, NEW m \in Modules \cup {None},
         requestRestore(j, b, m) \/ requestRollback(j, b)
  PROVE  [Promise!Next]_Promise!vars
<1>1. PICK v \in Verdicts, n \in Modules \cup {None} :
        job' = [job EXCEPT ![j] = Requested(b, n, v)]
  BY DEF requestRestore, requestRollback, Verdicts
<1> DEFINE r == Requested(b, n, v)
<1>2. r \in Row /\ r.status = "AWAITING_APPROVAL" /\ r.started = FALSE
  BY DEF Requested, NoJob, Row, Open, Runs
<1>3. job[j].status = "none" /\ UNCHANGED touched /\ job[j] \in Row
  BY Types DEF requestRestore, requestRollback, IInv
<1>4. job[j].started = FALSE
  BY <1>3 DEF IInv, JobInv, RowOK, Row
<1>5. job' = [job EXCEPT ![j] = r]
  BY <1>1
<1> HIDE DEF r
<1>6. Stage(job[j]) = "none" /\ Stage(r) = "asked"
  BY <1>2, <1>3, StageValue
<1>7. MovesTo(j, job[j], r)
  BY <1>2, <1>4, <1>6 DEF MovesTo
<1> QED BY <1>2, <1>3, <1>5, <1>7, MoveMaps

LEMMA StartMaps ==
  ASSUME IInv, NEW w \in Workers, NEW j \in Jobs,
         \/ j \in Restores /\ (startDryRun(w, j) \/ startTargetVerification(w, j))
         \/ startExecution(w, j)
  PROVE  [Promise!Next]_Promise!vars
<1>1. job[j] \in Row /\ job \in [Jobs -> Row]
  BY Types DEF IInv
<1>2. CASE startDryRun(w, j)
  <2> DEFINE r == [job[j] EXCEPT !.status = "DRY_RUN_IN_PROGRESS", !.dry = "RUNNING",
                                 !.integrity = "CHECKING", !.lease = w]
  <2>1. job' = [job EXCEPT ![j] = r] /\ job[j].status = "APPROVED" /\ UNCHANGED touched
    BY <1>1, <1>2 DEF startDryRun
  <2>2. r \in Row /\ r.status = "DRY_RUN_IN_PROGRESS" /\ r.started = job[j].started
    BY <1>1 DEF Row, Open, Runs, Verdicts
  <2> HIDE DEF r
  <2>3. MovesTo(j, job[j], r)
    BY <1>1, <2>1, <2>2, StageValue DEF MovesTo, Stays
  <2> QED BY <2>1, <2>2, <2>3, MoveMaps
<1>3. CASE startTargetVerification(w, j)
  <2> DEFINE r == [job[j] EXCEPT !.integrity = "CHECKING"]
  <2>1. job' = [job EXCEPT ![j] = r] /\ job[j].status = "VERIFYING" /\ UNCHANGED touched
    BY <1>1, <1>3 DEF startTargetVerification
  <2>2. r \in Row /\ r.status = job[j].status /\ r.started = job[j].started
    BY <1>1 DEF Row, Verdicts
  <2> HIDE DEF r
  <2>3. MovesTo(j, job[j], r)
    BY <1>1, <2>1, <2>2, StageValue DEF MovesTo, Stays
  <2> QED BY <2>1, <2>2, <2>3, MoveMaps
<1>4. CASE startExecution(w, j)
  <2> DEFINE r == [job[j] EXCEPT !.status = "IN_PROGRESS", !.started = TRUE, !.lease = w]
  <2>1. job' = [job EXCEPT ![j] = r] /\ UNCHANGED touched
        /\ job[j].status = IF j \in Restores THEN "DRY_RUN_PASSED" ELSE "APPROVED"
    BY <1>1, <1>4 DEF startExecution
  <2>2. r \in Row /\ r.status = "IN_PROGRESS" /\ r.started
    BY <1>1 DEF Row, Open
  <2> HIDE DEF r
  <2>3. /\ Stage(r) = "started"
        /\ Stage(job[j]) = IF j \in Restores THEN "rehearsed" ELSE "approved"
    BY <1>1, <2>1, <2>2, StageValue
  <2>4. MovesTo(j, job[j], r)
    BY <2>2, <2>3 DEF MovesTo
  <2> QED BY <2>1, <2>2, <2>4, MoveMaps
<1> QED BY <1>2, <1>3, <1>4

LEMMA OutcomeMaps ==
  ASSUME IInv, NEW w \in Workers,
         \/ finishDryRun(w) \/ failDryRun(w) \/ failExecution(w) \/ markPending(w)
         \/ finishExecution(w) \/ verifyPendingRestore(w)
  PROVE  [Promise!Next]_Promise!vars
<1> DEFINE j == proc[w].j
<1>1. /\ j \in Jobs /\ job[j] \in Row /\ job \in [Jobs -> Row] /\ job[j].status # "none"
      /\ proc[w].pc \in {"rehearse", "rehearsed", "dryFails", "target"} => j \in Restores
  BY Holding, Types DEF finishDryRun, failDryRun, failExecution, markPending, finishExecution,
     verifyPendingRestore, At, IInv
<1>2. UNCHANGED touched
  BY DEF finishDryRun, failDryRun, failExecution, markPending, finishExecution, verifyPendingRestore
<1>3. SUFFICES \/ UNCHANGED job
               \/ \E r \in Row : job' = [job EXCEPT ![j] = r] /\ MovesTo(j, job[j], r)
  BY <1>1, <1>2, MoveMaps, QuietMaps
<1>4. CASE finishDryRun(w)
  <2> DEFINE passed == proc[w].seen = "ok"
             r == Rehearsed(job[j], passed)
             st == IF passed THEN "DRY_RUN_PASSED" ELSE "FAILED"
             v == IF passed THEN "PASSED" ELSE "FAILED"
  <2>1. st \in {"DRY_RUN_PASSED", "FAILED"} /\ v \in {"PASSED", "FAILED"}
    OBVIOUS
  <2>2. r = [job[j] EXCEPT !.status = st, !.dry = v, !.integrity = v, !.lease = None]
    BY DEF Rehearsed
  <2>3. job' = job \/ (job[j].status = "DRY_RUN_IN_PROGRESS" /\ job' = [job EXCEPT ![j] = r])
    BY <1>4 DEF finishDryRun
  <2>4. j \in Restores
    BY <1>1, <1>4 DEF finishDryRun, At
  <2> HIDE DEF st, v, r
  <2>5. r \in Row /\ r.status = st /\ r.started = job[j].started
    BY <1>1, <2>1, <2>2 DEF Row, Open, Closed, Runs, Verdicts
  <2>6. job[j].status = "DRY_RUN_IN_PROGRESS" => MovesTo(j, job[j], r)
    <3> SUFFICES ASSUME job[j].status = "DRY_RUN_IN_PROGRESS" PROVE MovesTo(j, job[j], r)
      OBVIOUS
    <3>1. CASE st = "FAILED"
      BY <1>1, <2>5, <3>1 DEF MovesTo, Closes, Closed
    <3>2. CASE st = "DRY_RUN_PASSED"
      <4>1. Stage(job[j]) = "approved" /\ Stage(r) = "rehearsed"
        BY <1>1, <2>5, <3>2, StageValue
      <4> QED BY <2>4, <2>5, <4>1 DEF MovesTo
    <3> QED BY <2>1, <3>1, <3>2
  <2> QED BY <2>3, <2>5, <2>6
<1>5. CASE failDryRun(w) \/ failExecution(w)
  <2>1. \E d \in Runs : job' = job \/ job' = [job EXCEPT ![j] = Failed(job[j], d)]
    <3>1. CASE failDryRun(w)
      <4>1. job' = job \/ job' = [job EXCEPT ![j] = Failed(job[j], "FAILED")]
        BY <3>1 DEF failDryRun
      <4> QED BY <4>1 DEF Runs
    <3>2. CASE failExecution(w)
      <4>1. job' = job \/ job' = [job EXCEPT ![j] = Failed(job[j], job[j].dry)]
        BY <3>2 DEF failExecution
      <4>2. job[j].dry \in Runs
        BY <1>1 DEF Row
      <4> QED BY <4>1, <4>2
    <3> QED BY <1>5, <3>1, <3>2
  <2>2. PICK d \in Runs : job' = job \/ job' = [job EXCEPT ![j] = Failed(job[j], d)]
    BY <2>1
  <2>3. Failed(job[j], d) \in Row /\ Closes(job[j], Failed(job[j], d))
    BY <1>1, FailedRow DEF Closes, Closed
  <2> QED BY <2>2, <2>3 DEF MovesTo
<1>6. CASE markPending(w)
  <2> DEFINE r == Pending(job[j])
  <2>1. job' = job \/ (job[j].status = "IN_PROGRESS" /\ job' = [job EXCEPT ![j] = r])
    BY <1>6 DEF markPending
  <2>2. r \in Row /\ r.status = "VERIFYING" /\ r.started = job[j].started
    BY <1>1 DEF Pending, Row, Open, Verdicts
  <2> HIDE DEF r
  <2>3. job[j].status = "IN_PROGRESS" => MovesTo(j, job[j], r)
    BY <1>1, <2>2, StageValue DEF MovesTo, Stays
  <2> QED BY <2>1, <2>2, <2>3
<1>7. ASSUME NEW passed \in BOOLEAN, Opened(job[j]),
             job' = [job EXCEPT ![j] = Finished(job[j], passed)]
      PROVE  \E r \in Row : job' = [job EXCEPT ![j] = r] /\ MovesTo(j, job[j], r)
  <2>1. Finished(job[j], passed) \in Row /\ Closes(job[j], Finished(job[j], passed))
    BY <1>1, <1>7, FinishedRow DEF Closes, Closed
  <2> QED BY <1>7, <2>1 DEF MovesTo
<1>8. CASE finishExecution(w)
  <2>1. \/ job' = job
        \/ /\ job[j].status = "IN_PROGRESS"
           /\ job' = [job EXCEPT ![j] = Finished(job[j], proc[w].seen = "ok")]
    BY <1>8 DEF finishExecution
  <2>2. (proc[w].seen = "ok") \in BOOLEAN
    OBVIOUS
  <2> HIDE DEF j
  <2> QED BY <1>7, <2>1, <2>2 DEF Opened, Open
<1>9. CASE verifyPendingRestore(w)
  <2>1. ASSUME NEW i \in {"CHECKING", "ERROR"},
               job' = IF job[j].status = "VERIFYING" THEN [job EXCEPT ![j].integrity = i] ELSE job
        PROVE  \/ UNCHANGED job
               \/ \E r \in Row : job' = [job EXCEPT ![j] = r] /\ MovesTo(j, job[j], r)
    <3> DEFINE r == [job[j] EXCEPT !.integrity = i]
    <3>1. r \in Row /\ r.status = job[j].status /\ r.started = job[j].started
      BY <1>1 DEF Row, Verdicts
    <3>2. job' = job \/ job' = [job EXCEPT ![j] = r]
      BY <1>1, <2>1
    <3> HIDE DEF r
    <3>3. MovesTo(j, job[j], r)
      BY <3>1 DEF MovesTo, Stays, Stage
    <3> QED BY <3>1, <3>2, <3>3
  <2>2. ASSUME NEW passed \in BOOLEAN,
               job' = IF job[j].status = "VERIFYING" THEN [job EXCEPT ![j] = Finished(@, passed)] ELSE job
        PROVE  \/ UNCHANGED job
               \/ \E r \in Row : job' = [job EXCEPT ![j] = r] /\ MovesTo(j, job[j], r)
    <3>1. \/ job' = job
          \/ job[j].status = "VERIFYING" /\ job' = [job EXCEPT ![j] = Finished(job[j], passed)]
      BY <2>2
    <3> HIDE DEF j
    <3> QED BY <1>7, <3>1 DEF Opened, Open
  <2> QED BY <1>9, <2>1, <2>2 DEF verifyPendingRestore
<1> QED BY <1>4, <1>5, <1>6, <1>8, <1>9

LEMMA ApplyMaps ==
  ASSUME IInv, NEW w \in Workers, applyRestore(w) \/ beginCutover(w)
  PROVE  [Promise!Next]_Promise!vars
<1>1. proc[w].j \in Jobs /\ job[proc[w].j].started
  BY Holding DEF applyRestore, beginCutover, At
<1>2. UNCHANGED job /\ (touched' = touched \/ touched' = touched \cup {proc[w].j})
  BY DEF applyRestore, beginCutover
<1> QED BY <1>1, <1>2, ChangeMaps, QuietMaps

LEMMA QuietSteps ==
  ASSUME NEW w \in Workers,
         \/ runRestoreDryRun(w) \/ endCutover(w) \/ (CutoverStep(w) /\ UNCHANGED recovery)
         \/ KeepingStep(w)
  PROVE  UNCHANGED Promise!vars
<1>1. CASE runRestoreDryRun(w) \/ endCutover(w) \/ (CutoverStep(w) /\ UNCHANGED recovery)
  BY <1>1, QuietMaps DEF runRestoreDryRun, endCutover, recovery
<1>2. CASE KeepingStep(w)
  <2>1. UNCHANGED <<job, touched>>
    BY <1>2 DEF KeepingStep, findLatestVerifiedBackup, createDrillRun, finishDrillRun,
       listRetentionScope, deleteArtifact, markArtifactDeleted, endRetention, markBackupExpired, passOver
  <2> QED BY <2>1, QuietMaps
<1> QED BY <1>1, <1>2

LEMMA StepMaps == ASSUME IInv, [Next]_vars PROVE [Promise!Next]_Promise!vars
<1>1. ASSUME NEW w \in Workers,
             \/ JobStep(w) \/ KeepingStep(w)
             \/ \E j \in Restores : startDryRun(w, j) \/ startTargetVerification(w, j)
             \/ \E j \in Jobs : startExecution(w, j)
      PROVE  [Promise!Next]_Promise!vars
  <2>1. CASE JobStep(w)
    BY <2>1, OutcomeMaps, ApplyMaps, QuietSteps DEF JobStep
  <2>2. CASE KeepingStep(w)
    BY <2>2, QuietSteps
  <2>3. CASE \/ \E j \in Restores : startDryRun(w, j) \/ startTargetVerification(w, j)
             \/ \E j \in Jobs : startExecution(w, j)
    BY <2>3, StartMaps DEF Jobs
  <2> QED BY <1>1, <2>1, <2>2, <2>3
<1>2. CASE UNCHANGED vars
  BY <1>2, QuietMaps DEF vars
<1>3. ASSUME NEW b \in Backups, verifyBackup(b) PROVE [Promise!Next]_Promise!vars
  BY <1>3, QuietMaps DEF verifyBackup
<1>4. CASE Crash
  BY <1>4, QuietMaps DEF Crash
<1> QED BY <1>1, <1>2, <1>3, <1>4, HandlerMaps, RequestMaps DEF Next, Jobs

(* Requests keep the promise of the recovery API: nothing is executed that
   was not approved, no restore that was not rehearsed, and no target is
   changed by a request that was not started.                              *)
THEOREM PromiseKept == Spec => KeepsPromise
<1>1. Init => Promise!Init
  BY InitMaps
<1>2. IInv /\ [Next]_vars => [Promise!Next]_Promise!vars
  BY StepMaps
<1> QED BY <1>1, <1>2, Invariance, PTL DEF Spec, KeepsPromise, Promise!Spec
=============================================================================
