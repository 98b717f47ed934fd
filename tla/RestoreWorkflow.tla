--------------------------- MODULE RestoreWorkflow ---------------------------
(***************************************************************************)
(* What happens to verified backups: restore jobs and module rollbacks of  *)
(* the recovery API, from the request over approval, rehearsal and         *)
(* execution to the verification of an RDS target; the reaper of expired   *)
(* leases; restore drills; and the retention cycle that expires and        *)
(* deletes artifacts.  A step is one transaction, one statement or one     *)
(* call of the runtime; the process that runs the workers may stop between *)
(* any two.                                                                *)
(***************************************************************************)
EXTENDS ModuleCutover, FiniteSets

CONSTANTS
  Backups,   \* full backups, and database snapshots
  Rds,       \* the snapshots: restored to an instance that is verified later
  Restores, Rollbacks,   \* requests by idempotency key: restore_jobs, module_rollback_requests
  Modules,               \* affected_module of a restore, None when it is left out
  Included,              \* Included[b]: those of included_modules a restore may ask for
  DrillScope,            \* what the filters of the drill schedule let it pick
  KeepLast               \* keep_last of the retention policy

ASSUME BackupsAssumption ==
  /\ IsFiniteSet(Backups) /\ Rds \subseteq Backups /\ DrillScope \subseteq Backups
  /\ None \notin Backups
  /\ Versions = Backups \ Rds /\ Base \notin Backups \cup {None}
ASSUME RequestsAssumption == Restores \cap Rollbacks = {} /\ None \notin Restores \cup Rollbacks
ASSUME ModulesAssumption == None \notin Modules /\ Included \in [Backups -> SUBSET Modules]
ASSUME WorkersAssumption == None \notin Workers
ASSUME KeepLastAssumption == KeepLast \in Nat \ {0}
ASSUME CarriesAssumption == Carries \in [Versions \cup {Base} -> SUBSET Files]
ASSUME FilesAssumption == None \notin Files

Jobs == Restores \cup Rollbacks

VARIABLES
  set,      \* set[b]: status, retention_status and verified_at (as a rank) of backup_sets
  bytes,    \* bytes[b]: the artifact is in the storage
  point,    \* point[b]: the recovery point of the module, none, AVAILABLE or EXPIRED
  job,      \* job[j]: the row of a request; "started" is started_at, "lease" the lease hash
  drill,    \* the run of one drill occurrence
  proc,     \* proc[w]: what a worker is doing
  touched   \* history: the requests whose target has been changed

recovery == <<set, bytes, point, job, drill, proc, touched>>
code == <<active, saved, cut, torn>>
vars == <<set, bytes, point, job, drill, proc, touched, active, saved, cut, torn>>

Open == {"AWAITING_APPROVAL", "APPROVED", "DRY_RUN_IN_PROGRESS", "DRY_RUN_PASSED",
         "IN_PROGRESS", "VERIFYING"}
Closed == {"COMPLETED", "FAILED", "REJECTED", "CANCELLED"}
NoJob == [status |-> "none", b |-> None, module |-> None, approved |-> FALSE, dry |-> "NOT_STARTED",
          integrity |-> "NOT_CHECKED", started |-> FALSE, lease |-> None]
Free == [pc |-> "idle", j |-> None, b |-> None, seen |-> None, todo |-> {}]

Init ==
  /\ CutoverInit
  /\ set = [b \in Backups |-> [status |-> "COMPLETED", kept |-> "ACTIVE", rank |-> 0]]
  /\ bytes = [b \in Backups |-> TRUE]
  /\ point = [b \in Backups |-> "none"]
  /\ job = [j \in Jobs |-> NoJob]
  /\ drill = [status |-> "none", b |-> None]
  /\ proc = [w \in Workers |-> Free]
  /\ touched = {}

At(w, pc) == proc[w].pc = pc
Goto(w, pc) == proc' = [proc EXCEPT ![w].pc = pc]
Go(w, pc, seen) == proc' = [proc EXCEPT ![w].pc = pc, ![w].seen = seen]
Return(w) == proc' = [proc EXCEPT ![w] = Free]

IsOpen(j) == job[j].status \in Open
InUse(b) == \/ \E j \in Jobs : IsOpen(j) /\ job[j].b = b
            \/ drill.status = "RUNNING" /\ drill.b = b

(* --- verification ---------------------------------------------------------- *)
\* the verification of BackupExecution, with the recovery point it publishes
verifyBackup(b) ==
  /\ set[b].status = "COMPLETED"
  /\ set' = [set EXCEPT ![b] = [@ EXCEPT !.status = "VERIFIED",
               !.rank = 1 + Cardinality({c \in Backups : set[c].rank > 0})]]
  /\ point' = [point EXCEPT ![b] = IF b \in Rds THEN "none" ELSE "AVAILABLE"]
  /\ UNCHANGED <<bytes, job, drill, proc, touched, code>>

(* --- requests ---------------------------------------------------------------- *)
Requested(b, m, integrity) ==
  [NoJob EXCEPT !.status = "AWAITING_APPROVAL", !.b = b, !.module = m, !.integrity = integrity]

requestUnlocked(j, b, m) ==         \* mutant: does not look for an open restore
  /\ job[j].status = "none" /\ m \in Included[b] \cup {None}
  /\ set[b].status \in {"VERIFIED", "RESTORED"} /\ set[b].kept = "ACTIVE"
  /\ job' = [job EXCEPT ![j] = Requested(b, m, "NOT_CHECKED")]
  /\ UNCHANGED <<set, bytes, point, drill, proc, touched, code>>

\* The backup row is locked: it is verified and kept, it includes the module,
\* and no restore of it with the same affected_module is open.  One of another
\* module, or of the whole backup, may well be.
requestRestore(j, b, m) ==
  /\ job[j].status = "none"
  /\ set[b].status \in {"VERIFIED", "RESTORED"} /\ set[b].kept = "ACTIVE"
  /\ m \in Included[b] \cup {None}
  /\ \A k \in Restores : IsOpen(k) => <<job[k].b, job[k].module>> # <<b, m>>
  /\ job' = [job EXCEPT ![j] = Requested(b, m, "NOT_CHECKED")]
  /\ UNCHANGED <<set, bytes, point, drill, proc, touched, code>>

\* The recovery point and its backup are locked; the module, whose name is left
\* out, has one open rollback.
requestRollback(j, b) ==
  /\ job[j].status = "none"
  /\ point[b] = "AVAILABLE" /\ set[b].status \in {"VERIFIED", "RESTORED"}
  /\ \A k \in Rollbacks : ~ IsOpen(k)
  /\ job' = [job EXCEPT ![j] = Requested(b, None, "PASSED")]
  /\ UNCHANGED <<set, bytes, point, drill, proc, touched, code>>

approve(j) ==
  /\ job[j].status = "AWAITING_APPROVAL"
  /\ job' = [job EXCEPT ![j].status = "APPROVED", ![j].approved = TRUE]
  /\ UNCHANGED <<set, bytes, point, drill, proc, touched, code>>

reject(j) ==
  /\ job[j].status = "AWAITING_APPROVAL"
  /\ job' = [job EXCEPT ![j].status = "REJECTED", ![j].approved = FALSE]
  /\ UNCHANGED <<set, bytes, point, drill, proc, touched, code>>

cancel(j) ==
  /\ job[j].status \in {"AWAITING_APPROVAL", "APPROVED", "DRY_RUN_PASSED"}
  /\ job' = [job EXCEPT ![j].status = "CANCELLED"]
  /\ UNCHANGED <<set, bytes, point, drill, proc, touched, code>>

(* --- rehearsal --------------------------------------------------------------- *)
startDryRun(w, j) ==
  /\ At(w, "idle") /\ job[j].approved /\ job[j].status = "APPROVED"
  /\ job' = [job EXCEPT ![j] = [@ EXCEPT !.status = "DRY_RUN_IN_PROGRESS", !.dry = "RUNNING",
                                         !.integrity = "CHECKING", !.lease = w]]
  /\ proc' = [proc EXCEPT ![w] = [Free EXCEPT !.pc = "rehearse", !.j = j, !.b = job[j].b]]
  /\ UNCHANGED <<set, bytes, point, drill, touched, code>>

\* the artifact restores into a disposable target, does not, or the run breaks off
runRestoreDryRun(w) ==
  /\ At(w, "rehearse")
  /\ \E outcome \in {"bad", "error"} \cup (IF bytes[proc[w].b] THEN {"ok"} ELSE {}) :
       Go(w, "rehearsed", outcome)
  /\ UNCHANGED <<set, bytes, point, job, drill, touched, code>>

Rehearsed(r, passed) ==
  [r EXCEPT !.status = IF passed THEN "DRY_RUN_PASSED" ELSE "FAILED",
            !.dry = IF passed THEN "PASSED" ELSE "FAILED",
            !.integrity = IF passed THEN "PASSED" ELSE "FAILED", !.lease = None]

\* The report goes to the job while the lease is this worker's.  The statement
\* may fail, or its answer be lost.
finishDryRun(w) ==
  LET j == proc[w].j
      mine == job[j].status = "DRY_RUN_IN_PROGRESS" /\ job[j].lease = w
  IN
  /\ At(w, "rehearsed") /\ proc[w].seen # "error"
  /\ \/ /\ job' = IF mine THEN [job EXCEPT ![j] = Rehearsed(@, proc[w].seen = "ok")] ELSE job
        /\ Return(w) \/ Goto(w, "dryFails")
     \/ job' = job /\ Goto(w, "dryFails")
  /\ UNCHANGED <<set, bytes, point, drill, touched, code>>

\* Whatever fails fails the job, under this worker's lease or none; that
\* statement may fail as well.
Failed(r, dry) ==
  [r EXCEPT !.status = "FAILED", !.integrity = "ERROR", !.lease = None, !.dry = dry]

failDryRun(w) ==
  LET j == proc[w].j IN
  /\ At(w, "dryFails") \/ (At(w, "rehearsed") /\ proc[w].seen = "error")
  /\ \/ job[j].lease \in {w, None} /\ job' = [job EXCEPT ![j] = Failed(@, "FAILED")]
     \/ job' = job
  /\ Return(w)
  /\ UNCHANGED <<set, bytes, point, drill, touched, code>>

failExecution(w) ==
  LET j == proc[w].j IN
  /\ At(w, "fails") \/ (At(w, "applied") /\ proc[w].seen = "error")
  /\ \/ job[j].lease \in {w, None} /\ job' = [job EXCEPT ![j] = Failed(@, job[j].dry)]
     \/ job' = job
  /\ Return(w)
  /\ UNCHANGED <<set, bytes, point, drill, touched, code>>

(* --- execution --------------------------------------------------------------- *)
startUnready(w, j) ==               (* mutant: a request runs as soon as it was asked for *)
  /\ At(w, "idle") /\ job[j].status \in {"AWAITING_APPROVAL", "APPROVED", "DRY_RUN_PASSED"}
  /\ job' = [job EXCEPT ![j] = [@ EXCEPT !.status = "IN_PROGRESS", !.started = TRUE, !.lease = w]]
  /\ proc' = [proc EXCEPT ![w] = [Free EXCEPT !.pc = "apply", !.j = j, !.b = job[j].b]]
  /\ UNCHANGED <<set, bytes, point, drill, touched, code>>

startExecution(w, j) ==
  /\ At(w, "idle") /\ job[j].approved /\ job[j].integrity = "PASSED"
  /\ IF j \in Restores THEN job[j].status = "DRY_RUN_PASSED" /\ job[j].dry = "PASSED"
     ELSE job[j].status = "APPROVED"
  /\ job' = [job EXCEPT ![j] = [@ EXCEPT !.status = "IN_PROGRESS", !.started = TRUE, !.lease = w]]
  /\ proc' = [proc EXCEPT ![w] = [Free EXCEPT !.pc = "apply", !.j = j, !.b = job[j].b]]
  /\ UNCHANGED <<set, bytes, point, drill, touched, code>>

\* applyRestore on a restore: it breaks off before or after it changed the
\* target, or ends with the target intact or not.  A snapshot becomes a new
\* instance, which is pending.
applyRestore(w) ==
  LET j == proc[w].j IN
  /\ At(w, "apply") /\ j \in Restores
  /\ \/ touched' = touched /\ Go(w, "applied", "error")
     \/ /\ bytes[proc[w].b] /\ touched' = touched \cup {j}
        /\ \E outcome \in IF proc[w].b \in Rds THEN {"pending"} ELSE {"ok", "bad", "error"} :
             Go(w, "applied", outcome)
  /\ UNCHANGED <<set, bytes, point, job, drill, code>>

\* applyRestore on a rollback: the files of the module are replaced
beginCutover(w) ==
  /\ At(w, "apply") /\ proc[w].j \in Rollbacks /\ In(w, "idle")
  /\ \/ bytes[proc[w].b] /\ begin(w, proc[w].b) /\ touched' = touched \cup {proc[w].j}
     \/ refuse(w) /\ touched' = touched
  /\ UNCHANGED <<set, bytes, point, job, drill, proc>>

endCutover(w) ==
  /\ At(w, "apply") /\ cut[w].phase \in {"done", "failed"}
  /\ leave(w) /\ Go(w, "applied", IF In(w, "done") THEN "ok" ELSE "error")
  /\ UNCHANGED <<set, bytes, point, job, drill, touched>>

PendingUnnamed(r) ==                \* mutant: stores the word the runtime reports
  [r EXCEPT !.status = "VERIFYING", !.integrity = "PENDING", !.lease = None]
Pending(r) == [r EXCEPT !.status = "VERIFYING", !.integrity = "CHECKING", !.lease = None]

markPending(w) ==
  LET j == proc[w].j
      mine == job[j].status = "IN_PROGRESS" /\ job[j].lease = w
  IN
  /\ At(w, "applied") /\ proc[w].seen = "pending"
  /\ \/ job' = (IF mine THEN [job EXCEPT ![j] = Pending(@)] ELSE job) /\ (Return(w) \/ Goto(w, "fails"))
     \/ job' = job /\ Goto(w, "fails")
  /\ UNCHANGED <<set, bytes, point, drill, touched, code>>

Finished(r, passed) ==
  [r EXCEPT !.status = IF passed THEN "COMPLETED" ELSE "FAILED",
            !.integrity = IF passed THEN "PASSED" ELSE "FAILED", !.lease = None]

RestoredSet(j, passed) ==
  set' = IF passed /\ j \in Restores THEN [set EXCEPT ![job[j].b].status = "RESTORED"] ELSE set

\* One transaction: the job is finished while the lease is this worker's; the
\* backup is marked whatever has become of the job.  The answer to the commit
\* may be lost, or the transaction fails.
finishExecution(w) ==
  LET j == proc[w].j
      passed == proc[w].seen = "ok"
      mine == job[j].status = "IN_PROGRESS" /\ job[j].lease = w
  IN
  /\ At(w, "applied") /\ proc[w].seen \in {"ok", "bad"}
  /\ \/ /\ job' = IF mine THEN [job EXCEPT ![j] = Finished(@, passed)] ELSE job
        /\ RestoredSet(j, passed)
        /\ Return(w) \/ Goto(w, "fails")
     \/ UNCHANGED <<job, set>> /\ Goto(w, "fails")
  /\ UNCHANGED <<bytes, point, drill, touched, code>>

(* --- verification of a snapshot's target ------------------------------------- *)
startTargetVerification(w, j) ==
  /\ At(w, "idle") /\ job[j].status = "VERIFYING" /\ job[j].b \in Rds
  /\ job' = [job EXCEPT ![j].integrity = "CHECKING"]
  /\ proc' = [proc EXCEPT ![w] = [Free EXCEPT !.pc = "target", !.j = j, !.b = job[j].b]]
  /\ UNCHANGED <<set, bytes, point, drill, touched, code>>

\* still pending or an error leave the job VERIFYING; a verdict closes it if
\* nobody has closed it, and marks the backup in any case
verifyPendingRestore(w) ==
  LET j == proc[w].j
      verifying == job[j].status = "VERIFYING"
  IN
  /\ At(w, "target")
  /\ \/ /\ \E integrity \in {"CHECKING", "ERROR"} :
             job' = IF verifying THEN [job EXCEPT ![j].integrity = integrity] ELSE job
        /\ set' = set
     \/ \E passed \in BOOLEAN :
          /\ job' = IF verifying THEN [job EXCEPT ![j] = Finished(@, passed)] ELSE job
          /\ RestoredSet(j, passed)
  /\ Return(w)
  /\ UNCHANGED <<bytes, point, drill, touched, code>>

(* --- restore drills ------------------------------------------------------------ *)
DrillCandidates ==
  {b \in DrillScope : set[b].status = "VERIFIED" /\ set[b].kept = "ACTIVE"}
Newest(S) == {b \in S : \A c \in S : set[c].rank <= set[b].rank}

findLatestVerifiedBackup(w) ==
  /\ At(w, "idle") /\ drill.status # "RUNNING"
  /\ \/ \E b \in Newest(DrillCandidates) :
          proc' = [proc EXCEPT ![w] = [Free EXCEPT !.pc = "drill", !.b = b]]
     \/ DrillCandidates = {} /\ proc' = [proc EXCEPT ![w] = [Free EXCEPT !.pc = "drill"]]
  /\ UNCHANGED <<set, bytes, point, job, drill, touched, code>>

\* one row per occurrence; who finds it there goes on with it while it runs
createDrillRun(w) ==
  /\ At(w, "drill")
  /\ IF drill.status = "none"
     THEN drill' = [status |-> "RUNNING", b |-> proc[w].b] ELSE drill' = drill
  /\ IF drill'.status = "RUNNING" THEN Goto(w, "drilling") ELSE Return(w)
  /\ UNCHANGED <<set, bytes, point, job, touched, code>>

\* PASSED, FAILED or SKIPPED: nothing depends on which
finishDrillRun(w) ==
  /\ At(w, "drilling")
  /\ drill' = IF drill.status = "RUNNING" THEN [status |-> "over", b |-> None] ELSE drill
  /\ Return(w)
  /\ UNCHANGED <<set, bytes, point, job, touched, code>>

(* --- retention ------------------------------------------------------------------- *)
\* The rows of the policy's scope that nothing uses, without the newest ones:
\* an expired one is listed again after an hour, for its deletion.
retentionIgnoringOrder(w) ==        (* mutant: keeps some KeepLast of them, not the newest *)
  /\ At(w, "idle")
  /\ \E Kept \in SUBSET Backups :
       /\ Cardinality(Kept) = KeepLast
       /\ proc' = [proc EXCEPT ![w] = [Free EXCEPT !.pc = "retire", !.todo =
            {b \in Backups : set[b].rank > 0 /\ set[b].kept # "DELETED" /\ ~ InUse(b)} \ Kept]]
  /\ UNCHANGED <<set, bytes, point, job, drill, touched, code>>

Behind(b, S) == Cardinality({c \in S : set[c].rank > set[b].rank})

listRetentionScope(w) ==
  /\ At(w, "idle")
  /\ \E Scope \in SUBSET {b \in Backups : set[b].rank > 0 /\ set[b].kept # "DELETED" /\ ~ InUse(b)} :
       /\ \A b \in Backups : set[b].rank > 0 /\ set[b].kept = "ACTIVE" /\ ~ InUse(b) => b \in Scope
       /\ proc' = [proc EXCEPT ![w] = [Free EXCEPT !.pc = "retire",
                                                   !.todo = {b \in Scope : Behind(b, Scope) >= KeepLast}]]
  /\ UNCHANGED <<set, bytes, point, job, drill, touched, code>>

markWithoutRecheck(w, b) ==         (* mutant: what was read before is not read again *)
  /\ At(w, "retire") /\ b \in proc[w].todo
  /\ set' = [set EXCEPT ![b].kept = "EXPIRED"]
  /\ point' = [point EXCEPT ![b] = IF @ = "AVAILABLE" THEN "EXPIRED" ELSE @]
  /\ proc' = [proc EXCEPT ![w].pc = "delete", ![w].b = b, ![w].todo = @ \ {b}]
  /\ UNCHANGED <<bytes, job, drill, touched, code>>

\* A row that is old enough expires with its recovery point, in a transaction
\* that looks once more for whoever uses it.
markBackupExpired(w, b) ==
  /\ At(w, "retire") /\ b \in proc[w].todo
  /\ set[b].kept \in {"ACTIVE", "EXPIRED"} /\ ~ InUse(b)
  /\ set' = [set EXCEPT ![b].kept = "EXPIRED"]
  /\ point' = [point EXCEPT ![b] = IF @ = "AVAILABLE" THEN "EXPIRED" ELSE @]
  /\ proc' = [proc EXCEPT ![w].pc = "delete", ![w].b = b, ![w].todo = @ \ {b}]
  /\ UNCHANGED <<bytes, job, drill, touched, code>>

\* too young, or in use by now
passOver(w, b) ==
  /\ At(w, "retire") /\ b \in proc[w].todo
  /\ proc' = [proc EXCEPT ![w].todo = @ \ {b}]
  /\ UNCHANGED <<set, bytes, point, job, drill, touched, code>>

\* the policy does not delete, the storage refuses, or the bytes go
deleteArtifact(w) ==
  /\ At(w, "delete")
  /\ \/ Goto(w, "retire") /\ bytes' = bytes
     \/ Goto(w, "deleted") /\ bytes' = [bytes EXCEPT ![proc[w].b] = FALSE]
  /\ UNCHANGED <<set, point, job, drill, touched, code>>

markArtifactDeleted(w) ==
  /\ At(w, "deleted")
  /\ set' = [set EXCEPT ![proc[w].b].kept = IF @ = "EXPIRED" THEN "DELETED" ELSE @]
  /\ Goto(w, "retire")
  /\ UNCHANGED <<bytes, point, job, drill, touched, code>>

endRetention(w) ==
  /\ At(w, "retire") /\ proc[w].todo = {} /\ Return(w)
  /\ UNCHANGED <<set, bytes, point, job, drill, touched, code>>

(* --- the rest of the world ------------------------------------------------------- *)
\* the reaper takes any lease that expired, that of a slow worker included
recoverExpiredOperations(j) ==
  /\ job[j].status \in {"DRY_RUN_IN_PROGRESS", "IN_PROGRESS"} /\ job[j].lease # None
  /\ job' = [job EXCEPT ![j] =
       [@ EXCEPT !.status = "FAILED", !.integrity = "ERROR", !.lease = None,
                 !.dry = IF job[j].status = "DRY_RUN_IN_PROGRESS" THEN "FAILED" ELSE job[j].dry]]
  /\ UNCHANGED <<set, bytes, point, drill, proc, touched, code>>

Crash ==
  /\ \E w \in Workers : ~ At(w, "idle")
  /\ proc' = [w \in Workers |-> Free]
  /\ cut' = [w \in Workers |-> NoCut]
  /\ torn' = (torn \/ Busy)
  /\ UNCHANGED <<set, bytes, point, job, drill, touched, active, saved>>

JobStep(w) ==
  \/ runRestoreDryRun(w) \/ finishDryRun(w) \/ failDryRun(w)
  \/ applyRestore(w) \/ beginCutover(w) \/ endCutover(w) \/ markPending(w)
  \/ finishExecution(w) \/ failExecution(w)
  \/ verifyPendingRestore(w)
  \/ CutoverStep(w) /\ UNCHANGED recovery

KeepingStep(w) ==
  \/ findLatestVerifiedBackup(w) \/ createDrillRun(w) \/ finishDrillRun(w)
  \/ listRetentionScope(w) \/ deleteArtifact(w) \/ markArtifactDeleted(w) \/ endRetention(w)
  \/ \E b \in Backups : markBackupExpired(w, b) \/ passOver(w, b)

Next ==
  \/ \E w \in Workers :
       \/ JobStep(w) \/ KeepingStep(w)
       \/ \E j \in Restores : startDryRun(w, j) \/ startTargetVerification(w, j)
       \/ \E j \in Jobs : startExecution(w, j)
  \/ \E j \in Jobs : approve(j) \/ reject(j) \/ cancel(j) \/ recoverExpiredOperations(j)
  \/ \E b \in Backups :
       \/ verifyBackup(b)
       \/ \E j \in Restores, m \in Modules \cup {None} : requestRestore(j, b, m)
       \/ \E j \in Rollbacks : requestRollback(j, b)
  \/ Crash

Spec == Init /\ [][Next]_vars

(* --- properties ------------------------------------------------------------------ *)
SetStatuses == {"COMPLETED", "VERIFIED", "RESTORED"}
Runs == {"NOT_STARTED", "RUNNING", "PASSED", "FAILED"}
Verdicts == {"NOT_CHECKED", "CHECKING", "PASSED", "FAILED", "ERROR"}
Points == {"idle", "rehearse", "rehearsed", "dryFails", "apply", "applied", "fails", "target", "drill",
           "drilling", "retire", "delete", "deleted"}

\* Every variable has its type.
TypeOK ==
  /\ set \in [Backups -> [status : SetStatuses, kept : {"ACTIVE", "EXPIRED", "DELETED"}, rank : Nat]]
  /\ bytes \in [Backups -> BOOLEAN]
  /\ point \in [Backups -> {"none", "AVAILABLE", "EXPIRED"}]
  /\ job \in [Jobs -> [status : {"none"} \cup Open \cup Closed, b : Backups \cup {None},
                       module : Modules \cup {None}, approved : BOOLEAN, dry : Runs, integrity : Verdicts,
                       started : BOOLEAN, lease : Workers \cup {None}]]
  /\ drill \in [status : {"none", "RUNNING", "over"}, b : Backups \cup {None}]
  /\ proc \in [Workers -> [pc : Points, j : Jobs \cup {None}, b : Backups \cup {None},
                           seen : {None, "ok", "bad", "error", "pending"}, todo : SUBSET Backups]]
  /\ touched \subseteq Jobs
  /\ active \in [Files -> AllVersions \cup {None}]
  /\ saved \in [Workers -> [Files -> AllVersions \cup {None}]]
  /\ cut \in [Workers -> [phase : Phases, to : Versions \cup {None}, managed : SUBSET Files,
                          left : SUBSET Files, hand : Files \cup {None}]]
  /\ torn \in BOOLEAN

\* Retention never takes the artifact of an open restore or rollback, however
\* its reading of the backups and the requests overlap.
OpenRequestHasBytes ==
  \A j \in Jobs : IsOpen(j) => bytes[job[j].b] /\ set[job[j].b].kept = "ACTIVE"

\* Retention leaves at least the newest verified backup, whatever it skips
\* because it was in use when it looked.
NewestBackupKept ==
  \A b \in Backups :
    set[b].rank > 0 /\ (\A c \in Backups : set[c].rank <= set[b].rank)
      => bytes[b] /\ set[b].kept = "ACTIVE"

\* A backup has one open restore for each affected_module, none counting as one
\* of its own, and the module one open rollback, also when the reaper or a late
\* worker closes a request, or would open it again, while another one is asked
\* for.  Restores of one backup for two modules, or for one and for all, may be
\* open together.
OneOpenRequest ==
  /\ \A j, k \in Restores :
       IsOpen(j) /\ IsOpen(k) /\ job[j].b = job[k].b /\ job[j].module = job[k].module => j = k
  /\ \A j, k \in Rollbacks : IsOpen(j) /\ IsOpen(k) => j = k

\* Whatever is running has a lease that the reaper finds, after a crash too.
RunningJobIsLeased ==
  \A j \in Jobs : job[j].status \in {"DRY_RUN_IN_PROGRESS", "IN_PROGRESS"} => job[j].lease # None

\* Between cutovers the module is one version as a whole, as long as every
\* cutover could be carried through or undone.
ModuleIsWhole == Busy \/ torn \/ Whole

\* The module changes all at once or not at all: what a cutover in progress
\* can go back to, and else what is in place, only ever becomes the version that
\* a started rollback names, by a cutover that is reported as done.  One that
\* fails has put back what it found.
Installed ==
  IF Busy THEN saved[CHOOSE w \in Workers : cut[w].phase \notin {"idle", "done", "failed"}]
  ELSE active
CutoverIsAtomic ==
  [][~ torn' /\ Installed' # Installed =>
       \E w \in Workers : /\ cut'[w].phase = "done"
                          /\ proc[w].j \in Rollbacks /\ job[proc[w].j].started
                          /\ Installed' = Tree(job[proc[w].j].b)]_vars

\* The workflow keeps the promise.
Stage(r) ==
  CASE r.status = "none" -> "none"
    [] r.status = "AWAITING_APPROVAL" -> "asked"
    [] r.status \in {"APPROVED", "DRY_RUN_IN_PROGRESS"} -> "approved"
    [] r.status = "DRY_RUN_PASSED" -> "rehearsed"
    [] r.status \in {"IN_PROGRESS", "VERIFYING"} -> "started"
    [] OTHER -> "over"
Promise == INSTANCE RestorePromise WITH
  stage <- [j \in Jobs |-> Stage(job[j])],
  begun <- {j \in Jobs : job[j].started},
  changed <- touched
KeepsPromise == Promise!Spec
=============================================================================
