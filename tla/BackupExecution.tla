--------------------------- MODULE BackupExecution ---------------------------
(***************************************************************************)
(* Backup runs: the automation cycles that claim the occurrences of one    *)
(* backup schedule and resume what was left PENDING, and the handlers of   *)
(* the recovery API that request, run, run now, verify and cancel backups, *)
(* over the rows of backup_sets and the artifact store.  A step is one     *)
(* transaction or one statement; between two steps of a process anything   *)
(* else may happen, and a process may stop for good.                       *)
(***************************************************************************)
EXTENDS Naturals, FiniteSets

CONSTANTS
  Cycles,     \* automation cycles, one per server process
  Handlers,   \* requests to the recovery API
  Manuals,    \* backups requested by hand
  MaxTime,    \* bound on the clock
  FirstRun,   \* the first occurrence of the schedule
  Corruptible,\* bound: the backups whose stored bytes may change
  None

ASSUME SortsAssumption ==
  /\ MaxTime \in Nat /\ FirstRun \in 1 .. MaxTime + 1
  /\ Cycles \cap Handlers = {}
  /\ Manuals \cap Nat = {}
  /\ None \notin Cycles \cup Handlers

Workers == Cycles \cup Handlers
Times == 1 .. MaxTime
Backups == Times \cup Manuals       \* a set of the schedule is named by its second
Statuses == {"none", "PENDING", "RUNNING", "COMPLETED", "VERIFIED", "FAILED", "CANCELLED"}
Verdicts == {"NOT_VERIFIED", "VERIFYING", "MATCH", "MISMATCH", "ERROR"}

VARIABLES
  sets,     \* row of backup_sets by backup; "lease" is worker_lease_token_hash
  store,    \* artifact in the storage by backup: who built it, bytes intact
  now,      \* the clock, in occurrences
  next,     \* backup_schedules.next_run_at
  action,   \* the run-now entry of the action ledger; "times" are its operation times
  job       \* what each process is doing

vars == <<sets, store, now, next, action, job>>

Job(pc, by, b, todo, seen) == [pc |-> pc, by |-> by, b |-> b, todo |-> todo, seen |-> seen]
With(j, pc, seen) == Job(pc, j.by, j.b, j.todo, seen)
Idle == Job("idle", None, None, {}, None)
NewSet == [status |-> "PENDING", verif |-> "NOT_VERIFIED", lease |-> None, sum |-> None]

Init ==
  /\ sets = [b \in Backups |-> [NewSet EXCEPT !.status = "none"]]
  /\ store = [b \in Backups |-> [sum |-> None, intact |-> TRUE]]
  /\ now = 0 /\ next = FirstRun
  /\ action = [status |-> "none", time |-> None, times |-> {}]
  /\ job = [w \in Workers |-> Idle]

(* --- one run of a backup ----------------------------------------------- *)
At(w, pc) == job[w].pc = pc
Goto(w, pc) == job' = [job EXCEPT ![w].pc = pc]

\* how a run ends for the one who started it
settled(j, ok) ==
  CASE j.by = "resume" -> Job("resume", None, None, j.todo, None)
    [] j.by = "runNow" -> Job("settle", None, None, {}, ok)
    [] OTHER -> Idle
Settle(w, ok) == job' = [job EXCEPT ![w] = settled(@, ok)]

RunningUnleased(s, w) ==            (* mutant: takes no lease *)
  [s EXCEPT !.status = "RUNNING"]
Running(s, w) == [s EXCEPT !.status = "RUNNING", !.lease = w]
Completed(s, sum) == [s EXCEPT !.status = "COMPLETED", !.verif = "NOT_VERIFIED",
                               !.lease = None, !.sum = sum]
Failed(s) == [s EXCEPT !.status = "FAILED", !.lease = None]

\* BackupWorker moves PENDING to RUNNING with a guarded update: the loser of
\* the race gives up with BACKUP_JOB_CONFLICT.
startRun(w, b, by) ==
  LET mine == Job("build", by, b, job[w].todo \ {b}, None) IN
  IF sets[b].status = "PENDING"
  THEN /\ sets' = [sets EXCEPT ![b] = Running(@, w)]
       /\ job' = [job EXCEPT ![w] = mine]
  ELSE /\ sets' = sets
       /\ job' = [job EXCEPT ![w] = settled(mine, FALSE)]

\* createBackup reuses the artifact its reference already has, or builds one
findStoredArtifact(w) ==
  /\ At(w, "build")
  /\ LET found == store[job[w].b] IN
     job' = [job EXCEPT ![w] = IF found.sum = None THEN [@ EXCEPT !.pc = "publish"]
                               ELSE IF found.intact THEN With(@, "complete", found.sum)
                               ELSE [@ EXCEPT !.pc = "fail"]]
  /\ UNCHANGED <<sets, store, now, next, action>>

storeOverwriting(w) ==              (* mutant: a later artifact replaces the first *)
  /\ At(w, "publish")
  /\ store' = [store EXCEPT ![job[w].b].sum = w]
  /\ job' = [job EXCEPT ![w] = With(@, "complete", w)]
  /\ UNCHANGED <<sets, now, next, action>>

\* a reference holds one artifact: another one for it is BACKUP_IDEMPOTENCY_CONFLICT
storeArtifact(w) ==
  /\ At(w, "publish")
  /\ IF store[job[w].b].sum = None
     THEN /\ store' = [store EXCEPT ![job[w].b].sum = w]
          /\ job' = [job EXCEPT ![w] = With(@, "complete", w)]
     ELSE Goto(w, "fail") /\ UNCHANGED store
  /\ UNCHANGED <<sets, now, next, action>>

completeAny(w) ==                   (* mutant: completes whatever became of the row *)
  /\ At(w, "complete")
  /\ sets' = [sets EXCEPT ![job[w].b] = Completed(@, job[w].seen)]
  /\ Settle(w, TRUE)
  /\ UNCHANGED <<store, now, next, action>>

\* the API completes its own lease; the automation completes whatever runs
completeRun(w) ==
  /\ At(w, "complete")
  /\ LET b == job[w].b IN
     IF sets[b].status = "RUNNING" /\ (job[w].by = "http" => sets[b].lease = w)
     THEN /\ sets' = [sets EXCEPT ![b] = Completed(@, job[w].seen)]
          /\ \/ job[w].by # "http" /\ job[w].seen = w /\ Goto(w, "persist")
             \/ Settle(w, TRUE)
     ELSE Goto(w, "fail") /\ UNCHANGED sets
  /\ UNCHANGED <<store, now, next, action>>

\* building, storing or a statement fails
runFails(w) ==
  /\ job[w].pc \in {"build", "publish", "complete"} /\ Goto(w, "fail")
  /\ UNCHANGED <<sets, store, now, next, action>>

failRun(w) ==
  /\ At(w, "fail")
  /\ LET b == job[w].b
         mine == IF job[w].by = "http" THEN sets[b].lease = w ELSE sets[b].status = "RUNNING"
     IN sets' = IF mine THEN [sets EXCEPT ![b] = Failed(@)] ELSE sets
  /\ Settle(w, FALSE)
  /\ UNCHANGED <<store, now, next, action>>

\* the integrity metadata of a fresh artifact goes to a COMPLETED row only
persistBackupIntegrityMetadata(w) ==
  /\ At(w, "persist")
  /\ \/ sets[job[w].b].status = "COMPLETED" /\ Settle(w, TRUE)
     \/ Goto(w, "unpersisted")
  /\ UNCHANGED <<sets, store, now, next, action>>

failUnpersisted(w) ==
  /\ At(w, "unpersisted")
  /\ sets' = [sets EXCEPT ![job[w].b] = IF @.status = "COMPLETED" THEN Failed(@) ELSE @]
  /\ Settle(w, FALSE)
  /\ UNCHANGED <<store, now, next, action>>

(* --- scheduled runs ----------------------------------------------------- *)
cycleWithoutResume(c) ==            (* mutant: nothing left PENDING is resumed *)
  /\ At(c, "idle")
  /\ job' = [job EXCEPT ![c] = Job("resume", None, None, {}, None)]
  /\ UNCHANGED <<sets, store, now, next, action>>

\* runCycle begins with the PENDING sets of the schedule, read once
runCycle(c) ==
  /\ At(c, "idle")
  /\ job' = [job EXCEPT ![c] = Job("resume", None, None,
                                   {t \in Times : sets[t].status = "PENDING"}, None)]
  /\ UNCHANGED <<sets, store, now, next, action>>

resumePending(c) ==
  /\ At(c, "resume")
  /\ \E t \in job[c].todo :
       (\A u \in job[c].todo : t <= u) /\ startRun(c, t, "resume")
  /\ UNCHANGED <<store, now, next, action>>

listDueBackupSchedules(c) ==
  /\ At(c, "resume") /\ job[c].todo = {}
  /\ job' = [job EXCEPT ![c] = IF next <= now THEN Job("claim", None, None, {}, next) ELSE Idle]
  /\ UNCHANGED <<sets, store, now, next, action>>

\* createScheduledBackup, also inside the claim: one row per occurrence
withRow(t) == [sets EXCEPT ![t] = IF @.status = "none" THEN NewSet ELSE @]

claimWithoutRow(c) ==               (* mutant: the row is left to the run *)
  /\ At(c, "claim")
  /\ LET t == job[c].seen IN
     IF next = t
     THEN /\ next' = t + 1
          /\ job' = [job EXCEPT ![c] = Job("create", "due", t, {}, None)]
     ELSE job' = [job EXCEPT ![c] = Idle] /\ UNCHANGED next
  /\ UNCHANGED <<sets, store, now, action>>

\* the schedule advances and its occurrence gets a PENDING row in one
\* transaction, if next_run_at is still what this cycle read
claimBackupSchedule(c) ==
  /\ At(c, "claim")
  /\ LET t == job[c].seen IN
     IF next = t
     THEN /\ next' = t + 1 /\ sets' = withRow(t)
          /\ job' = [job EXCEPT ![c] = Job("create", "due", t, {}, None)]
     ELSE job' = [job EXCEPT ![c] = Idle] /\ UNCHANGED <<next, sets>>
  /\ UNCHANGED <<store, now, action>>

createScheduledBackup(w) ==
  /\ At(w, "create")
  /\ sets' = withRow(job[w].b)
  /\ job' = [job EXCEPT ![w] = With(@, "execute", sets'[job[w].b].status)]
  /\ UNCHANGED <<store, now, next, action>>

\* BackupWorker.execute on the row as it was read: a pending one is run, a
\* finished one only has its bytes compared again
executeBackup(w) ==
  /\ At(w, "execute")
  /\ LET b == job[w].b IN
     \/ job[w].seen = "PENDING" /\ startRun(w, b, job[w].by)
     \/ /\ job[w].seen \in {"COMPLETED", "VERIFIED"}
        /\ \/ store[b].intact /\ Settle(w, TRUE) /\ sets' = sets
           \/ /\ ~store[b].intact /\ Settle(w, FALSE)
              /\ sets' = IF job[w].seen = "COMPLETED" /\ sets[b].status = "COMPLETED"
                         THEN [sets EXCEPT ![b] = Failed(@)] ELSE sets
     \/ /\ job[w].seen \notin {"PENDING", "COMPLETED", "VERIFIED"}
        /\ Settle(w, FALSE) /\ sets' = sets
  /\ UNCHANGED <<store, now, next, action>>

(* --- requests to the API ------------------------------------------------- *)
\* run-now with one idempotency key: a failed action gets a new operation
\* time, one that looks abandoned keeps its own
runNow(h) ==
  /\ At(h, "idle") /\ now \in Times
  /\ \A t \in Times : sets[t].status \notin {"PENDING", "RUNNING"}
  /\ action.status # "COMPLETED"
  /\ LET t == IF action.status = "IN_PROGRESS" THEN action.time ELSE now IN
     /\ action' = [status |-> "IN_PROGRESS", time |-> t, times |-> action.times \union {t}]
     /\ job' = [job EXCEPT ![h] = Job("create", "runNow", t, {}, None)]
  /\ UNCHANGED <<sets, store, now, next>>

settleAutomationAction(h) ==
  /\ At(h, "settle")
  /\ action' = IF action.status # "IN_PROGRESS" THEN action
               ELSE [action EXCEPT !.status = IF job[h].seen THEN "COMPLETED" ELSE "FAILED"]
  /\ job' = [job EXCEPT ![h] = Idle]
  /\ UNCHANGED <<sets, store, now, next>>

requestBackup(b) ==
  /\ sets[b].status = "none"
  /\ sets' = [sets EXCEPT ![b] = NewSet]
  /\ UNCHANGED <<store, now, next, action, job>>

\* what BACKUP_TRANSITIONS lets an administrator do
executeBackupSet(h, b) ==
  /\ At(h, "idle") /\ sets[b].status \in {"PENDING", "FAILED"}
  /\ sets' = [sets EXCEPT ![b] = Running(@, h)]
  /\ job' = [job EXCEPT ![h] = Job("build", "http", b, {}, None)]
  /\ UNCHANGED <<store, now, next, action>>

cancelBackup(b) ==
  /\ sets[b].status \in {"PENDING", "COMPLETED", "FAILED"}
  /\ sets' = [sets EXCEPT ![b].status = "CANCELLED"]
  /\ UNCHANGED <<store, now, next, action, job>>

verificationChecking(h, b) ==       (* mutant: integrity_status in verification_status *)
  /\ At(h, "idle") /\ sets[b].status = "COMPLETED"
  /\ sets' = [sets EXCEPT ![b].verif = "CHECKING"]
  /\ job' = [job EXCEPT ![h] = Job("verify", "http", b, {}, None)]
  /\ UNCHANGED <<store, now, next, action>>

startVerification(h, b) ==
  /\ At(h, "idle") /\ sets[b].status = "COMPLETED"
  /\ sets' = [sets EXCEPT ![b].verif = "VERIFYING"]
  /\ job' = [job EXCEPT ![h] = Job("verify", "http", b, {}, None)]
  /\ UNCHANGED <<store, now, next, action>>

\* the stored bytes are read, or cannot be; bytes that changed show as another
\* checksum or as an error, depending on the provider
verifyStoredArtifact(h) ==
  /\ At(h, "verify")
  /\ \E outcome \in (IF store[job[h].b].intact THEN {"MATCH"} ELSE {"MISMATCH"}) \union {"ERROR"} :
       job' = [job EXCEPT ![h] = With(@, "verified", outcome)]
  /\ UNCHANGED <<sets, store, now, next, action>>

Judged(s, verdict) ==
  [status |-> IF verdict = "MATCH" THEN "VERIFIED" ELSE "COMPLETED",
   verif |-> verdict, lease |-> s.lease, sum |-> s.sum]

\* the verdict goes to a row that is VERIFYING and sets its status whatever it
\* is by now; an error goes to any row.  (The recovery points that a match
\* inserts are part of the restore workflow.)
finishVerification(h) ==
  /\ At(h, "verified")
  /\ LET outcome == job[h].seen IN
     sets' = [sets EXCEPT ![job[h].b] =
                IF outcome = "ERROR" THEN [@ EXCEPT !.verif = "ERROR"]
                ELSE IF @.verif # "VERIFYING" THEN @
                ELSE Judged(@, outcome)]
  /\ job' = [job EXCEPT ![h] = Idle]
  /\ UNCHANGED <<store, now, next, action>>

(* --- the rest of the world ------------------------------------------------ *)
\* the reaper: a lease may outlive its process, or its process may outlive it
recoverExpiredOperations(b) ==
  /\ sets[b].status = "RUNNING" /\ sets[b].lease # None
  /\ sets' = [sets EXCEPT ![b] = Failed(@)]
  /\ UNCHANGED <<store, now, next, action, job>>

Tick ==
  /\ now < MaxTime /\ now' = now + 1
  /\ UNCHANGED <<sets, store, next, action, job>>

Crash(w) ==
  /\ ~At(w, "idle") /\ job' = [job EXCEPT ![w] = Idle]
  /\ UNCHANGED <<sets, store, now, next, action>>

Corrupt(b) ==
  /\ b \in Corruptible /\ store[b].sum # None /\ store[b].intact
  /\ store' = [store EXCEPT ![b].intact = FALSE]
  /\ UNCHANGED <<sets, now, next, action, job>>

RunStep(w) ==
  \/ findStoredArtifact(w) \/ storeArtifact(w) \/ completeRun(w) \/ runFails(w) \/ failRun(w)
  \/ persistBackupIntegrityMetadata(w) \/ failUnpersisted(w)
  \/ createScheduledBackup(w) \/ executeBackup(w)

Next ==
  \/ \E w \in Workers : RunStep(w) \/ Crash(w)
  \/ \E c \in Cycles :
       runCycle(c) \/ resumePending(c) \/ listDueBackupSchedules(c) \/ claimBackupSchedule(c)
  \/ \E h \in Handlers :
       \/ runNow(h) \/ settleAutomationAction(h) \/ verifyStoredArtifact(h) \/ finishVerification(h)
       \/ \E b \in Backups : executeBackupSet(h, b) \/ startVerification(h, b)
  \/ \E b \in Backups : cancelBackup(b) \/ recoverExpiredOperations(b) \/ Corrupt(b)
  \/ \E b \in Manuals : requestBackup(b)
  \/ Tick

\* The timer of every process fires again and again and the reaper runs every
\* minute; a cycle that is cut short over and over still gets each step through.
Fairness ==
  /\ WF_vars(Tick)
  /\ \A c \in Cycles : /\ WF_vars(runCycle(c)) /\ WF_vars(RunStep(c))
                       /\ SF_vars(resumePending(c)) /\ SF_vars(listDueBackupSchedules(c))
                       /\ SF_vars(claimBackupSchedule(c)) /\ SF_vars(executeBackup(c))
  /\ \A b \in Backups : WF_vars(recoverExpiredOperations(b))

Spec == Init /\ [][Next]_vars
FairSpec == Spec /\ Fairness

(* --- properties ------------------------------------------------------------ *)
\* Every row keeps to its columns' values, whatever order the steps come in.
TypeOK ==
  /\ sets \in [Backups -> [status : Statuses, verif : Verdicts,
                           lease : Workers \union {None}, sum : Workers \union {None}]]
  /\ store \in [Backups -> [sum : Workers \union {None}, intact : BOOLEAN]]
  /\ now \in 0 .. MaxTime /\ next \in FirstRun .. MaxTime + 1
  /\ action \in [status : {"none", "IN_PROGRESS", "COMPLETED", "FAILED"},
                 time : Times \union {None}, times : SUBSET Times]
  /\ \A w \in Workers : job[w].b \in Backups \union {None} /\ job[w].todo \subseteq Times

\* No occurrence is lost: once the schedule has moved past one, its row exists,
\* wherever the cycle that claimed it stops (claimBackupSchedule).
ClaimedOccurrenceHasSet == \A t \in FirstRun .. next - 1 : sets[t].status # "none"

\* Two workers may run one reference, one of them on a lease that was reaped,
\* and build two artifacts: a finished row names the one the storage kept.
RowNamesStoredArtifact ==
  \A b \in Backups :
    /\ sets[b].status \in {"COMPLETED", "VERIFIED"} => sets[b].sum # None
    /\ sets[b].sum # None => sets[b].sum = store[b].sum

\* A RUNNING row has a lease, or the reaper (recoverExpiredOperations) would
\* never free it after its worker died.
RunningIsRecoverable == \A b \in Backups : sets[b].status = "RUNNING" => sets[b].lease # None

\* A due occurrence is attempted: its backup completes, fails or is cancelled,
\* although cycles stop between the claim, the run and its completion
\* (resumePendingScheduledBackups and the reaper).
DueOccurrenceIsAttempted ==
  \A t \in FirstRun .. MaxTime : (now >= t) ~> (sets[t].status \notin {"none", "PENDING", "RUNNING"})

\* Nobody leaves the lifecycle of BACKUP_TRANSITIONS (server/backup-recovery.js),
\* neither a run that ends after the reaper, a cancellation or another run ended
\* it, nor two requests at once.  Only the verdict of a verification does, which
\* goes to a VERIFYING row whatever became of its status meanwhile, and then the
\* failure of the run from which a verdict took the row but not the lease.
Lifecycle ==
  ({"none"} \X {"PENDING"}) \union ({"PENDING"} \X {"RUNNING", "CANCELLED"})
  \union ({"RUNNING"} \X {"COMPLETED", "FAILED"})
  \union ({"COMPLETED"} \X {"VERIFIED", "FAILED", "CANCELLED"})
  \union ({"FAILED"} \X {"RUNNING", "CANCELLED"})

OnlyVerdictsLeaveLifecycle ==
  [][\A b \in Backups : sets'[b].status # sets[b].status =>
       \/ <<sets[b].status, sets'[b].status>> \in Lifecycle
       \/ /\ sets[b].verif = "VERIFYING"
          /\ sets'[b] \in {Judged(sets[b], "MATCH"), Judged(sets[b], "MISMATCH")}
       \/ /\ sets[b].status # "RUNNING" /\ sets[b].lease # None
          /\ sets'[b] = Failed(sets[b])]_vars
=============================================================================
