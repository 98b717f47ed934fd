# Verification of the HRIS core

TLA+ models of the parts of this human-resources system in which several
handlers, processes or services share state: payroll generation, the anchoring
of payroll on a permissioned blockchain, backups and their restoration, the
attendance that payroll reads, and leave. TLC checks each model on small
instances; TLAPS proves for every value of the constants whatever safety property the
runs confirm. Every definition is a translation of the code named in the `map` of
`PROJECT.json`; `findings` lists where the code and its own texts disagree.

1. [The system](#1-the-system) · 2. [Modules and code](#2-modules-and-code) ·
3. [What the runs check](#3-what-the-runs-check) · 4. [Findings](#4-findings) ·
5. [What is proved](#5-what-is-proved) · 6. [Limits](#6-limits) · 7. [Plan](#7-plan)

To run a check: `tlc -config PayrollRun.cfg MCPayrollRun`; a proof:
`tlapm PayrollRunProofs.tla`. No run needs `CHECK_DEADLOCK FALSE`.

## 1. The system

An Express server (several processes may run), one MySQL database, a Hyperledger
Fabric network reached through a gateway client, an artifact store for backups,
and browser pages. Handlers of one process interleave at every `await`; handlers
of all processes share the database. Three kinds of atomicity occur, and the
models keep them apart:

- a **transaction** with `SELECT ... FOR UPDATE` is one step up to its commit;
- a **transaction without row locks** (REPEATABLE READ) is a step that reads and a
  step that writes, with the guards that the write itself has (unique keys,
  predicates of its `UPDATE`);
- a handler on the **pool** is one step per statement, and between two of them
  anything else may happen, a crash included.

Two things end a transaction early and both occur in this code: a deadlock rolls all
of it back, not only to the savepoint, and DDL (`CREATE TABLE IF NOT EXISTS`, `ALTER
TABLE`) commits it implicitly, also when the table is there. Most of the DDL that
handlers run is remembered by the process and runs once (`ensurePieceRatePayrollSchema`).
That of the attendance policy is not: `getActiveAttendancePolicy` of an employee reaches
`ensurePayrollAttendanceConfigurationSchema` (`employee-payroll-policy.js:41`), which
creates its table on the caller's connection each time. So the scan of a pushing
device, a refresh of a summary and the generation of an employee who is paid by time
all end the transaction they are in. What follows is committed statement
by statement, with no row locked. Only a named lock (`GET_LOCK` of the integrity
chain) belongs to the connection and outlives the transaction.

### Components

| component | state | operations | interacts with | hard behaviour | correct when |
|---|---|---|---|---|---|
| **payroll processing** (`server/payroll.js`) | `payroll_runs`, `salary_calculations`, `payslips`, consumed sources | generate, change status, recalculate, encode by hand, convert | sources of attendance, trips, outputs; snapshot; deductions | swallowed errors, transactions that end inside the loop, read-check-write on the pool | within its transaction all or nothing per employee; every consumed source is paid; payslip and calculation agree; one payment per period |
| **payroll integrity snapshot** (`server/payroll.js`) | `PAYROLL_RECORD`, `BLOCKCHAIN_AUDIT_LOG` | queue, upsert, audit on every status change | calculations, anchoring | snapshot outlives the calculation it was taken of | what is anchored stays what was approved |
| **payroll blockchain audit** (`blockchainPayrollController.js`) | the same rows, receipts | record, adjust, verify | snapshot, ledger | lost answers, retries, concurrent submissions | evidence once; verdicts true; retries converge |
| **permissioned ledger** (`fabricService.js`, chaincode) | world state, transactions in flight | endorse, order, validate, commit | anchoring handlers | a commit after the client gave up | one immutable record per key |
| **backup automation** (`backupAutomationService.js`, `backupWorker.js`) | `backup_schedules`, `backup_sets`, artifacts | claim, create, execute, resume, retention, drills | recovery API, storage | several servers, leases, crashes at any step | no occurrence lost; rows name real artifacts |
| **backup operations** (`backup-recovery.js`, `backupRuntime.js`) | `backup_sets`, action ledger, recovery points, restore jobs | request, run, run-now, verify, cancel, restore, roll back | automation, storage, step-up MFA | verification that lasts minutes, retries | lifecycle respected; run-now idempotent; a live restore is approved and rehearsed |
| **module switches** (`moduleCodeService.js`) | the source files of a module, a transaction directory | replace, verify, undo | restore jobs, artifacts | a step that fails, or a process that stops, between two files | a module is one version as a whole |
| **attendance** (`attendance*.js`, `dtr-punch.js`, `attendance-policy-engine.js`), **biometric devices** (`biometric.js`) | daily rows, summaries, scan events, integrity entries | ingest, punch, enter, correct, validate, decide on overtime | payroll, which reads the summaries | transactions that end before the row is written, scans delivered twice or late, around a validation | payroll sees only what HR validated; the summary settles on the row; an event tells what its scan did |
| **leave** (`server.js`) | leave requests, leave balances | file, endorse, approve, reject, cancel, reopen, enter a balance | payroll and HR users | checks and writes of a filing are separate statements; two decisions at once | four eyes on every approval; each is charged once and within the balance |
| DTR blockchain (`blockchainDtrController.js`) | finalized time records, audit rows | generate, record, adjust, verify | ledger, attendance | as payroll anchoring | as payroll anchoring |
| employees, offboarding (`server.js`) | employee status, clearance | resign, clear, close | payroll, attendance | steps of several departments | a closed case is cleared |
| authentication (`authController.js`, `db/authQueries.js`, `mfaService.js`) | sessions, refresh tokens, challenges, lockout | login, refresh, verify, log out | all | concurrent refresh, one-time codes | a token or code is spent once |
| account requests (`accountCreationRequestService.js`) | requests, accounts | submit, review, create | authentication | two reviewers | one account per approved request |
| onboarding (`onboarding.js`) | applicants, invitations | invite, submit, convert | employees | conversion twice | one employee per applicant |
| storage and formats, encryption, health probes, reports, RBAC, consent, files, performance, infrastructure, front-end | single rows, bytes or none | CRUD, I/O | – | – | – |

Modelled, at least in part, are the components in bold. The last row is listed component by component in `PROJECT.json`, each with the
reason why it is not modelled. What is hard to test in all of them is under
`hazards`, each at the line where it bites, with the properties that cover it.

## 2. Modules and code

```
EvidenceLog  <--refines--  PayrollAnchor  --extends-->  PayrollSnapshot
                              |   \--instance-->  FabricLedger
                              +-- MCPayrollAnchor            (TLC)
                              +-- PayrollAnchorProofs  <--  PayrollAnchorRefinement
RestorePromise  <--refines--  RestoreWorkflow  --extends-->  ModuleCutover
                              +-- MCRestoreWorkflow          (TLC)
                              +-- RestoreWorkflowProofs  <--  RestoreRefinement
BackupExecution  <--  MCBackupExecution, BackupExecutionProofs
PayrollRun       <--  MCPayrollRun, PayrollRunProofs
Attendance       <--  MCAttendance, AttendanceProofs
LeaveLedger  <--refines--  Leave  <--  MCLeave, LeaveProofs
```

### PayrollSnapshot, FabricLedger, PayrollAnchor

`calc[p]` is a salary calculation: its status, its pay figures as a version number
(`content`), and `approved_at`/`approved_by` as a counter (`stamp`). `rec[p]` is the
`PAYROLL_RECORD` row, `audit` the rows of `BLOCKCHAIN_AUDIT_LOG`. A hash is the triple
of what `computePayrollHash` digests; SHA-256 is taken to be injective.
`FabricLedger` has the world state, the adjustments and the life of each
transaction: endorsed and ordered, then valid, invalid or lost, whatever the
client is told. A handler is a worker `w`, with its next statement in `pc[w]` and its
locals in `arg[w]`: what it read of the row before it called the gateway is what
it hashes afterwards.

| actions | code |
|---|---|
| `submitForApproval`, `approve`, `releaseOrPay`, `lock`, `writePayrollBlockchainAudit` | `PATCH /salary-calculations/:id/status`: the row is locked, but the `CREATE TABLE` before the audit row commits, so that row is a step of its own |
| `recordTransaction`, `saveCalculation`, `editWrite`, `queueRead`, `queueUpsert` | handlers that encode figures on the pool: check, write by id, queue the record |
| `startFinalize`, `startAdjustment`, `submitTransaction`, `gatewayReceipt`, `gatewayError`, `recordAnchored`, `markPendingAnchor`, `auditAdjustment` | `POST /blockchain/payroll/record` and `/adjust`; `withContract` reports every error, a refusal by the chaincode included, as "unavailable" |
| `verifyRefused`, `startVerify`, `verifyLocal`, `verifyOnFabric`, `verifyFallback` | `GET /blockchain/payroll/verify/:payrollId` |
| `OrderTx`, `CommitRecord`, `InvalidateDuplicate`, `CommitAdjustment`, `LoseTx` | endorsement by the chaincode, ordering, validation of read sets |
| `abort`, `changeOutOfBand` | a handler or process that stops; a row changed behind the application |

`edited` and `tampered` are history variables. `EvidenceLog` is the abstract
specification: attest once, amend only what is attested, judge truly.

### BackupExecution

`sets[b]` is a row of `backup_sets` (status, verification, lease, checksum),
`store[b]` the artifact under the backup's reference, `next` the schedule's
`next_run_at`, `action` the run-now entry of the action ledger, `job[w]` what a
process is doing. Occurrences are numbered, and a scheduled set is named by its
occurrence, as `backup_reference` is.

| actions | code |
|---|---|
| `runCycle`, `resumePending`, `listDueBackupSchedules`, `claimBackupSchedule`, `createScheduledBackup`, `executeBackup` | one automation cycle of `backupAutomationService.js` |
| `findStoredArtifact`, `storeArtifact`, `completeRun`, `runFails`, `failRun`, `persistBackupIntegrityMetadata`, `failUnpersisted` | one run, by `BackupWorker` or by the API |
| `runNow`, `settleAutomationAction`, `requestBackup`, `executeBackupSet`, `cancelBackup`, `startVerification`, `verifyStoredArtifact`, `finishVerification` | handlers of `backup-recovery.js` |
| `recoverExpiredOperations`, `Tick`, `Crash`, `Corrupt` | the reaper; time; a process that stops; bytes that change in the store |

When a lease expires is left open: the reaper may take it from a live worker.

### PayrollRun

`runs` holds the periods that have a payroll run; `calc[id]` is a calculation with
its period, its `payroll_run_id` (`run`) and its `source_record_ids` (`listed`);
`slip[p][e]` the payslip (unique per run and employee); `paid[s]` the run that
consumed a source; `warm` whether this process has run the schema DDL yet.
Amounts do not matter to the properties and are left out.

| actions | code |
|---|---|
| `genStart`, `genCommit` | `POST /generate` as long as it is in its transaction: the snapshot it reads, and what its savepoints, keys and predicates let it write |
| `genSplit` | the first employee of the loop who is paid by time and not in the run yet: the DDL of the policy commits the employees before |
| `genDeadlock`, `genStartCold` | the other two ways in which that transaction ends while the loop goes on: a deadlock, and the schema DDL of a process that has not run it |
| `autoCheck`, `autoRead`, `autoInsert`, `autoPayslip`, `autoMark`, `autoError`, `autoEnd` | that loop, now one autocommitted statement per step |
| `submitForApproval`, `submitSlip`, `changeStatus`, `recalculate` | status changes and recalculation, with payslips and sources |
| `saveCheck`, `saveInsert`, `saveRead`, `saveOverwrite` | `POST /salary-calculation`, on the pool |
| `transactionFound`, `transactionNew` | `POST /transactions/production` and `/transactions/logistics`; they share the writes of the row above |
| `outputFound`, `outputNew` | `POST /piece-rate-outputs`, with the same writes |
| `ensureSchema` | `ensurePieceRatePayrollSchema`: once per process, before any handler goes on, drafts that have a source type come up for review |
| `convertRead`, `convertInsert` | `POST /convert-calculations-to-payslips` |
| `leave`, `restart` | a request that ends anywhere; the process restarts and is cold again |

`TimePaid` and `WorkPaid` say how an employee may be paid; they may overlap, since a wage
type can be edited. Only employees who are paid by piece or trip, or who are in the run
already, leave a generation its transaction to the end. `loose` holds the calculations that
were generated outside of one, and `overwritten` those from which a stale save took a
locked status. `AllOrNothing` is stated of `CalcIds \ loose`: the calculation of
an employee reached after the transaction has ended is there before its payslip, and an
error leaves it without. `PayslipNotAhead` covers these calculations too, except where a
second calculation of the run and employee shares their payslip (`SharesSlip`).
`MarkedIsListed` needs no exception.

### RestoreWorkflow, ModuleCutover, RestorePromise

`RestoreWorkflow` continues where `BackupExecution` ends: `set[b]` is a completed
row of `backup_sets` with its retention status and the rank of its `verified_at`,
`bytes[b]` says that the artifact is stored, `point[b]` is the recovery point of
the module, `job[j]` a row of `restore_jobs` or `module_rollback_requests` (a restore
with its `affected_module`, `None` when it asks for all of the backup; `Included[b]` is
what it may name), `drill`
the run of one drill occurrence, `proc[w]` what a worker is doing. `ModuleCutover`
has the files of a module in the active tree, each with the version it comes
from, and the transaction directory of each cutover.

| actions | code |
|---|---|
| `verifyBackup` | the end of a verification, with the recovery point it publishes |
| `requestRestore` | refused while a restore of the same backup and the same `affected_module`, null being one of its own, is open; restores of one backup for two modules, or for one and for all, may be open together |
| `requestRollback`, `approve`, `reject`, `cancel` | the other request handlers of `backup-recovery.js`, one transaction each |
| `startDryRun`, `runRestoreDryRun`, `finishDryRun`, `failDryRun` | `POST /restore-jobs/:jobId/dry-run`: take a lease, call the runtime, report under the lease |
| `startExecution`, `applyRestore`, `markPending`, `finishExecution`, `failExecution` | `POST .../execute`; the backup is marked `RESTORED` whatever has become of the job |
| `startTargetVerification`, `verifyPendingRestore` | `POST .../verify-target`, for an instance made of a database snapshot |
| `beginCutover`, `endCutover`, and the actions of `ModuleCutover` | `ModuleCodeService.applyModuleRollback`: save, remove and rename file by file, compare hashes, undo |
| `findLatestVerifiedBackup`, `createDrillRun`, `finishDrillRun` | restore drills |
| `listRetentionScope`, `markBackupExpired`, `passOver`, `deleteArtifact`, `markArtifactDeleted`, `endRetention` | a retention cycle: list once, look again at each row, delete |
| `recoverExpiredOperations`, `Crash` | the reaper, which may take the lease of a slow worker; the process stops |

`touched` and `torn` are history variables: the requests whose target has been
changed, and that a cutover was cut off or could not be undone. `RestorePromise`
is the abstract specification: ask, approve, rehearse (a restore), start, change
the target, close; a target changes only for a request that was started.
`Installed` is what a cutover in progress would put back, and otherwise what is in
place: in these terms `CutoverIsAtomic` says that a cutover, which takes many steps
and may fail at each of them, has one in which it happens.

`admin-rbac.js` has older handlers for the same tables. They are mounted behind
those of `backup-recovery.js`, under the same paths, and are never reached.

### Attendance

`log[d]` is a row of `attendance_log` (one employee's day), `sum[d]` the row of
`attendance_summary` that payroll reads, `event[s, slot]` the status of the
`biometric_scan_event` row with that idempotency key (a station's key names the slot),
`changes[d]` the entries of a day in `attendance_integrity_chain`, and `tx[w]` a request
in progress: the statement it has reached and the row it has read or is about to write.
`judged` (the punches that HR has validated), `decided` (HR's decision on the overtime since
it was entered), `applied` (how often a scan became a punch) and `torn` are history.

| actions | code |
|---|---|
| `openEvent` | `ingestBiometricEvent`, for events that devices push: the event is inserted first, and the policy lookup of `attendance-service.js:472` commits it as `NEEDS_REVIEW` |
| `checkRecent`, `readRow`, `writeRow`, `markEvent` | the rest of `processMappedEvent`, autocommitted: the duplicate window, the row (whose `FOR UPDATE` waits for a holder and then holds nothing), the update by id or insert, the status of the event |
| `receiveScan`, `punch` | `recordBiometricAttendance`, for stations: the duplicate window on the pool, then the row of the day under its lock (`classifyDtrPunch`) |
| `enterManually`, `override`, `verify`, `enterOvertime`, `reviewOvertime` | the handlers of `attendance.js`, up to the lock of the row |
| `publish`, `chainEvent` | the lock and the entry of the integrity chain, then `refreshSummary` as far as its own policy lookup (`attendance-service.js:311`), which commits the row of a station or of HR |
| `refreshStatus`, `writeSummary` | the rest of `refreshSummary`, autocommitted: the overtime status back to the row, then the summary; the chain is unlocked at the end |
| `refreshAgain` | the second `refreshSummary` of a station (`biometric.js:807`), with neither the row nor the chain locked |
| `fail` | an error, a timeout or a lost connection at any point: it undoes what an open transaction holds, and no more |

A day is `torn` when a request failed between its row and its summary, or when the second
refresh of a station wrote what it had read of a row that was changed since: there the
code leaves a summary that is not that of the row, until something refreshes it again.

### Leave

`req[r]` is a row of `leave_requests`, `bal[e]` one of `leave_balances`, `op[h]` what a
handler has read or holds locked. `entered` and `charged` are history: the used days
HR entered last and what approvals charged since.

| actions | code |
|---|---|
| `file`, `checkBalance`, `checkLimit`, `insert` | `POST /api/leave`, a statement each: overlap, balance (portal requests), annual limit, insert |
| `decide`, `deduct`, `commit` | `PATCH /api/leave/:id/status`: the row and its leave type are locked, then the balance; all is written at the commit |
| `setBalance` | `PUT /api/leave/balances`, absolute values |
| `giveUp` | a check that refuses, a statement that fails, a process that dies |

`LeaveLedger` is the abstract specification, on the same two tables and without
handlers: file, endorse, approve, reject, cancel or reopen, enter a balance. Each is
one event, made on the rows of that moment, and an approval takes its days, which
must be there, in the same event. `DecisionsAreAtomic` (`Leave` implements it) is what
the row locks are for. It does not ask for the checks of a filing, which the code
does not make atomically (section 4).

## 3. What the runs check

| run | instance | properties | distinct states |
|---|---|---|---|
| `payroll_anchor` | 1 payroll, 2 handlers, 2 transactions, 1 edit, 2 approvals | `TypeOK`, `RecordedHasEvidence`, `VerdictsAgreeWithLedger`, `NoFalseAlarm`, `OnlyApprovedAnchored`, `RecordedFieldsFrozen`, `ImplementsEvidenceLog` | 1,721,144 |
| `payroll_anchor_liveness` | 1 payroll, 1 handler, 1 transaction, no edit, 1 approval, fair | `EventuallyOnLedger` | 374,960 |
| `payroll_run` | 1 employee (paid by time or by work), 1 period, 1 source, 2 handlers, 2 calculations | `TypeOK`, `AllOrNothing`, `MarkedIsListed`, `PayslipNotAhead` | 4,079,861 |
| `backup_execution` | 2 cycles, 2 handlers, 1 scheduled occurrence whose bytes may change | `TypeOK`, `ClaimedOccurrenceHasSet`, `RowNamesStoredArtifact`, `RunningIsRecoverable`, `OnlyVerdictsLeaveLifecycle` | 2,711,608 |
| `backup_liveness` | 1 cycle, 1 handler, 1 occurrence, 1 manual backup and run-now, fair | `DueOccurrenceIsAttempted` | 189,747 |
| `restore_workflow` | 2 backups, one of them a snapshot, 2 restores, of one module or of all, 2 workers, 1 drill, keep 1 | `TypeOK`, `OpenRequestHasBytes`, `NewestBackupKept`, `OneOpenRequest`, `KeepsPromise` | 2,256,757 |
| `module_rollback` | 2 versions of 2 files beside the one in place, 2 rollbacks, 2 workers | `ModuleIsWhole`, `CutoverIsAtomic` | 1,914,817 |
| `attendance` | 1 day, 2 requests, 3 scans, 2 times, 3 changes | `TypeOK`, `EligibleWasValidated`, `SummaryFollowsRow`, `PayableWasApproved`, `EventTellsPunch`, `StationScansAdd` | 3,777,420 |
| `leave` | 2 requests (one a legacy row), 1 employee who works in payroll, 2 handlers, 2 days | `TypeOK`, `ApprovedByFourEyes`, `NeverOverdrawn`, `EveryApprovalCharged`, `DecisionsFollowWorkflow`, `DecisionsAreAtomic` | 2,960,331 |

The other three runs each check one property and find it violated (section 4). For
every property of a passing run `PROJECT.json` names a mutant of the code (an
operator marked `mutant` in the module) that breaks it.

**What they show.** *Payroll anchoring*: two handlers race to submit, approve twice,
record, adjust, verify and edit one payroll while answers are lost; evidence is
written once and only of approved figures. *Payroll*: the employees that a generation
reaches within its transaction are generated whole or not at all; wherever the
transaction ends, no source is consumed unlisted and no payslip runs ahead of its
calculation. *Backups*: two cycles, the reaper and administrators work on one
occurrence; it is not lost, its row names the artifact that is stored, and the
only way out of the lifecycle of statuses is a verdict or a failure that comes late.
*Restoration*: retention works through a list it read before, drills come and go,
leases expire under slow workers; no request loses its artifact, the newest
backup stays, and nothing changes a target unasked, unapproved or (a restore)
unrehearsed. *Rollback*: the files of the module are replaced one by one, and a
cutover that fails at any of them puts the old ones back, while one that is done
leaves the version its rollback names; a second rollback, possible once the reaper
failed the first, is refused while that one still works.
*Attendance*: scans, delivered again at will, fall around a validation or an overtime
decision on the same day, in handlers whose transactions end in the middle. In every
state, a torn one too, payroll is shown as eligible only punches that HR has
validated. The lock of the integrity chain, not that of the row, brings summaries
into the order of their rows. A pushed event that is VALIDATED made one punch and
one refused made none. The row lock that stations do hold keeps their scans from taking
anything away; for devices this is not claimed, because it is false (section 4). *Leave*: endorsements, approvals, reopenings and HR's entry of
the balance race; every approval had four eyes and is charged once, and each
decision could have been made in one go.

**Why the bounds are enough.** Rows of different payrolls, backups, days and
employees meet only through the keys and locks they share, so one of each with two
handlers that race on it shows each pairwise interleaving. Two transactions let a
refused one follow a committed one; identifiers of invalid transactions are
reused, so the number of retries is not bounded. One edit and two approvals are
what it takes to have a second snapshot. Two calculations per employee are the
least with a generated one beside a hand-encoded one. Two backups with
`KeepLast` 1 are the least of which retention may take one; one is a snapshot,
since only the target of a snapshot stays pending, and the drill may pick the
other. In `module_rollback` one version carries both files and the other one, so
files are added, replaced and removed. The three scans of `attendance` are two of a
device within the duplicate window, one of which names its slot, and one of a
station, which takes whatever slot it finds; the three changes of a day are two punches
or an entry, a validation or decision, and what undoes it, and devices punch beyond that
bound, which only stops them before their entry of the chain. With two days and an annual limit of one day `leave` has
requests that overlap, exceed a balance, and fit. A legacy request does not lock
the leave type, so the run has a pair of decisions of which only the balance's own
lock keeps the charges apart. A source that two periods cover, and employees who
share one, are beyond a run of this size; the proofs cover them, since they put no
bound on any set. `MaxEdits`, `MaxApprovals`, `MaxCalcs`, `MaxTime`, `Corruptible`,
`MaxChanges`, `LastDay` and `MaxTotal` are bounds of the models, `TxIds` of the
transactions in flight. The `VIEW` of `payroll_anchor` drops audit rows whose status
no handler reads back and no property names. Symmetry is over handlers, workers,
cycles, requests and transactions only; the temporal properties checked with it
(`ImplementsEvidenceLog`, `RecordedFieldsFrozen`, `OnlyVerdictsLeaveLifecycle`,
`KeepsPromise`, `CutoverIsAtomic`, `StationScansAdd`, `DecisionsFollowWorkflow`,
`DecisionsAreAtomic`) are of the form []P or
[][A]_v and symmetric, and the liveness runs have none.

**Fairness.** `PayrollAnchor!Fairness`: a started handler runs on (weak); users
keep requesting a record that is not anchored, the gateway accepts some of the
submissions it keeps getting, and Fabric orders and commits some of them
(strong: each single one may still fail). Nothing is assumed of `abort`, of lost
answers or of lost transactions. `BackupExecution!Fairness`: time passes, the
timer of each process fires again and the reaper sweeps every minute (weak); a
cycle that is cut short over and over still gets each of its steps through
(strong), since a crash may hit any one attempt but not all of them. There is no
fairness for administrators. Restores, attendance and leave move only when people
ask, so nothing is assumed, or claimed, of their progress.

## 4. Findings

Each is a run that ends with a counterexample; the quoted text is in `PROJECT.json`.

- **`LockedFiguresFrozen`** – the handlers that record a production or logistics
  transaction accept Approved and Locked calculations and add to their gross pay.
- **`OnePaymentPerPeriod`** – a hand-encoded, submitted calculation belongs to no run
  and consumes no source, so `/generate` pays its period again; both can be
  approved, although the same check in the other direction exists.
- **`DuplicateIsRefused`** – a station's request looks for scans within the duplicate
  window before its transaction and before the lock of the day, and the key of its
  event names the slot it fills. Of two requests in progress together, one sent
  twice included, the first becomes the time in and the second the time out; the
  documentation says that a duplicate receives HTTP 409.

Other places where the models contain what a text of the repository excludes.
They have no run of their own; each can be followed in the actions named.

- Two requests to record one payroll pass the check together; the chaincode refuses
  the second, `withContract` calls that "unavailable", and `markPendingAnchor` sets
  the row of the first, now RECORDED, back to PENDING_ANCHOR. `README.md:309`
  calls the action intentionally idempotent.
- The answer to a committed submission is lost. Every retry is refused, is taken
  for an outage, and the row stays PENDING_ANCHOR, although `README.md:339` says to
  use the action again (`gatewayError`, `markPendingAnchor`).
- A verification that ends late writes VERIFIED over CANCELLED, a status
  `BACKUP_TRANSITIONS` (`server/backup-recovery.js:66`) gives no way out of
  (`finishVerification`). `OnlyVerdictsLeaveLifecycle` says that late verdicts and
  late failures are the only such steps.
- The timer takes the row of a run-now request; the request fails as the loser of
  the race, and its retry, with a new operation time, makes a second backup.
  `docs/BACKUP_RESTORE_OPERATIONS_GUIDE.md:69` says that a retried response cannot
  create a duplicate run (`runNow`, `settleAutomationAction`).
- A device's scan writes the day from a row it read before, so a station's punch or HR's
  correction that falls in between is lost (`readRow`, `writeRow`), and a request that
  fails leaves its event as NEEDS_REVIEW with or without the punch; the redelivery is
  then ignored as one that is known (`openEvent`). The `beginTransaction`, `rollback` and
  `FOR UPDATE` of `attendance-service.js` suppose a transaction that is not there.
- After `genSplit` the release of an employee's savepoint fails and `/generate`
  reports an employee as skipped whose calculation, payslip and sources are written
  (`payroll.js:8967`).
- Two filings of one employee pass the overlap and the annual-limit check together,
  and a rejected request set back to Pending repeats neither (`file`, `insert`,
  `decide`). `docs/stride/leave-management-stride.md:25` names both as mitigations.
- Cancelling an approved leave, or setting it back to Pending, leaves its days
  charged; approved again, it is charged again. `EveryApprovalCharged` therefore
  counts approvals, not approved requests.

## 5. What is proved

For all constants that satisfy the named assumptions:

| module | theorems |
|---|---|
| `PayrollAnchorProofs` | `TypeCorrect`, `RecordedEvidence`, `VerdictsAgree`, `AnchoredWasApproved`, `RecordedFrozen`, from `Invariance`; `AlarmsHaveCause`, from `CleanInv` beside it |
| `PayrollAnchorRefinement` | `Refinement`: the handlers and the ledger implement `EvidenceLog` |
| `PayrollRunProofs` | `TypeCorrect`, `GeneratedTogether`, `SourcesListed`, `PayslipsFollow`, from `Invariance`; `RunsPayOnce`, what is left of the violated `OnePaymentPerPeriod` |
| `BackupExecutionProofs` | `TypeCorrect`, `NoOccurrenceLost`, `RowsNameArtifacts`, `RunningRecoverable`, `LifecycleKept`, from `Invariance` |
| `RestoreWorkflowProofs` | `TypeCorrect`, `RequestsKeepBytes`, `NewestStays`, `OneAtATime`, `RunningIsLeased`, from `Invariance`; `ModuleStaysWhole`, `CutoversAtomic`, from `CutInv` and `HeldInv` beside it |
| `RestoreRefinement` | `PromiseKept`: the workflow and its cutovers implement `RestorePromise` |
| `AttendanceProofs` | `TypeCorrect`, `OnlyValidatedIsPaid`, `SummaryKept`, `OnlyApprovedIsPayable`, `DeliveredOnce`, `ScansAdd`, from `Invariance` |
| `LeaveProofs` | `TypeCorrect`, `FourEyes`, `BalancesSuffice`, `ApprovalsCharged`, `WorkflowFollowed`, from `Invariance`; `DecisionsAtomic`: the handlers implement `LeaveLedger` |

Assumptions: bounds are naturals, the null value is none of the values it stands
beside (backups, requests, workers, files of a module), `Payrolls` is not empty, sets of names that share a table are disjoint
(processes and backups, restores and rollbacks, users of payroll and of HR), and
functions such as `Owners`, `Covers` and `Carries` are of the right kind. `KeepLast` is
positive, as the policy's editor demands. Only `Backups` of `RestoreWorkflow` is
assumed to be finite, because the rank of a verification counts those before it.

**Why the invariants need strengthening.** Hardly any of the properties is inductive,
because handlers carry what they read across steps of others. Each `IInv` says what
those locals are still good for.

- *PayrollAnchor*: a handler that waits for a receipt names the transaction it
  ordered, with the hash of the row it read (`HandlerInv`); a transaction on its
  way to the ledger carries a snapshot with an approval stamp that exists, and a
  valid one is what the ledger holds (`TxInv`); a locked calculation has been
  approved (`StampInv`), which carries approval over to the snapshot. A confirmed
  local hash is then the ledger's, which is why the fallback of a verification can
  answer VERIFIED and why its CRITICAL branch is never taken. `NoFalseAlarm` needs more:
  snapshots of one payroll may differ in their stamps, and `CleanInv` says that they
  do not differ in their figures. Of a payroll that was neither edited after an
  approval nor changed out of band, the calculation was approved at most once and
  is then in a status that no edit and no second approval leaves; so the row, each
  handler that carries it to the gateway or compares it, each transaction on its
  way and the ledger all hold figures of that calculation, taken with its one stamp.
- *PayrollRun*: a generation about to mark sources has inserted the calculation that
  lists exactly these, and one about to insert a payslip does so for an employee who gets
  one (`NamedRows`); employees of an agency have no payslips. A commit, at the end or at
  `genSplit`, adds for each employee a calculation outside `loose` together with the payslip
  that names it, which only an empty place in the UNIQUE key lets it do.
  `PayslipNotAhead` rests on `AllOrNothing`: a change of status reaches every payslip of its
  run and employee, and a calculation other than the payslip's own in that run and
  employee is in `loose`, which is the case `SharesSlip` excepts.
- *BackupExecution*: what a worker is about to write as the checksum is the one the
  store keeps, whoever built it (`JobOK`); a row under verification has one
  (`RowOK`). That holds because the store never replaces an artifact.
- *RestoreWorkflow*: whatever is no longer ACTIVE was passed by a backup verified
  later, and bytes are only missing where that holds (`SetInv`); an open request
  names a backup that is ACTIVE (`JobInv`); a worker that deletes has taken its
  backup out of ACTIVE, and one that retires has only backups in its list that a
  later one has passed (`ProcInv`), however long ago it read that list. The newest backup
  is then never in any list, and a backup some request holds is never deleted.
- *ModuleCutover*: at most one cutover is under way, and as long as none was cut
  off, its transaction directory holds a whole version, nothing outside the managed
  files exists in either tree, the files it has dealt with are those of the version it
  installs, and it verifies, or begins to discard, only a complete one (`CutInv`).
  That gives `ModuleIsWhole` and the values that a cutover may leave. `CutoverIsAtomic`
  also needs to know whose cutover it is: its worker is executing a started rollback,
  does nothing else until it ends, and installs the version that rollback names
  (`HeldInv`), although the reaper may have failed the rollback since.
- *Attendance*: the row that an open transaction is about to write was computed from the
  row that is still there (`RequestInv`), because a row that exists has one holder
  (`LockInv`) and nobody writes a held row. One refresh in order is under way at a time
  (`ChainInv`), and what it has read is the row in everything the summary is made of; as
  soon as none is, the summary is that of the row (`FollowInv`). A pushed scan may write
  under a refresh, but then it owes one of its own, which the chain makes wait. A row that
  is PAYROLL_READY, or that some refresh holds as such, carries punches HR has validated,
  and outside `torn` an approval stands only if HR's last decision is one (`DayInv`,
  `Rewriting`). The scan of a device is carried by one request, with its event in
  NEEDS_REVIEW, until that request says what became of it (`EventInv`).
- *Leave*: what an open decision read of its request still stands, and the balance
  it is about to write is the one in the table with this charge (`OpsInv`); no two
  decisions hold one request or one balance (`LocksInv`), which rests on the lock of the
  balance alone when one of the requests is a legacy one; a request that was endorsed
  names somebody of payroll other than its owner (`RowsInv`).

Three refinements are proved step by step. The first maps `CommitRecord` to `Attest`, `CommitAdjustment` to `Amend`, an
audit row with a verdict to `Judge` and every other step to a stutter. The second maps
the status of a job to a stage; a late report finds the lease gone and
stutters, and a change of the target is a step of its own, by a worker whose
request was started even if the reaper has closed it since. The third keeps the two
tables of leave as they are: an `insert` files, the `commit` of a decision is that
decision (`OpsInv` says that the row and the balance it finds are those it read, and
`Fits` still holds of them), `setBalance` enters, and all else stutters.

**Only model-checked:** the two liveness properties (`EventuallyOnLedger`,
`DueOccurrenceIsAttempted`), because fairness and `ENABLED` are out of the prover's
reach, and the three violations. Every other property of a run is stated by a
theorem. `RunningIsLeased` (whatever is running has a lease that the reaper finds) is
proved only; no run is spent on it.

## 6. Limits

- Abstracted: amounts, names, encodings, the contents of audit rows, roles other
  than the two of leave, step-up MFA, the wording of errors. A property about them
  would not be seen.
- *Payroll.* `Calculated` is merged with `Draft` (what a handler may do with a calculation is
  the same in both), and `Superseded` and `Finalized` are left out: queries name
  them and no handler assigns them to a calculation.
- Dates of a generation are those of its period; which sources a period covers is
  the constant `Covers`. A deadlock of a generation that created its own run row is
  left out, as is the expansion of periods in `findOrCreatePayrollRun`. Converting a
  week whose run is missing is over-approximated. The status of a run is left out: only
  that expansion reads it.
- The wage type and `source_type` of a calculation are left out, so a transaction may
  find any calculation of its employee, or none (`one_payment_per_period` therefore has
  no employee with transactions), and the schema update may move any
  draft. Sources exist from the start: recording or deleting one is not a step.
- `genSplit` reads whether the employee is in the run in the snapshot of the transaction and
  his sources after it, as the statements at `payroll.js:8702` and 8751 do. A
  recalculation leaves sources and run as they are. A status change keeps the figures;
  `payroll.js:11059` recomputes deductions at an approval, which belongs to the
  amounts. `server.js:7031` has older handlers that insert a
  run without a period or approve one; the model has neither such runs nor that status.
- *Anchoring.* The check of field formats in the chaincode (`validateRecord`) is left out: the
  model endorses more than the code does.
- An employee without a free calculation slot counts as one whose generation
  failed; only `MaxCalcs` makes that happen.
- *Backups.* The calendar of schedules is reduced to occurrence numbers. `last_status` of a
  schedule is only displayed and left out. A verification that fails after another
  succeeded takes the verdict away; no text promises otherwise.
- *Restores.* One process runs the workers, so a crash stops them all. The order of
  `verified_at` is that of the commits. A second, late verification of a backup that
  is VERIFIED already is left out here (`BackupExecution` has it). Backups other
  than snapshots are full ones and drills have one occurrence. A restore names a module or
none; rollbacks and recovery points are of one module, whose files `ModuleCutover` has.
  The age that retention demands may be reached at any time.
- *Attendance.* The policy is fixed at its defaults, which require HR's validation and
  the approval of overtime. A day has one station and one pushing device. Gap locks
  (which make one of two inserts of a day wait or die) appear as the rule that one
  holder can publish. The order of the integrity chain is left out; `MaxChanges` limits
  its length. The entry itself is a step together with the read of the row that follows
  it. Break times, lateness and hours other than overtime do
  not matter to the properties. Absences and holidays are computed when a page or
  a payroll reads the day; no row is written for them.
- *Leave.* One leave type and one year; days are whole units. Rows from before the
  columns of the workflow start as Pending; decided ones would only take part as charges. The integrity hash of a
  balance is valid: every writer computes it. The join of a decision locks the leave
  type of a request that names one, so decisions on two such requests wait for
  each other, as in the code.
- Pools are taken as unbounded. List and report endpoints only read and are left out.

Four hazards have no property, each with its reason in `PROJECT.json`: the
deduction balances written as absolute values (`payroll.js:1566`), a source listed
by two overlapping periods (`payroll.js:4482`), the calendar
(`backupAutomationService.js:119`), and a request that takes a second connection from
the pool (`biometric.js:507`). The checks of a filing, which are not atomic, are noted
with the hazard of the balance (`server.js:6596`; see section 4).

## 7. Plan and what is not modelled

Done, in the order of importance: anchoring and its ledger, payroll generation,
backup execution, restoration and rollback, attendance, leave, each with its proofs.
Next among the proofs: an abstract specification of a backup run (one artifact per
occurrence, whatever cycles, leases and the reaper do) and one of the attendance that
payroll reads, with the refinements.
Not modelled, with the module that would take it:

1. **DTRAnchor** over `FabricLedger` and `EvidenceLog` (`blockchainDtrController.js`):
   its handlers, and the DTR half of the chaincode, have the shape of the payroll
   side, so `PayrollAnchor` already shows the races; a model of its own would mainly
   restate `ImplementsEvidenceLog`.
2. **DeductionAccounts** (`payroll.js`): balances that are read without a lock. The
   property (what is taken is what the payslips took) is about amounts, which
   `PayrollRun` leaves out to stay checkable.
3. **AuthSessions** (`authController.js`, `authQueries.js`, `mfaService.js`,
   `accountCreationRequestService.js`): one-time tokens and codes, lockout, review.
4. **Offboarding** and **onboarding** (`server.js`, `onboarding.js`): clearance by several
   departments, conversion of an applicant.
5. The calendar of schedules as a function checked against a reference, and a
   property on periods that overlap; both need instances beyond those checked here.

Left out for good: byte formats, storage adapters and encryption (pure I/O, or
encodings a model would take for the identity); health probes (stateless); reports
and dashboards (read only); roles, consent, employee files and evaluations (one row
and one statement per change); the browser pages, migrations and scripts (no state
of the running server beyond the tables the models name).
