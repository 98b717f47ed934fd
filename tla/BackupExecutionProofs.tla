------------------------ MODULE BackupExecutionProofs ------------------------
(***************************************************************************)
(* The safety of backup runs for any number of cycles, handlers and        *)
(* backups.  The inductive invariant IInv adds to the types what a row     *)
(* must keep while other workers still hold on to it, and what a worker's  *)
(* locals still mean when others ran the same backup in between.           *)
(***************************************************************************)
EXTENDS BackupExecution, TLAPS

Row == [status : Statuses, verif : Verdicts,
        lease : Workers \union {None}, sum : Workers \union {None}]

\* A RUNNING row has a lease; one that is, or may yet become, VERIFIED names
\* an artifact, and it is the stored one.
RowOK(r, sum) ==
  /\ r.status = "RUNNING" => r.lease # None
  /\ r.status \in {"COMPLETED", "VERIFIED"} => r.sum # None
  /\ r.verif = "VERIFYING" => r.sum # None
  /\ r.sum # None => r.sum = sum

RowsInv ==
  /\ sets \in [Backups -> Row]
  /\ \A b \in Backups : RowOK(sets[b], store[b].sum)

\* What the locals of a worker are good for.
JobOK(j, st) ==
  /\ j = [pc |-> j.pc, by |-> j.by, b |-> j.b, todo |-> j.todo, seen |-> j.seen]
  /\ j.todo \subseteq Times
  /\ j.b \in Backups \union {None}
  /\ j.pc \in {"build", "publish", "complete", "fail", "persist", "unpersisted",
               "verify", "verified"} => j.b \in Backups
  /\ j.pc \in {"create", "execute"} => j.b \in Times
  /\ j.pc = "claim" => j.seen \in FirstRun .. MaxTime
  /\ j.pc = "complete" => j.seen \in Workers /\ j.seen = st[j.b].sum
  /\ j.pc = "verified" => j.seen \in {"MATCH", "MISMATCH", "ERROR"}

JobsInv ==
  /\ job = [w \in Workers |-> job[w]]
  /\ \A w \in Workers : JobOK(job[w], store)

RestOK ==
  /\ store \in [Backups -> [sum : Workers \union {None}, intact : BOOLEAN]]
  /\ now \in 0 .. MaxTime /\ next \in FirstRun .. MaxTime + 1
  /\ action \in [status : {"none", "IN_PROGRESS", "COMPLETED", "FAILED"},
                 time : Times \union {None}, times : SUBSET Times]
  /\ action.status = "IN_PROGRESS" => action.time \in Times

IInv == RowsInv /\ JobsInv /\ RestOK /\ ClaimedOccurrenceHasSet

-----------------------------------------------------------------------------
(* The invariant implies the properties.                                   *)
LEMMA Consequences == IInv => TypeOK /\ RowNamesStoredArtifact /\ RunningIsRecoverable
<1> SUFFICES ASSUME IInv PROVE TypeOK /\ RowNamesStoredArtifact /\ RunningIsRecoverable
  OBVIOUS
<1>1. TypeOK
  BY DEF IInv, RowsInv, JobsInv, JobOK, RestOK, TypeOK, Row
<1>2. RowNamesStoredArtifact /\ RunningIsRecoverable
  BY DEF IInv, RowsInv, RowOK, RowNamesStoredArtifact, RunningIsRecoverable
<1> QED BY <1>1, <1>2

LEMMA Initially == Init => IInv
<1> SUFFICES ASSUME Init PROVE IInv
  OBVIOUS
<1> USE SortsAssumption DEF Init, Idle, Job, NewSet
<1>1. RowsInv
  BY DEF RowsInv, Row, RowOK, Statuses, Verdicts
<1>2. JobsInv
  BY DEF JobsInv, JobOK
<1>3. RestOK
  BY DEF RestOK
<1>4. ClaimedOccurrenceHasSet
  BY DEF ClaimedOccurrenceHasSet
<1> QED BY <1>1, <1>2, <1>3, <1>4 DEF IInv

-----------------------------------------------------------------------------
(* What one change of a row, or of a worker's locals, preserves.            *)
LEMMA RowChange ==
  ASSUME RowsInv, ClaimedOccurrenceHasSet, RestOK, NEW b \in Backups, NEW r \in Row,
         RowOK(r, store[b].sum), r.status # "none",
         sets' = [sets EXCEPT ![b] = r], store' = store, next' = next
  PROVE  RowsInv' /\ ClaimedOccurrenceHasSet'
<1>1. sets' \in [Backups -> Row] /\ \A x \in Backups : sets'[x] = IF x = b THEN r ELSE sets[x]
  BY DEF RowsInv
<1>2. RowsInv'
  BY <1>1 DEF RowsInv
<1>3. \A t \in FirstRun .. next - 1 : t \in Backups
  BY SortsAssumption DEF RestOK, Backups, Times
<1>4. ClaimedOccurrenceHasSet'
  BY <1>1, <1>3 DEF ClaimedOccurrenceHasSet
<1> QED BY <1>2, <1>4

LEMMA RowsKept ==
  ASSUME RowsInv, ClaimedOccurrenceHasSet, sets' = sets, store' = store, next' = next
  PROVE  RowsInv' /\ ClaimedOccurrenceHasSet'
  BY DEF RowsInv, ClaimedOccurrenceHasSet

LEMMA JobChange ==
  ASSUME JobsInv, NEW w \in Workers, NEW j, JobOK(j, store),
         job' = [job EXCEPT ![w] = j], store' = store
  PROVE  JobsInv'
<1>1. \A x \in Workers : job'[x] = IF x = w THEN j ELSE job[x]
  BY DEF JobsInv
<1>2. job' = [x \in Workers |-> job'[x]]
  BY DEF JobsInv
<1> QED BY <1>1, <1>2 DEF JobsInv

LEMMA JobsKept ==
  ASSUME JobsInv, job' = job, store' = store
  PROVE  JobsInv'
  BY DEF JobsInv

LEMMA IdleOK == ASSUME NEW st PROVE JobOK(Idle, st)
  BY DEF JobOK, Idle, Job

LEMMA SettledOK ==
  ASSUME NEW j, NEW st, NEW ok, JobOK(j, st)
  PROVE  JobOK(settled(j, ok), st)
  BY DEF JobOK, settled, Idle, Job

LEMMA RowOperations ==
  ASSUME NEW r \in Row, NEW sum, RowOK(r, sum)
  PROVE  /\ \A w \in Workers : Running(r, w) \in Row /\ RowOK(Running(r, w), sum)
         /\ Failed(r) \in Row /\ RowOK(Failed(r), sum)
         /\ sum \in Workers => Completed(r, sum) \in Row /\ RowOK(Completed(r, sum), sum)
         /\ NewSet \in Row /\ RowOK(NewSet, sum)
  BY SortsAssumption DEF Row, RowOK, Running, Failed, Completed, NewSet, Statuses, Verdicts, Workers

-----------------------------------------------------------------------------
(* The steps of a run.                                                     *)
LEMMA StartRun ==
  ASSUME IInv, NEW w \in Workers, NEW b \in Times, NEW by, startRun(w, b, by),
         UNCHANGED <<store, now, next, action>>
  PROVE  IInv'
<1> DEFINE mine == Job("build", by, b, job[w].todo \ {b}, None)
<1>1. b \in Backups /\ RowsInv /\ JobsInv /\ RestOK /\ ClaimedOccurrenceHasSet
  BY DEF IInv, Backups
<1>2. JobOK(mine, store) /\ JobOK(settled(mine, FALSE), store)
  <2>1. JobOK(mine, store)
    BY <1>1 DEF JobsInv, JobOK, Job
  <2> QED BY <2>1, SettledOK
<1>3. JobsInv'
  BY <1>1, <1>2, JobChange DEF startRun
<1>4. RowsInv' /\ ClaimedOccurrenceHasSet'
  <2>1. CASE sets[b].status = "PENDING"
    <3>1. Running(sets[b], w) \in Row /\ RowOK(Running(sets[b], w), store[b].sum)
      BY <1>1, RowOperations DEF RowsInv
    <3>2. Running(sets[b], w).status = "RUNNING"
      BY <1>1 DEF RowsInv, Row, Running
    <3> QED BY <1>1, <2>1, <3>1, <3>2, RowChange DEF startRun
  <2>2. CASE sets[b].status # "PENDING"
    BY <1>1, <2>2, RowsKept DEF startRun
  <2> QED BY <2>1, <2>2
<1>5. RestOK'
  BY <1>1 DEF RestOK
<1> QED BY <1>3, <1>4, <1>5 DEF IInv

\* A step that only moves its worker.
LEMMA OnlyMoves ==
  ASSUME IInv, NEW w \in Workers, NEW j, JobOK(j, store), job' = [job EXCEPT ![w] = j],
         UNCHANGED <<sets, store, now, next, action>>
  PROVE  IInv'
<1>1. JobsInv'
  BY JobChange DEF IInv
<1>2. RowsInv' /\ ClaimedOccurrenceHasSet'
  BY RowsKept DEF IInv
<1> QED BY <1>1, <1>2 DEF IInv, RestOK

\* A step that moves its worker and writes one row.
LEMMA MovesAndWrites ==
  ASSUME IInv, NEW w \in Workers, NEW j, JobOK(j, store), job' = [job EXCEPT ![w] = j],
         NEW b \in Backups, NEW r \in Row, RowOK(r, store[b].sum), r.status # "none",
         sets' = [sets EXCEPT ![b] = r], UNCHANGED <<store, now, next, action>>
  PROVE  IInv'
<1>1. JobsInv'
  BY JobChange DEF IInv
<1>2. RowsInv' /\ ClaimedOccurrenceHasSet'
  BY RowChange DEF IInv
<1> QED BY <1>1, <1>2 DEF IInv, RestOK

LEMMA Failing ==
  ASSUME IInv, NEW b \in Backups
  PROVE  /\ Failed(sets[b]) \in Row /\ RowOK(Failed(sets[b]), store[b].sum)
         /\ Failed(sets[b]).status # "none"
<1>1. sets[b] \in Row /\ RowOK(sets[b], store[b].sum)
  BY DEF IInv, RowsInv
<1>2. Failed(sets[b]).status = "FAILED"
  BY <1>1 DEF Row, Failed
<1> QED BY <1>1, <1>2, RowOperations

LEMMA FindStoredArtifact ==
  ASSUME IInv, NEW w \in Workers, findStoredArtifact(w) PROVE IInv'
<1> DEFINE found == store[job[w].b]
           j == IF found.sum = None THEN [job[w] EXCEPT !.pc = "publish"]
                ELSE IF found.intact THEN With(job[w], "complete", found.sum)
                ELSE [job[w] EXCEPT !.pc = "fail"]
<1>1. JobOK(job[w], store) /\ job[w].pc = "build" /\ job[w].b \in Backups
  BY DEF IInv, JobsInv, JobOK, findStoredArtifact, At
<1>2. found.sum \in Workers \union {None}
  BY <1>1 DEF IInv, RestOK
<1>3. JobOK(j, store)
  BY <1>1, <1>2 DEF JobOK, With, Job
<1> QED BY <1>3, OnlyMoves DEF findStoredArtifact

LEMMA StoreArtifact ==
  ASSUME IInv, NEW w \in Workers, storeArtifact(w) PROVE IInv'
<1> DEFINE b == job[w].b
<1>1. JobOK(job[w], store) /\ b \in Backups /\ w # None
  BY SortsAssumption DEF IInv, JobsInv, JobOK, storeArtifact, At, Workers
<1>2. CASE store[b].sum # None
  <2>1. JobOK([job[w] EXCEPT !.pc = "fail"], store)
    BY <1>1 DEF JobOK
  <2> QED BY <1>2, <2>1, OnlyMoves DEF storeArtifact, Goto
<1>3. CASE store[b].sum = None
  <2> DEFINE j == With(job[w], "complete", w)
  <2>1. /\ store' = [store EXCEPT ![b].sum = w] /\ job' = [job EXCEPT ![w] = j]
        /\ UNCHANGED <<sets, now, next, action>>
    BY <1>3 DEF storeArtifact
  <2>2. RestOK'
    BY <1>1, <2>1 DEF IInv, RestOK
  <2>3. \A x \in Backups : store'[x].sum = IF x = b THEN w ELSE store[x].sum
    BY <1>1, <2>1 DEF IInv, RestOK
  <2>4. RowsInv'
    BY <1>1, <1>3, <2>1, <2>3 DEF IInv, RowsInv, RowOK
  <2>5. JobOK(j, store')
    <3>1. store'[b].sum = w
      BY <1>1, <2>3
    <3> QED BY <1>1, <3>1 DEF JobOK, With, Job
  <2>6. ASSUME NEW x \in Workers PROVE JobOK(job[x], store')
    <3>1. JobOK(job[x], store)
      BY DEF IInv, JobsInv
    <3>2. job[x].pc = "complete" => job[x].b \in Backups /\ job[x].b # b
      BY <1>3, <3>1, SortsAssumption DEF JobOK, Workers
    <3>3. job[x].pc = "complete" => store'[job[x].b].sum = store[job[x].b].sum
      BY <2>3, <3>2
    <3> QED BY <3>1, <3>3 DEF JobOK
  <2>7. JobsInv'
    BY <2>1, <2>5, <2>6 DEF IInv, JobsInv
  <2> QED BY <2>1, <2>2, <2>4, <2>7 DEF IInv, ClaimedOccurrenceHasSet
<1> QED BY <1>2, <1>3

LEMMA CompleteRun ==
  ASSUME IInv, NEW w \in Workers, completeRun(w) PROVE IInv'
<1> DEFINE b == job[w].b
           seen == job[w].seen
<1>1. JobOK(job[w], store) /\ b \in Backups /\ seen \in Workers /\ seen = store[b].sum
  BY DEF IInv, JobsInv, JobOK, completeRun, At
<1>2. JobOK([job[w] EXCEPT !.pc = "fail"], store) /\ JobOK([job[w] EXCEPT !.pc = "persist"], store)
  BY <1>1 DEF JobOK
<1>3. JobOK(settled(job[w], TRUE), store)
  BY <1>1, SettledOK
<1>4. CASE sets[b].status = "RUNNING" /\ (job[w].by = "http" => sets[b].lease = w)
  <2>1. sets[b] \in Row /\ RowOK(sets[b], store[b].sum)
    BY <1>1 DEF IInv, RowsInv
  <2>2. Completed(sets[b], seen) \in Row /\ RowOK(Completed(sets[b], seen), store[b].sum)
    BY <1>1, <2>1, RowOperations
  <2>3. Completed(sets[b], seen).status = "COMPLETED"
    BY <2>1 DEF Row, Completed
  <2>4. PICK j \in {[job[w] EXCEPT !.pc = "persist"], settled(job[w], TRUE)} :
          job' = [job EXCEPT ![w] = j]
    BY <1>4 DEF completeRun, Goto, Settle
  <2>5. sets' = [sets EXCEPT ![b] = Completed(sets[b], seen)]
    BY <1>4 DEF completeRun
  <2>6. UNCHANGED <<store, now, next, action>> /\ JobOK(j, store)
    BY <1>2, <1>3 DEF completeRun
  <2> QED BY <1>1, <2>2, <2>3, <2>4, <2>5, <2>6, MovesAndWrites
<1>5. CASE ~(sets[b].status = "RUNNING" /\ (job[w].by = "http" => sets[b].lease = w))
  BY <1>2, <1>5, OnlyMoves DEF completeRun, Goto
<1> QED BY <1>4, <1>5

LEMMA RunFails ==
  ASSUME IInv, NEW w \in Workers, runFails(w) PROVE IInv'
<1>1. JobOK([job[w] EXCEPT !.pc = "fail"], store)
  BY DEF IInv, JobsInv, JobOK, runFails
<1> QED BY <1>1, OnlyMoves DEF runFails, Goto

LEMMA FailRun ==
  ASSUME IInv, NEW w \in Workers, failRun(w) PROVE IInv'
<1> DEFINE b == job[w].b
<1>1. JobOK(job[w], store) /\ b \in Backups
  BY DEF IInv, JobsInv, JobOK, failRun, At
<1>2. JobOK(settled(job[w], FALSE), store)
  BY <1>1, SettledOK
<1>3. /\ job' = [job EXCEPT ![w] = settled(job[w], FALSE)]
      /\ UNCHANGED <<store, now, next, action>>
      /\ sets' = sets \/ sets' = [sets EXCEPT ![b] = Failed(sets[b])]
  BY DEF failRun, Settle
<1>4. CASE sets' = sets
  BY <1>2, <1>3, <1>4, OnlyMoves
<1>5. CASE sets' = [sets EXCEPT ![b] = Failed(sets[b])]
  BY <1>1, <1>2, <1>3, <1>5, Failing, MovesAndWrites
<1> QED BY <1>3, <1>4, <1>5

LEMMA Persist ==
  ASSUME IInv, NEW w \in Workers, persistBackupIntegrityMetadata(w) PROVE IInv'
<1>1. JobOK(job[w], store) /\ job[w].b \in Backups
  BY DEF IInv, JobsInv, JobOK, persistBackupIntegrityMetadata, At
<1>2. JobOK([job[w] EXCEPT !.pc = "unpersisted"], store)
  BY <1>1 DEF JobOK
<1>3. JobOK(settled(job[w], TRUE), store)
  BY <1>1, SettledOK
<1> QED BY <1>2, <1>3, OnlyMoves DEF persistBackupIntegrityMetadata, Goto, Settle

LEMMA FailUnpersisted ==
  ASSUME IInv, NEW w \in Workers, failUnpersisted(w) PROVE IInv'
<1> DEFINE b == job[w].b
<1>1. JobOK(job[w], store) /\ b \in Backups
  BY DEF IInv, JobsInv, JobOK, failUnpersisted, At
<1>2. JobOK(settled(job[w], FALSE), store)
  BY <1>1, SettledOK
<1>3. /\ job' = [job EXCEPT ![w] = settled(job[w], FALSE)]
      /\ UNCHANGED <<store, now, next, action>>
  BY DEF failUnpersisted, Settle
<1>4. CASE sets[b].status = "COMPLETED"
  <2>1. sets' = [sets EXCEPT ![b] = Failed(sets[b])]
    BY <1>4 DEF failUnpersisted
  <2> QED BY <1>1, <1>2, <1>3, <2>1, Failing, MovesAndWrites
<1>5. CASE sets[b].status # "COMPLETED"
  <2>1. sets' = sets
    BY <1>5 DEF failUnpersisted, IInv, RowsInv
  <2> QED BY <1>2, <1>3, <2>1, OnlyMoves
<1> QED BY <1>4, <1>5

-----------------------------------------------------------------------------
(* Scheduled runs.                                                         *)
LEMMA RowOfOccurrence ==
  ASSUME IInv, NEW t \in Backups
  PROVE  \E r \in Row : /\ withRow(t) = [sets EXCEPT ![t] = r]
                        /\ RowOK(r, store[t].sum) /\ r.status # "none"
<1>1. sets[t] \in Row /\ RowOK(sets[t], store[t].sum)
  BY DEF IInv, RowsInv
<1>2. NewSet \in Row /\ RowOK(NewSet, store[t].sum) /\ NewSet.status # "none"
  BY <1>1, RowOperations DEF NewSet
<1> QED BY <1>1, <1>2 DEF withRow

LEMMA RunCycle ==
  ASSUME IInv, NEW c \in Workers, runCycle(c) PROVE IInv'
<1> DEFINE j == Job("resume", None, None, {t \in Times : sets[t].status = "PENDING"}, None)
<1>1. JobOK(j, store)
  BY DEF JobOK, Job
<1> QED BY <1>1, OnlyMoves DEF runCycle

LEMMA ResumePending ==
  ASSUME IInv, NEW c \in Workers, resumePending(c) PROVE IInv'
<1>1. job[c].todo \subseteq Times
  BY DEF IInv, JobsInv, JobOK
<1> QED BY <1>1, StartRun DEF resumePending

LEMMA ListDue ==
  ASSUME IInv, NEW c \in Workers, listDueBackupSchedules(c) PROVE IInv'
<1>1. next <= now => next \in FirstRun .. MaxTime
  BY SortsAssumption DEF IInv, RestOK
<1>2. next <= now => JobOK(Job("claim", None, None, {}, next), store)
  BY <1>1 DEF JobOK, Job
<1> QED BY <1>2, IdleOK, OnlyMoves DEF listDueBackupSchedules

LEMMA Claim ==
  ASSUME IInv, NEW c \in Workers, claimBackupSchedule(c) PROVE IInv'
<1> DEFINE t == job[c].seen
<1>1. t \in FirstRun .. MaxTime /\ t \in Times /\ t \in Backups
  BY SortsAssumption DEF IInv, JobsInv, JobOK, claimBackupSchedule, At, Times, Backups
<1>2. CASE next # t
  BY <1>2, IdleOK, OnlyMoves DEF claimBackupSchedule
<1>3. CASE next = t
  <2>1. /\ next' = t + 1 /\ sets' = withRow(t) /\ UNCHANGED <<store, now, action>>
        /\ job' = [job EXCEPT ![c] = Job("create", "due", t, {}, None)]
    BY <1>3 DEF claimBackupSchedule
  <2>2. PICK r \in Row : /\ withRow(t) = [sets EXCEPT ![t] = r]
                         /\ RowOK(r, store[t].sum) /\ r.status # "none"
    BY <1>1, RowOfOccurrence
  <2>3. \A x \in Backups : sets'[x] = IF x = t THEN r ELSE sets[x]
    BY <2>1, <2>2 DEF IInv, RowsInv
  <2>4. RowsInv'
    BY <1>1, <2>1, <2>2, <2>3 DEF IInv, RowsInv
  <2>5. JobOK(Job("create", "due", t, {}, None), store)
    BY <1>1 DEF JobOK, Job
  <2>6. JobsInv'
    BY <2>1, <2>5, JobChange DEF IInv
  <2>7. RestOK'
    BY <1>1, <2>1, SortsAssumption DEF IInv, RestOK
  <2>8. ClaimedOccurrenceHasSet'
    <3>1. ASSUME NEW u \in FirstRun .. next' - 1 PROVE sets'[u].status # "none"
      <4>1. u \in Backups /\ (u = t \/ u \in FirstRun .. next - 1)
        BY <1>1, <1>3, <2>1, SortsAssumption DEF IInv, RestOK, Backups, Times
      <4> QED BY <2>2, <2>3, <4>1 DEF IInv, ClaimedOccurrenceHasSet
    <3> QED BY <3>1 DEF ClaimedOccurrenceHasSet
  <2> QED BY <2>4, <2>6, <2>7, <2>8 DEF IInv
<1> QED BY <1>2, <1>3

LEMMA Create ==
  ASSUME IInv, NEW w \in Workers, createScheduledBackup(w) PROVE IInv'
<1> DEFINE t == job[w].b
           j == With(job[w], "execute", sets'[t].status)
<1>1. JobOK(job[w], store) /\ t \in Times /\ t \in Backups
  BY DEF IInv, JobsInv, JobOK, createScheduledBackup, At, Backups
<1>2. JobOK(j, store)
  BY <1>1 DEF JobOK, With, Job
<1>3. PICK r \in Row : /\ withRow(t) = [sets EXCEPT ![t] = r]
                       /\ RowOK(r, store[t].sum) /\ r.status # "none"
  BY <1>1, RowOfOccurrence
<1>4. /\ job' = [job EXCEPT ![w] = j] /\ sets' = [sets EXCEPT ![t] = r]
      /\ UNCHANGED <<store, now, next, action>>
  BY <1>3 DEF createScheduledBackup
<1> QED BY <1>1, <1>2, <1>3, <1>4, MovesAndWrites

LEMMA Execute ==
  ASSUME IInv, NEW w \in Workers, executeBackup(w) PROVE IInv'
<1> DEFINE b == job[w].b
<1>1. JobOK(job[w], store) /\ b \in Times /\ b \in Backups
  BY DEF IInv, JobsInv, JobOK, executeBackup, At, Backups
<1>2. UNCHANGED <<store, now, next, action>>
  BY DEF executeBackup
<1>3. \A ok \in BOOLEAN : JobOK(settled(job[w], ok), store)
  BY <1>1, SettledOK
<1>4. \/ startRun(w, b, job[w].by)
      \/ \E ok \in BOOLEAN : /\ job' = [job EXCEPT ![w] = settled(job[w], ok)]
                             /\ sets' = sets \/ sets' = [sets EXCEPT ![b] = Failed(sets[b])]
  BY DEF executeBackup, Settle
<1>5. CASE startRun(w, b, job[w].by)
  BY <1>1, <1>2, <1>5, StartRun
<1>6. ASSUME NEW ok \in BOOLEAN, job' = [job EXCEPT ![w] = settled(job[w], ok)],
             sets' = sets \/ sets' = [sets EXCEPT ![b] = Failed(sets[b])]
      PROVE  IInv'
  <2>1. CASE sets' = sets
    BY <1>2, <1>3, <1>6, <2>1, OnlyMoves
  <2>2. CASE sets' = [sets EXCEPT ![b] = Failed(sets[b])]
    BY <1>1, <1>2, <1>3, <1>6, <2>2, Failing, MovesAndWrites
  <2> QED BY <1>6, <2>1, <2>2
<1> QED BY <1>4, <1>5, <1>6

-----------------------------------------------------------------------------
(* Requests to the API.                                                    *)
LEMMA RunNow ==
  ASSUME IInv, NEW h \in Workers, runNow(h) PROVE IInv'
<1> DEFINE t == IF action.status = "IN_PROGRESS" THEN action.time ELSE now
           j == Job("create", "runNow", t, {}, None)
<1>1. t \in Times
  BY DEF IInv, RestOK, runNow
<1>2. JobOK(j, store)
  BY <1>1 DEF JobOK, Job, Backups
<1>3. JobsInv'
  BY <1>2, JobChange DEF IInv, runNow
<1>4. RowsInv' /\ ClaimedOccurrenceHasSet'
  BY RowsKept DEF IInv, runNow
<1>5. RestOK'
  BY <1>1 DEF IInv, RestOK, runNow
<1> QED BY <1>3, <1>4, <1>5 DEF IInv

LEMMA SettleAction ==
  ASSUME IInv, NEW h \in Workers, settleAutomationAction(h) PROVE IInv'
<1>1. JobsInv'
  BY IdleOK, JobChange DEF IInv, settleAutomationAction
<1>2. RowsInv' /\ ClaimedOccurrenceHasSet'
  BY RowsKept DEF IInv, settleAutomationAction
<1>3. RestOK'
  BY DEF IInv, RestOK, settleAutomationAction
<1> QED BY <1>1, <1>2, <1>3 DEF IInv

\* A request that writes one row and moves no worker.
LEMMA OnlyWrites ==
  ASSUME IInv, NEW b \in Backups, NEW r \in Row, RowOK(r, store[b].sum), r.status # "none",
         sets' = [sets EXCEPT ![b] = r], UNCHANGED <<store, now, next, action, job>>
  PROVE  IInv'
<1>1. JobsInv'
  BY JobsKept DEF IInv
<1>2. RowsInv' /\ ClaimedOccurrenceHasSet'
  BY RowChange DEF IInv
<1> QED BY <1>1, <1>2 DEF IInv, RestOK

LEMMA RequestOrCancel ==
  ASSUME IInv, NEW b \in Backups, requestBackup(b) \/ cancelBackup(b) \/ recoverExpiredOperations(b)
  PROVE  IInv'
<1>1. sets[b] \in Row /\ RowOK(sets[b], store[b].sum)
  BY DEF IInv, RowsInv
<1>2. CASE requestBackup(b)
  BY <1>1, <1>2, RowOperations, OnlyWrites DEF requestBackup, NewSet
<1>3. CASE cancelBackup(b)
  <2> DEFINE r == [sets[b] EXCEPT !.status = "CANCELLED"]
  <2>1. r \in Row /\ RowOK(r, store[b].sum) /\ r.status # "none"
    BY <1>1 DEF Row, RowOK, Statuses
  <2> QED BY <1>3, <2>1, OnlyWrites DEF cancelBackup
<1>4. CASE recoverExpiredOperations(b)
  BY <1>4, Failing, OnlyWrites DEF recoverExpiredOperations
<1> QED BY <1>2, <1>3, <1>4

LEMMA ExecuteSet ==
  ASSUME IInv, NEW h \in Workers, NEW b \in Backups, executeBackupSet(h, b) PROVE IInv'
<1> DEFINE j == Job("build", "http", b, {}, None)
<1>1. JobOK(j, store)
  BY DEF JobOK, Job
<1>2. sets[b] \in Row /\ RowOK(sets[b], store[b].sum)
  BY DEF IInv, RowsInv
<1>3. Running(sets[b], h) \in Row /\ RowOK(Running(sets[b], h), store[b].sum)
  BY <1>2, RowOperations
<1>4. Running(sets[b], h).status # "none"
  BY <1>2 DEF Row, Running
<1> QED BY <1>1, <1>3, <1>4, MovesAndWrites DEF executeBackupSet

LEMMA StartVerification ==
  ASSUME IInv, NEW h \in Workers, NEW b \in Backups, startVerification(h, b) PROVE IInv'
<1> DEFINE j == Job("verify", "http", b, {}, None)
           r == [sets[b] EXCEPT !.verif = "VERIFYING"]
<1>1. JobOK(j, store)
  BY DEF JobOK, Job
<1>2. sets[b] \in Row /\ RowOK(sets[b], store[b].sum)
  BY DEF IInv, RowsInv
<1>3. r \in Row /\ RowOK(r, store[b].sum) /\ r.status # "none"
  BY <1>2 DEF startVerification, Row, RowOK, Verdicts
<1> QED BY <1>1, <1>3, MovesAndWrites DEF startVerification

LEMMA VerifyStored ==
  ASSUME IInv, NEW h \in Workers, verifyStoredArtifact(h) PROVE IInv'
<1>1. PICK outcome \in {"MATCH", "MISMATCH", "ERROR"} :
        job' = [job EXCEPT ![h] = With(job[h], "verified", outcome)]
  BY DEF verifyStoredArtifact
<1>2. JobOK(job[h], store) /\ job[h].pc = "verify"
  BY DEF IInv, JobsInv, verifyStoredArtifact, At
<1>3. JobOK(With(job[h], "verified", outcome), store)
  BY <1>2 DEF JobOK, With, Job
<1> QED BY <1>1, <1>3, OnlyMoves DEF verifyStoredArtifact

LEMMA FinishVerification ==
  ASSUME IInv, NEW h \in Workers, finishVerification(h) PROVE IInv'
<1> DEFINE b == job[h].b
           outcome == job[h].seen
           s == sets[b]
           r == Judged(s, outcome)
<1>1. JobOK(job[h], store) /\ b \in Backups /\ outcome \in {"MATCH", "MISMATCH", "ERROR"}
  BY DEF IInv, JobsInv, JobOK, finishVerification, At
<1>2. s \in Row /\ RowOK(s, store[b].sum)
  BY <1>1 DEF IInv, RowsInv
<1>3. job' = [job EXCEPT ![h] = Idle] /\ UNCHANGED <<store, now, next, action>>
  BY DEF finishVerification
<1>4. CASE outcome = "ERROR"
  <2> DEFINE e == [s EXCEPT !.verif = "ERROR"]
  <2>1. sets' = [sets EXCEPT ![b] = e]
    BY <1>4 DEF finishVerification
  <2>2. JobsInv'
    BY <1>3, IdleOK, JobChange DEF IInv
  <2>3. CASE s.status = "none"
    <3>1. e \in Row /\ RowOK(e, store[b].sum) /\ e.status = "none"
      BY <1>2, <2>3 DEF Row, RowOK, Verdicts
    <3>2. \A x \in Backups : sets'[x] = IF x = b THEN e ELSE sets[x]
      BY <2>1 DEF IInv, RowsInv
    <3>3. RowsInv'
      BY <1>3, <2>1, <3>1, <3>2 DEF IInv, RowsInv
    <3>4. ClaimedOccurrenceHasSet'
      <4>1. \A t \in FirstRun .. next - 1 : t \in Backups
        BY SortsAssumption DEF IInv, RestOK, Backups, Times
      <4> QED BY <1>3, <2>3, <3>2, <4>1 DEF IInv, ClaimedOccurrenceHasSet
    <3> QED BY <1>3, <2>2, <3>3, <3>4 DEF IInv, RestOK
  <2>4. CASE s.status # "none"
    <3>1. e \in Row /\ RowOK(e, store[b].sum) /\ e.status # "none"
      BY <1>2, <2>4 DEF Row, RowOK, Verdicts
    <3> QED BY <1>1, <1>3, <2>1, <3>1, IdleOK, MovesAndWrites
  <2> QED BY <2>3, <2>4
<1>5. CASE outcome # "ERROR" /\ s.verif # "VERIFYING"
  <2>1. sets' = sets
    BY <1>1, <1>5 DEF finishVerification, IInv, RowsInv
  <2> QED BY <1>3, <2>1, IdleOK, OnlyMoves
<1>6. CASE outcome # "ERROR" /\ s.verif = "VERIFYING"
  <2>1. sets' = [sets EXCEPT ![b] = r]
    BY <1>6 DEF finishVerification
  <2>2. r \in Row /\ RowOK(r, store[b].sum) /\ r.status # "none"
    BY <1>1, <1>2, <1>6 DEF Row, RowOK, Verdicts, Statuses, Judged
  <2> QED BY <1>1, <1>3, <2>1, <2>2, IdleOK, MovesAndWrites
<1> QED BY <1>4, <1>5, <1>6

-----------------------------------------------------------------------------
(* The rest of the world.                                                  *)
LEMMA TickKeeps == ASSUME IInv, Tick PROVE IInv'
<1>1. now' \in 0 .. MaxTime
  BY SortsAssumption DEF IInv, RestOK, Tick
<1>2. RestOK'
  BY <1>1 DEF IInv, RestOK, Tick
<1> QED BY <1>2, RowsKept, JobsKept DEF IInv, Tick

LEMMA CrashKeeps == ASSUME IInv, NEW w \in Workers, Crash(w) PROVE IInv'
  BY IdleOK, OnlyMoves DEF Crash

LEMMA CorruptKeeps == ASSUME IInv, NEW b \in Backups, Corrupt(b) PROVE IInv'
<1>1. store' = [store EXCEPT ![b].intact = FALSE] /\ UNCHANGED <<sets, now, next, action, job>>
  BY DEF Corrupt
<1>2. RestOK'
  BY <1>1 DEF IInv, RestOK
<1>3. \A x \in Backups : store'[x].sum = store[x].sum
  BY <1>1 DEF IInv, RestOK
<1>4. RowsInv'
  BY <1>1, <1>3 DEF IInv, RowsInv
<1>5. ASSUME NEW w \in Workers PROVE JobOK(job[w], store')
  BY <1>3 DEF IInv, JobsInv, JobOK
<1>6. JobsInv'
  BY <1>1, <1>5 DEF IInv, JobsInv
<1> QED BY <1>1, <1>2, <1>4, <1>6 DEF IInv, ClaimedOccurrenceHasSet

LEMMA NextStep == ASSUME IInv, [Next]_vars PROVE IInv'
<1>1. Cycles \subseteq Workers /\ Handlers \subseteq Workers /\ Manuals \subseteq Backups
  BY DEF Workers, Backups
<1>2. ASSUME NEW w \in Workers, RunStep(w) PROVE IInv'
  BY <1>2, FindStoredArtifact, StoreArtifact, CompleteRun, RunFails, FailRun, Persist,
     FailUnpersisted, Create, Execute DEF RunStep
<1>3. ASSUME NEW c \in Cycles,
             runCycle(c) \/ resumePending(c) \/ listDueBackupSchedules(c) \/ claimBackupSchedule(c)
      PROVE  IInv'
  BY <1>1, <1>3, RunCycle, ResumePending, ListDue, Claim
<1>4. ASSUME NEW h \in Handlers,
             runNow(h) \/ settleAutomationAction(h) \/ verifyStoredArtifact(h) \/ finishVerification(h)
      PROVE  IInv'
  BY <1>1, <1>4, RunNow, SettleAction, VerifyStored, FinishVerification
<1>5. ASSUME NEW h \in Handlers, NEW b \in Backups, executeBackupSet(h, b) \/ startVerification(h, b)
      PROVE  IInv'
  BY <1>1, <1>5, ExecuteSet, StartVerification
<1>6. CASE UNCHANGED vars
  BY <1>6, RowsKept, JobsKept DEF vars, IInv, RestOK
<1> QED BY <1>1, <1>2, <1>3, <1>4, <1>5, <1>6, CrashKeeps, RequestOrCancel, CorruptKeeps, TickKeeps
        DEF Next

\* The inductive invariant holds in every reachable state.
THEOREM Invariance == Spec => []IInv
  BY Initially, NextStep, PTL DEF Spec

\* Every row, artifact and action of the ledger keeps to its types, in
\* whatever order cycles, administrators and the reaper take their steps.
THEOREM TypeCorrect == Spec => []TypeOK
  BY Invariance, Consequences, PTL

\* A cycle that stops right after claimBackupSchedule loses no occurrence.
THEOREM NoOccurrenceLost == Spec => []ClaimedOccurrenceHasSet
<1>1. IInv => ClaimedOccurrenceHasSet
  BY DEF IInv
<1> QED BY Invariance, <1>1, PTL

\* However many workers run one reference, on leases of their own or on ones
\* that were reaped, a finished row names the artifact that the storage kept.
THEOREM RowsNameArtifacts == Spec => []RowNamesStoredArtifact
  BY Invariance, Consequences, PTL

\* No worker that dies leaves a RUNNING row behind which the reaper cannot free.
THEOREM RunningRecoverable == Spec => []RunningIsRecoverable
  BY Invariance, Consequences, PTL

-----------------------------------------------------------------------------
(* The lifecycle: what one write may make of a row.                        *)
Allowed(r, s) ==
  s.status # r.status =>
    \/ <<r.status, s.status>> \in Lifecycle
    \/ r.verif = "VERIFYING" /\ s \in {Judged(r, "MATCH"), Judged(r, "MISMATCH")}
    \/ r.status # "RUNNING" /\ r.lease # None /\ s = Failed(r)

RowsAllowed == \A b \in Backups : Allowed(sets[b], sets'[b])

LEMMA KeptAllowed == ASSUME sets' = sets PROVE RowsAllowed
  BY DEF RowsAllowed, Allowed

LEMMA WriteAllowed ==
  ASSUME RowsInv, NEW b \in Backups, NEW r, sets' = [sets EXCEPT ![b] = r], Allowed(sets[b], r)
  PROVE  RowsAllowed
<1>1. \A x \in Backups : sets'[x] = IF x = b THEN r ELSE sets[x]
  BY DEF RowsInv
<1> QED BY <1>1 DEF RowsAllowed, Allowed

LEMMA Arrows ==
  ASSUME NEW r \in Row
  PROVE  /\ r.status = "none" => Allowed(r, NewSet)
         /\ r.status \in {"PENDING", "FAILED"} => \A w : Allowed(r, Running(r, w))
         /\ r.status = "RUNNING" => \A sum : Allowed(r, Completed(r, sum))
         /\ r.status \in {"RUNNING", "COMPLETED"} => Allowed(r, Failed(r))
         /\ r.lease # None => Allowed(r, Failed(r))
         /\ r.status \in {"PENDING", "COMPLETED", "FAILED"} =>
              Allowed(r, [r EXCEPT !.status = "CANCELLED"])
<1>1. /\ r.status = "none" => Allowed(r, NewSet)
      /\ r.status \in {"PENDING", "FAILED"} => \A w : Allowed(r, Running(r, w))
      /\ r.status = "RUNNING" => \A sum : Allowed(r, Completed(r, sum))
  BY DEF Row, Allowed, Lifecycle, NewSet, Running, Completed
<1>2. Failed(r).status = "FAILED"
  BY DEF Row, Failed
<1>3. r.status \in {"RUNNING", "COMPLETED"} => Allowed(r, Failed(r))
  BY <1>2 DEF Allowed, Lifecycle
<1>4. r.lease # None => Allowed(r, Failed(r))
  BY <1>3 DEF Allowed
<1>5. r.status \in {"PENDING", "COMPLETED", "FAILED"} =>
        Allowed(r, [r EXCEPT !.status = "CANCELLED"])
  BY DEF Row, Allowed, Lifecycle
<1> QED BY <1>1, <1>3, <1>4, <1>5

LEMMA StartAllowed ==
  ASSUME IInv, NEW w \in Workers, NEW b \in Times, NEW by, startRun(w, b, by)
  PROVE  RowsAllowed
<1>1. b \in Backups /\ sets[b] \in Row
  BY DEF IInv, RowsInv, Backups
<1>2. CASE sets[b].status = "PENDING"
  BY <1>1, <1>2, Arrows, WriteAllowed DEF startRun, IInv
<1>3. CASE sets[b].status # "PENDING"
  BY <1>3, KeptAllowed DEF startRun
<1> QED BY <1>2, <1>3

LEMMA RunAllowed ==
  ASSUME IInv, NEW w \in Workers, completeRun(w) \/ failRun(w) \/ failUnpersisted(w)
  PROVE  RowsAllowed
<1> DEFINE b == job[w].b
           r == sets[b]
<1>1. b \in Backups /\ r \in Row /\ w # None
  <2>1. JobOK(job[w], store) /\ job[w].pc \in {"complete", "fail", "unpersisted"}
    BY DEF IInv, JobsInv, completeRun, failRun, failUnpersisted, At
  <2>2. b \in Backups
    BY <2>1 DEF JobOK
  <2> QED BY <2>2, SortsAssumption DEF IInv, RowsInv, Workers
<1>2. \/ sets' = sets
      \/ r.status = "RUNNING" /\ sets' = [sets EXCEPT ![b] = Completed(r, job[w].seen)]
      \/ /\ r.status \in {"RUNNING", "COMPLETED"} \/ r.lease # None
         /\ sets' = [sets EXCEPT ![b] = Failed(r)]
  <2>1. CASE completeRun(w)
    BY <2>1 DEF completeRun
  <2>2. CASE failRun(w)
    BY <1>1, <2>2 DEF failRun
  <2>3. CASE failUnpersisted(w)
    <3>1. sets' = [sets EXCEPT ![b] = IF r.status = "COMPLETED" THEN Failed(r) ELSE r]
      BY <2>3 DEF failUnpersisted
    <3>2. r.status # "COMPLETED" => sets' = sets
      BY <3>1 DEF IInv, RowsInv
    <3> QED BY <3>1, <3>2
  <2> QED BY <2>1, <2>2, <2>3
<1>3. Allowed(r, Completed(r, job[w].seen)) \/ r.status # "RUNNING"
  BY <1>1, Arrows
<1>4. r.status \in {"RUNNING", "COMPLETED"} \/ r.lease # None => Allowed(r, Failed(r))
  BY <1>1, Arrows
<1> QED BY <1>1, <1>2, <1>3, <1>4, KeptAllowed, WriteAllowed DEF IInv

LEMMA CycleAllowed ==
  ASSUME IInv, NEW w \in Workers, claimBackupSchedule(w) \/ createScheduledBackup(w)
  PROVE  RowsAllowed
<1>1. ASSUME NEW t \in Backups, sets' = withRow(t)
      PROVE  RowsAllowed
  <2>1. sets[t] \in Row
    BY DEF IInv, RowsInv
  <2>2. CASE sets[t].status = "none"
    BY <1>1, <2>1, <2>2, Arrows, WriteAllowed DEF withRow, IInv
  <2>3. CASE sets[t].status # "none"
    <3>1. sets' = sets
      BY <1>1, <2>3 DEF withRow, IInv, RowsInv
    <3> QED BY <3>1, KeptAllowed
  <2> QED BY <2>2, <2>3
<1>2. JobOK(job[w], store)
  BY DEF IInv, JobsInv
<1>3. CASE claimBackupSchedule(w)
  <2>1. job[w].seen \in FirstRun .. MaxTime
    BY <1>2, <1>3 DEF JobOK, claimBackupSchedule, At
  <2>2. job[w].seen \in Backups
    BY <2>1, SortsAssumption DEF Backups, Times
  <2>3. CASE next = job[w].seen
    BY <1>1, <1>3, <2>2, <2>3 DEF claimBackupSchedule
  <2>4. CASE next # job[w].seen
    BY <1>3, <2>4, KeptAllowed DEF claimBackupSchedule
  <2> QED BY <2>3, <2>4
<1>4. CASE createScheduledBackup(w)
  BY <1>1, <1>2, <1>4 DEF JobOK, createScheduledBackup, At, Backups
<1> QED BY <1>3, <1>4

LEMMA ExecuteAllowed ==
  ASSUME IInv, NEW w \in Workers, executeBackup(w) PROVE RowsAllowed
<1> DEFINE b == job[w].b
<1>1. b \in Times /\ b \in Backups /\ sets[b] \in Row
  <2>1. b \in Times
    BY DEF IInv, JobsInv, JobOK, executeBackup, At
  <2> QED BY <2>1 DEF IInv, RowsInv, Backups
<1>2. \/ startRun(w, b, job[w].by)
      \/ sets' = sets
      \/ sets[b].status = "COMPLETED" /\ sets' = [sets EXCEPT ![b] = Failed(sets[b])]
  BY DEF executeBackup
<1> QED BY <1>1, <1>2, StartAllowed, KeptAllowed, Arrows, WriteAllowed DEF IInv

LEMMA RequestsAllowed ==
  ASSUME IInv, NEW b \in Backups,
         \/ requestBackup(b) \/ cancelBackup(b) \/ recoverExpiredOperations(b)
         \/ \E h \in Workers : executeBackupSet(h, b) \/ startVerification(h, b)
  PROVE  RowsAllowed
<1>1. sets[b] \in Row
  BY DEF IInv, RowsInv
<1>2. CASE requestBackup(b)
  BY <1>1, <1>2, Arrows, WriteAllowed DEF requestBackup, IInv
<1>3. CASE cancelBackup(b)
  BY <1>1, <1>3, Arrows, WriteAllowed DEF cancelBackup, IInv
<1>4. CASE recoverExpiredOperations(b)
  BY <1>1, <1>4, Arrows, WriteAllowed DEF recoverExpiredOperations, IInv
<1>5. CASE \E h \in Workers : executeBackupSet(h, b)
  BY <1>1, <1>5, Arrows, WriteAllowed DEF executeBackupSet, IInv
<1>6. CASE \E h \in Workers : startVerification(h, b)
  <2>1. Allowed(sets[b], [sets[b] EXCEPT !.verif = "VERIFYING"])
    BY <1>1 DEF Allowed, Row
  <2> QED BY <1>6, <2>1, WriteAllowed DEF startVerification, IInv
<1> QED BY <1>2, <1>3, <1>4, <1>5, <1>6

LEMMA VerdictAllowed ==
  ASSUME IInv, NEW h \in Workers, finishVerification(h) PROVE RowsAllowed
<1> DEFINE b == job[h].b
           r == sets[b]
<1>1. b \in Backups /\ job[h].seen \in {"MATCH", "MISMATCH", "ERROR"} /\ r \in Row
  <2>1. JobOK(job[h], store) /\ job[h].pc = "verified"
    BY DEF IInv, JobsInv, finishVerification, At
  <2> QED BY <2>1 DEF JobOK, IInv, RowsInv
<1>2. CASE job[h].seen = "ERROR"
  <2>1. sets' = [sets EXCEPT ![b] = [r EXCEPT !.verif = "ERROR"]]
    BY <1>2 DEF finishVerification
  <2>2. Allowed(r, [r EXCEPT !.verif = "ERROR"])
    BY <1>1 DEF Allowed, Row
  <2> QED BY <1>1, <2>1, <2>2, WriteAllowed DEF IInv
<1>3. CASE job[h].seen # "ERROR" /\ r.verif # "VERIFYING"
  <2>1. sets' = sets
    BY <1>1, <1>3 DEF finishVerification, IInv, RowsInv
  <2> QED BY <2>1, KeptAllowed
<1>4. CASE job[h].seen # "ERROR" /\ r.verif = "VERIFYING"
  <2>1. sets' = [sets EXCEPT ![b] = Judged(r, job[h].seen)]
    BY <1>4 DEF finishVerification
  <2>2. Allowed(r, Judged(r, job[h].seen))
    BY <1>1, <1>4 DEF Allowed
  <2> QED BY <1>1, <2>1, <2>2, WriteAllowed DEF IInv
<1> QED BY <1>2, <1>3, <1>4

LEMMA StepAllowed == ASSUME IInv, [Next]_vars PROVE RowsAllowed
<1>1. Cycles \subseteq Workers /\ Handlers \subseteq Workers /\ Manuals \subseteq Backups
  BY DEF Workers, Backups
<1>2. ASSUME NEW w \in Workers, RunStep(w) PROVE RowsAllowed
  <2>1. CASE completeRun(w) \/ failRun(w) \/ failUnpersisted(w)
    BY <2>1, RunAllowed
  <2>2. CASE createScheduledBackup(w) \/ executeBackup(w)
    BY <2>2, CycleAllowed, ExecuteAllowed
  <2>3. CASE findStoredArtifact(w) \/ storeArtifact(w) \/ runFails(w)
             \/ persistBackupIntegrityMetadata(w)
    BY <2>3, KeptAllowed DEF findStoredArtifact, storeArtifact, runFails,
       persistBackupIntegrityMetadata
  <2> QED BY <1>2, <2>1, <2>2, <2>3 DEF RunStep
<1>3. ASSUME NEW c \in Cycles,
             runCycle(c) \/ resumePending(c) \/ listDueBackupSchedules(c) \/ claimBackupSchedule(c)
      PROVE  RowsAllowed
  <2>1. CASE resumePending(c)
    <3>1. PICK t \in job[c].todo : startRun(c, t, "resume")
      BY <2>1 DEF resumePending
    <3>2. t \in Times
      BY <1>1, <3>1 DEF IInv, JobsInv, JobOK
    <3> QED BY <1>1, <3>1, <3>2, StartAllowed
  <2>2. CASE runCycle(c) \/ listDueBackupSchedules(c)
    BY <2>2, KeptAllowed DEF runCycle, listDueBackupSchedules
  <2> QED BY <1>1, <1>3, <2>1, <2>2, CycleAllowed
<1>4. ASSUME NEW h \in Handlers,
             runNow(h) \/ settleAutomationAction(h) \/ verifyStoredArtifact(h) \/ finishVerification(h)
      PROVE  RowsAllowed
  <2>1. CASE finishVerification(h)
    BY <1>1, <2>1, VerdictAllowed
  <2>2. CASE runNow(h) \/ settleAutomationAction(h) \/ verifyStoredArtifact(h)
    BY <2>2, KeptAllowed DEF runNow, settleAutomationAction, verifyStoredArtifact
  <2> QED BY <1>4, <2>1, <2>2
<1>5. ASSUME NEW h \in Handlers, NEW b \in Backups, executeBackupSet(h, b) \/ startVerification(h, b)
      PROVE  RowsAllowed
  BY <1>1, <1>5, RequestsAllowed
<1>6. ASSUME NEW b \in Backups, requestBackup(b) \/ cancelBackup(b) \/ recoverExpiredOperations(b)
      PROVE  RowsAllowed
  BY <1>6, RequestsAllowed
<1>7. ASSUME \E b \in Backups : Corrupt(b) PROVE RowsAllowed
  BY <1>7, KeptAllowed DEF Corrupt
<1>8. ASSUME \E w \in Workers : Crash(w) PROVE RowsAllowed
  BY <1>8, KeptAllowed DEF Crash
<1>9. ASSUME Tick \/ UNCHANGED vars PROVE RowsAllowed
  BY <1>9, KeptAllowed DEF Tick, vars
<1> QED BY <1>1, <1>2, <1>3, <1>4, <1>5, <1>6, <1>7, <1>8, <1>9 DEF Next

\* The statuses keep to BACKUP_TRANSITIONS but for late verdicts, with any
\* number of requests, cycles and reapers at work on one row.
THEOREM LifecycleKept == Spec => OnlyVerdictsLeaveLifecycle
<1> DEFINE Step ==
      \A b \in Backups : sets'[b].status # sets[b].status =>
       \/ <<sets[b].status, sets'[b].status>> \in Lifecycle
       \/ /\ sets[b].verif = "VERIFYING"
          /\ sets'[b] \in {Judged(sets[b], "MATCH"), Judged(sets[b], "MISMATCH")}
       \/ /\ sets[b].status # "RUNNING" /\ sets[b].lease # None
          /\ sets'[b] = Failed(sets[b])
<1>1. IInv /\ [Next]_vars => [Step]_vars
  BY StepAllowed DEF RowsAllowed, Allowed
<1> QED BY <1>1, Invariance, PTL DEF Spec, OnlyVerdictsLeaveLifecycle
=============================================================================
