------------------------- MODULE RestoreWorkflowProofs -------------------------
(***************************************************************************)
(* The safety of restores, rollbacks and retention for any backups,        *)
(* requests and workers.  The inductive invariant IInv says why retention  *)
(* is safe: whatever is not ACTIVE was verified before some other backup,  *)
(* an open request only ever names one that is ACTIVE, and a worker that   *)
(* deletes has taken its backup out of that status first.                  *)
(***************************************************************************)
EXTENDS RestoreWorkflow, FiniteSetTheorems, TLAPS

SetType == [Backups -> [status : SetStatuses, kept : {"ACTIVE", "EXPIRED", "DELETED"}, rank : Nat]]
Row == [status : {"none"} \cup Open \cup Closed, b : Backups \cup {None},
        module : Modules \cup {None}, approved : BOOLEAN, dry : Runs, integrity : Verdicts,
        started : BOOLEAN, lease : Workers \cup {None}]
Local == [pc : Points, j : Jobs \cup {None}, b : Backups \cup {None},
          seen : {None, "ok", "bad", "error", "pending"}, todo : SUBSET Backups]
Cut == [phase : Phases, to : Versions \cup {None}, managed : SUBSET Files,
        left : SUBSET Files, hand : Files \cup {None}]
Trees == [Files -> AllVersions \cup {None}]

CodeType ==
  /\ active \in Trees /\ saved \in [Workers -> Trees]
  /\ cut \in [Workers -> Cut] /\ torn \in BOOLEAN

Opened(r) == r.status \in Open
Running(r) == r.status \in {"DRY_RUN_IN_PROGRESS", "IN_PROGRESS"}

(* A backup, verified or not, and what is left of it.                      *)
Passed(b, st) == st[b].rank > 0 /\ \E c \in Backups : st[c].rank > st[b].rank
SetOK(b) ==
  /\ set[b].status = "COMPLETED" => set[b].rank = 0
  /\ point[b] = "AVAILABLE" => set[b].kept = "ACTIVE" /\ b \notin Rds
  /\ set[b].kept # "ACTIVE" => Passed(b, set)
  /\ ~ bytes[b] => set[b].kept # "ACTIVE"
SetInv == \A b \in Backups : SetOK(b)

(* A request r and the backup it names.                                    *)
RowOK(j, r, st) ==
  /\ r.status = "none" => ~ r.started
  /\ r.status # "none" => r.b \in Backups /\ (j \in Rollbacks => r.b \notin Rds)
  /\ Opened(r) => st[r.b].kept = "ACTIVE"
  /\ Running(r) => r.lease # None
JobInv == \A j \in Jobs : RowOK(j, job[j], set)

(* What a worker p knows of its request and of the backups it retires.     *)
LocalOK(p, jb, st) ==
  /\ p.pc \in {"rehearse", "rehearsed", "dryFails", "target"} => p.j \in Restores
  /\ p.pc \in {"apply", "applied", "fails"} => p.j \in Jobs /\ jb[p.j].started
  /\ p.pc \in {"rehearse", "rehearsed", "dryFails", "apply", "applied", "fails", "target"} =>
       jb[p.j].status # "none" /\ p.b = jb[p.j].b
  /\ p.pc \in {"delete", "deleted"} => p.b \in Backups /\ st[p.b].kept # "ACTIVE"
  /\ \A b \in p.todo : Passed(b, st)
ProcInv == \A w \in Workers : LocalOK(proc[w], job, set)

IInv == TypeOK /\ SetInv /\ JobInv /\ ProcInv /\ OneOpenRequest
-----------------------------------------------------------------------------
LEMMA Types ==
  TypeOK <=> /\ set \in SetType /\ bytes \in [Backups -> BOOLEAN]
             /\ point \in [Backups -> {"none", "AVAILABLE", "EXPIRED"}]
             /\ job \in [Jobs -> Row]
             /\ drill \in [status : {"none", "RUNNING", "over"}, b : Backups \cup {None}]
             /\ proc \in [Workers -> Local] /\ touched \subseteq Jobs /\ CodeType
  BY DEF TypeOK, SetType, Row, Local, CodeType, Cut, Trees

LEMMA TypesNext ==
  TypeOK' <=> /\ set' \in SetType /\ bytes' \in [Backups -> BOOLEAN]
              /\ point' \in [Backups -> {"none", "AVAILABLE", "EXPIRED"}]
              /\ job' \in [Jobs -> Row]
              /\ drill' \in [status : {"none", "RUNNING", "over"}, b : Backups \cup {None}]
              /\ proc' \in [Workers -> Local] /\ touched' \subseteq Jobs /\ CodeType'
  BY DEF TypeOK, SetType, Row, Local, CodeType, Cut, Trees

LEMMA FreeLocal == Free \in Local /\ \A jb, st : LocalOK(Free, jb, st)
  BY DEF Free, Local, Points, LocalOK

LEMMA InitInv == Init => IInv
<1> SUFFICES ASSUME Init PROVE IInv
  OBVIOUS
<1>1. CodeType
  BY CarriesAssumption DEF Init, CutoverInit, CodeType, Trees, Tree, AllVersions, Nothing, NoCut,
     Cut, Phases
<1>2. TypeOK
  <2>1. NoJob \in Row
    BY DEF NoJob, Row, Runs, Verdicts
  <2>2. set \in SetType
    BY DEF Init, SetType, SetStatuses
  <2> QED BY <1>1, <2>1, <2>2, FreeLocal, Types DEF Init
<1>3. SetInv
  BY DEF Init, SetInv, SetOK
<1>4. JobInv /\ OneOpenRequest
  BY DEF Init, JobInv, RowOK, NoJob, Opened, Open, Running, OneOpenRequest, IsOpen, Jobs
<1>5. ProcInv
  BY FreeLocal DEF Init, ProcInv
<1> QED BY <1>2, <1>3, <1>4, <1>5 DEF IInv

(* A step that writes the row of one request at most, and locals.  What it
   does to the row:                                                        *)
Advances(q, r) ==
  /\ q.status # "none" /\ r.status # "none" /\ r.b = q.b /\ r.module = q.module
  /\ q.started => r.started
  /\ Opened(r) => Opened(q)
  /\ Running(r) => r.lease # None

KeepsSets ==
  /\ set' \in SetType /\ UNCHANGED <<bytes, point>>
  /\ \A b \in Backups :
       /\ set'[b].kept = set[b].kept /\ set'[b].rank = set[b].rank
       /\ set'[b].status = "COMPLETED" => set[b].status = "COMPLETED"

LEMMA KeptLocals ==
  ASSUME IInv, KeepsSets,
         \A j \in Jobs : job'[j] = job[j] \/ Advances(job[j], job'[j])
  PROVE  \A p \in Local : LocalOK(p, job, set) => LocalOK(p, job', set')
<1> SUFFICES ASSUME NEW p \in Local, LocalOK(p, job, set) PROVE LocalOK(p, job', set')
  OBVIOUS
<1>1. p.j \in Jobs => /\ job[p.j].started => job'[p.j].started
                      /\ job[p.j].status # "none" => job'[p.j].status # "none"
                      /\ job'[p.j].b = job[p.j].b
  BY DEF Advances
<1>2. \A b \in Backups : Passed(b, set) => Passed(b, set')
  BY DEF KeepsSets, Passed
<1>3. p.todo \subseteq Backups /\ p.b \in Backups \cup {None}
  BY DEF Local
<1>4. Restores \subseteq Jobs
  BY DEF Jobs
<1>5. /\ p.pc \in {"rehearse", "rehearsed", "dryFails", "target"} => p.j \in Restores
      /\ p.pc \in {"apply", "applied", "fails"} => p.j \in Jobs /\ job'[p.j].started
  BY <1>1 DEF LocalOK
<1>6. p.pc \in {"rehearse", "rehearsed", "dryFails", "apply", "applied", "fails", "target"} =>
        job'[p.j].status # "none" /\ p.b = job'[p.j].b
  BY <1>1, <1>4 DEF LocalOK
<1>7. p.pc \in {"delete", "deleted"} => p.b \in Backups /\ set'[p.b].kept # "ACTIVE"
  BY DEF LocalOK, KeepsSets
<1>8. \A b \in p.todo : Passed(b, set')
  BY <1>2, <1>3 DEF LocalOK
<1> QED BY <1>5, <1>6, <1>7, <1>8 DEF LocalOK

LEMMA KeptRows ==
  ASSUME IInv, KeepsSets,
         \A j \in Jobs : job'[j] = job[j] \/ Advances(job[j], job'[j])
  PROVE  SetInv' /\ JobInv' /\ OneOpenRequest'
<1>1. SetInv'
  <2> SUFFICES ASSUME NEW b \in Backups PROVE SetOK(b)'
    BY DEF SetInv
  <2>1. SetOK(b)
    BY DEF IInv, SetInv
  <2>2. Passed(b, set) => Passed(b, set')
    BY DEF KeepsSets, Passed
  <2> QED BY <2>1, <2>2 DEF SetOK, KeepsSets
<1>2. JobInv'
  <2> SUFFICES ASSUME NEW j \in Jobs PROVE RowOK(j, job'[j], set')
    BY DEF JobInv
  <2>1. RowOK(j, job[j], set)
    BY DEF IInv, JobInv
  <2>2. job[j].status # "none" => set'[job[j].b].kept = set[job[j].b].kept
    BY <2>1 DEF RowOK, KeepsSets
  <2>3. Opened(job[j]) => job[j].status # "none"
    BY DEF Opened, Open
  <2> QED BY <2>1, <2>2, <2>3 DEF RowOK, Advances
<1>3. OneOpenRequest'
  <2>1. \A j \in Jobs : Opened(job'[j]) =>
          Opened(job[j]) /\ job'[j].b = job[j].b /\ job'[j].module = job[j].module
    BY DEF Advances
  <2> QED BY <2>1 DEF IInv, OneOpenRequest, IsOpen, Opened, Jobs
<1> QED BY <1>1, <1>2, <1>3

(* A worker moves on by itself.                                            *)
LEMMA WorkerMoves ==
  ASSUME IInv, NEW w \in Workers, NEW p \in Local, LocalOK(p, job, set),
         proc' = [proc EXCEPT ![w] = p],
         UNCHANGED <<set, bytes, point, job>>,
         drill' \in [status : {"none", "RUNNING", "over"}, b : Backups \cup {None}],
         touched' \subseteq Jobs, CodeType'
  PROVE  IInv'
<1>1. set \in SetType /\ bytes \in [Backups -> BOOLEAN] /\ job \in [Jobs -> Row]
      /\ point \in [Backups -> {"none", "AVAILABLE", "EXPIRED"}] /\ proc \in [Workers -> Local]
  BY Types DEF IInv
<1>2. TypeOK'
  <2>1. proc' \in [Workers -> Local]
    BY <1>1
  <2> QED BY <1>1, <2>1, TypesNext
<1>3. ProcInv'
  <2> SUFFICES ASSUME NEW v \in Workers PROVE LocalOK(proc'[v], job', set')
    BY DEF ProcInv
  <2>1. proc'[v] = IF v = w THEN p ELSE proc[v]
    BY <1>1
  <2>2. LocalOK(proc[v], job, set)
    BY DEF IInv, ProcInv
  <2>3. job' = job /\ set' = set
    OBVIOUS
  <2> QED BY <2>1, <2>2, <2>3
<1>4. SetInv' /\ JobInv' /\ OneOpenRequest'
  <2>1. KeepsSets
    BY <1>1 DEF KeepsSets
  <2> QED BY <2>1, KeptRows
<1> QED BY <1>2, <1>3, <1>4 DEF IInv

(* A handler or a worker advances a request.                               *)
LEMMA RequestAdvances ==
  ASSUME IInv, NEW j \in Jobs, NEW r \in Row, Advances(job[j], r),
         job' = [job EXCEPT ![j] = r], KeepsSets,
         UNCHANGED <<drill, touched, code>>,
         \/ UNCHANGED proc
         \/ \E w \in Workers, p \in Local : LocalOK(p, job', set') /\ proc' = [proc EXCEPT ![w] = p]
  PROVE  IInv'
<1>1. set \in SetType /\ bytes \in [Backups -> BOOLEAN] /\ job \in [Jobs -> Row]
      /\ point \in [Backups -> {"none", "AVAILABLE", "EXPIRED"}] /\ proc \in [Workers -> Local]
      /\ drill \in [status : {"none", "RUNNING", "over"}, b : Backups \cup {None}]
      /\ touched \subseteq Jobs /\ CodeType
  BY Types DEF IInv
<1>2. \A k \in Jobs : job'[k] = IF k = j THEN r ELSE job[k]
  BY <1>1
<1>3. \A k \in Jobs : job'[k] = job[k] \/ Advances(job[k], job'[k])
  BY <1>2
<1>4. proc' \in [Workers -> Local]
      /\ \A v \in Workers : proc'[v] = proc[v] \/ LocalOK(proc'[v], job', set')
  BY <1>1
<1>5. CodeType'
  BY <1>1 DEF CodeType, code
<1>6. TypeOK'
  <2>1. job' \in [Jobs -> Row]
    BY <1>1
  <2> QED BY <1>1, <1>4, <1>5, <2>1, TypesNext DEF KeepsSets
<1>7. ProcInv'
  <2> SUFFICES ASSUME NEW v \in Workers PROVE LocalOK(proc'[v], job', set')
    BY DEF ProcInv
  <2>1. proc[v] \in Local /\ LocalOK(proc[v], job, set)
    BY <1>1 DEF IInv, ProcInv
  <2>2. LocalOK(proc[v], job', set')
    BY <1>3, <2>1, KeptLocals
  <2> QED BY <1>4, <2>2
<1> QED BY <1>3, <1>6, <1>7, KeptRows DEF IInv
-----------------------------------------------------------------------------
LEMMA GoLocal ==
  ASSUME IInv, NEW w \in Workers, NEW pc \in Points,
         NEW seen \in {None, "ok", "bad", "error", "pending"}, Go(w, pc, seen)
  PROVE  \E p \in Local : /\ proc' = [proc EXCEPT ![w] = p]
                          /\ p.pc = pc /\ p.j = proc[w].j /\ p.b = proc[w].b
                          /\ p.seen = seen /\ p.todo = proc[w].todo
<1> DEFINE p == [proc[w] EXCEPT !.pc = pc, !.seen = seen]
<1>1. proc \in [Workers -> Local] /\ proc[w] \in Local
  BY Types DEF IInv
<1>2. p \in Local /\ p.pc = pc /\ p.j = proc[w].j /\ p.b = proc[w].b /\ p.seen = seen /\ p.todo = proc[w].todo
  BY <1>1 DEF Local
<1>3. proc' = [proc EXCEPT ![w] = p]
  BY <1>1 DEF Go
<1> HIDE DEF p
<1> QED BY <1>2, <1>3

LEMMA GotoLocal ==
  ASSUME IInv, NEW w \in Workers, NEW pc \in Points, Goto(w, pc)
  PROVE  \E p \in Local : /\ proc' = [proc EXCEPT ![w] = p]
                          /\ p.pc = pc /\ p.j = proc[w].j /\ p.b = proc[w].b
                          /\ p.seen = proc[w].seen /\ p.todo = proc[w].todo
<1> DEFINE p == [proc[w] EXCEPT !.pc = pc]
<1>1. proc \in [Workers -> Local] /\ proc[w] \in Local
  BY Types DEF IInv
<1>2. p \in Local /\ p.pc = pc /\ p.j = proc[w].j /\ p.b = proc[w].b /\ p.seen = proc[w].seen /\ p.todo = proc[w].todo
  BY <1>1 DEF Local
<1>3. proc' = [proc EXCEPT ![w] = p]
  BY <1>1 DEF Goto
<1> HIDE DEF p
<1> QED BY <1>2, <1>3

(* The row of a request that was asked for may also stay as it is.         *)
LEMMA RowStays ==
  ASSUME IInv, NEW j \in Jobs, job[j].status # "none"
  PROVE  Advances(job[j], job[j]) /\ job = [job EXCEPT ![j] = job[j]] /\ job[j] \in Row
<1>1. RowOK(j, job[j], set) /\ job \in [Jobs -> Row]
  BY Types DEF IInv, JobInv
<1> QED BY <1>1 DEF RowOK, Advances

(* Marking a backup as restored leaves everything else about it.           *)
LEMMA RestoredKeeps ==
  ASSUME IInv, NEW j \in Jobs, job[j].status # "none", NEW passed \in BOOLEAN,
         set' = set \/ RestoredSet(j, passed), UNCHANGED <<bytes, point>>
  PROVE  KeepsSets
<1>1. set \in SetType /\ job[j].b \in Backups
  BY Types DEF IInv, JobInv, RowOK
<1>2. CASE set' = set
  BY <1>1, <1>2 DEF KeepsSets
<1>3. CASE set' = [set EXCEPT ![job[j].b].status = "RESTORED"]
  BY <1>1, <1>3 DEF KeepsSets, SetType, SetStatuses
<1> QED BY <1>2, <1>3 DEF RestoredSet

LEMMA SameKeeps == ASSUME IInv, UNCHANGED <<set, bytes, point>> PROVE KeepsSets
<1>1. set \in SetType
  BY Types DEF IInv
<1> QED BY <1>1 DEF KeepsSets

(* What a worker of a request knows of it.                                 *)
LEMMA Holding ==
  ASSUME IInv, NEW w \in Workers,
         proc[w].pc \in {"rehearse", "rehearsed", "dryFails", "apply", "applied", "fails", "target"}
  PROVE  /\ proc[w] \in Local /\ LocalOK(proc[w], job, set)
         /\ proc[w].j \in Jobs /\ job[proc[w].j] \in Row /\ job[proc[w].j].status # "none"
         /\ proc[w].b = job[proc[w].j].b /\ proc[w].b \in Backups
         /\ proc[w].pc \in {"rehearse", "rehearsed", "dryFails", "target"} => proc[w].j \in Restores
         /\ proc[w].pc \in {"apply", "applied", "fails"} => job[proc[w].j].started
<1>1. proc[w] \in Local /\ LocalOK(proc[w], job, set) /\ job \in [Jobs -> Row]
  BY Types DEF IInv, ProcInv
<1>2. proc[w].j \in Jobs
  BY <1>1 DEF LocalOK, Jobs
<1>3. job[proc[w].j].status # "none" /\ proc[w].b = job[proc[w].j].b
  BY <1>1 DEF LocalOK
<1>4. proc[w].b \in Backups
  BY <1>2, <1>3 DEF IInv, JobInv, RowOK
<1> QED BY <1>1, <1>2, <1>3, <1>4 DEF LocalOK
-----------------------------------------------------------------------------
(* --- requests and the reaper ------------------------------------------- *)
LEMMA HandlerInv ==
  ASSUME IInv, NEW j \in Jobs, approve(j) \/ reject(j) \/ cancel(j) \/ recoverExpiredOperations(j)
  PROVE  IInv'
<1>1. job[j] \in Row /\ job \in [Jobs -> Row]
  BY Types DEF IInv
<1>2. CASE approve(j)
  <2> DEFINE r == [job[j] EXCEPT !.status = "APPROVED", !.approved = TRUE]
  <2>1. job' = [job EXCEPT ![j] = r] /\ job[j].status = "AWAITING_APPROVAL"
    BY <1>1, <1>2 DEF approve
  <2>2. r \in Row /\ Advances(job[j], r)
    BY <1>1, <2>1 DEF Row, Advances, Opened, Open, Running, Closed
  <2> HIDE DEF r
  <2> QED BY <1>2, <2>1, <2>2, SameKeeps, RequestAdvances DEF approve
<1>3. CASE reject(j)
  <2> DEFINE r == [job[j] EXCEPT !.status = "REJECTED", !.approved = FALSE]
  <2>1. job' = [job EXCEPT ![j] = r] /\ job[j].status = "AWAITING_APPROVAL"
    BY <1>1, <1>3 DEF reject
  <2>2. r \in Row /\ Advances(job[j], r)
    BY <1>1, <2>1 DEF Row, Advances, Opened, Open, Running, Closed
  <2> HIDE DEF r
  <2> QED BY <1>3, <2>1, <2>2, SameKeeps, RequestAdvances DEF reject
<1>4. CASE cancel(j)
  <2> DEFINE r == [job[j] EXCEPT !.status = "CANCELLED"]
  <2>1. job' = [job EXCEPT ![j] = r]
        /\ job[j].status \in {"AWAITING_APPROVAL", "APPROVED", "DRY_RUN_PASSED"}
    BY <1>1, <1>4 DEF cancel
  <2>2. r \in Row /\ Advances(job[j], r)
    BY <1>1, <2>1 DEF Row, Advances, Opened, Open, Running, Closed
  <2> HIDE DEF r
  <2> QED BY <1>4, <2>1, <2>2, SameKeeps, RequestAdvances DEF cancel
<1>5. CASE recoverExpiredOperations(j)
  <2> DEFINE dry == IF job[j].status = "DRY_RUN_IN_PROGRESS" THEN "FAILED" ELSE job[j].dry
             r == [job[j] EXCEPT !.status = "FAILED", !.integrity = "ERROR", !.lease = None, !.dry = dry]
  <2>1. job' = [job EXCEPT ![j] = r]
        /\ job[j].status \in {"DRY_RUN_IN_PROGRESS", "IN_PROGRESS"}
    BY <1>1, <1>5 DEF recoverExpiredOperations
  <2>2. dry \in Runs
    BY <1>1 DEF Runs, Row
  <2> HIDE DEF dry
  <2>3. r \in Row /\ Advances(job[j], r)
    BY <1>1, <2>1, <2>2 DEF Row, Advances, Opened, Open, Running, Closed, Verdicts
  <2> HIDE DEF r
  <2> QED BY <1>5, <2>1, <2>3, SameKeeps, RequestAdvances DEF recoverExpiredOperations
<1> QED BY <1>2, <1>3, <1>4, <1>5

(* A request names an ACTIVE backup and opens when no other one is.        *)
LEMMA RequestInv ==
  ASSUME IInv, NEW j \in Jobs, NEW b \in Backups,
         NEW m \in Modules \cup {None},
         \/ j \in Restores /\ requestRestore(j, b, m)
         \/ j \in Rollbacks /\ requestRollback(j, b)
  PROVE  IInv'
<1>1. /\ set \in SetType /\ bytes \in [Backups -> BOOLEAN] /\ job \in [Jobs -> Row]
      /\ point \in [Backups -> {"none", "AVAILABLE", "EXPIRED"}] /\ proc \in [Workers -> Local]
      /\ drill \in [status : {"none", "RUNNING", "over"}, b : Backups \cup {None}]
      /\ touched \subseteq Jobs /\ CodeType
  BY Types DEF IInv
<1>2. PICK v \in Verdicts, n \in Modules \cup {None} :
        job' = [job EXCEPT ![j] = Requested(b, n, v)] /\ (j \in Restores => n = m)
  BY RequestsAssumption DEF requestRestore, requestRollback, Verdicts
<1> DEFINE r == Requested(b, n, v)
<1>3. /\ r \in Row /\ r.status = "AWAITING_APPROVAL" /\ r.b = b /\ r.module = n /\ ~ r.started
  BY DEF Requested, NoJob, Row, Open, Runs
<1>4. /\ job[j].status = "none" /\ set[b].kept = "ACTIVE" /\ (j \in Rollbacks => b \notin Rds)
      /\ UNCHANGED <<set, bytes, point, drill, proc, touched, code>>
  BY RequestsAssumption DEF requestRestore, requestRollback, IInv, SetInv, SetOK
<1>5. job' = [job EXCEPT ![j] = r]
  BY <1>2
<1> HIDE DEF r
<1>6. \A k \in Jobs : job'[k] = IF k = j THEN r ELSE job[k]
  BY <1>1, <1>5
<1>7. TypeOK'
  <2>1. job' \in [Jobs -> Row] /\ CodeType'
    BY <1>1, <1>3, <1>4, <1>5 DEF CodeType, code
  <2> QED BY <1>1, <1>4, <2>1, TypesNext
<1>8. SetInv'
  BY <1>4 DEF IInv, SetInv, SetOK, Passed
<1>9. JobInv'
  <2> SUFFICES ASSUME NEW k \in Jobs PROVE RowOK(k, job'[k], set')
    BY DEF JobInv
  <2>1. RowOK(k, job[k], set) /\ set' = set
    BY <1>4 DEF IInv, JobInv
  <2> QED BY <1>3, <1>4, <1>6, <2>1 DEF RowOK, Running
<1>10. ProcInv'
  <2> SUFFICES ASSUME NEW w \in Workers PROVE LocalOK(proc'[w], job', set')
    BY DEF ProcInv
  <2>1. LocalOK(proc[w], job, set) /\ proc' = proc /\ set' = set
    BY <1>4 DEF IInv, ProcInv
  <2>2. ASSUME proc[w].pc \in {"rehearse", "rehearsed", "dryFails", "apply", "applied", "fails", "target"}
        PROVE  job'[proc[w].j] = job[proc[w].j]
    BY <1>4, <1>6, <2>2, Holding
  <2> QED BY <2>1, <2>2 DEF LocalOK
<1>11. OneOpenRequest'
  <2>1. CASE j \in Restores
    <3>1. /\ j \notin Rollbacks /\ n = m
          /\ \A k \in Restores : IsOpen(k) /\ job[k].b = b => job[k].module # m
      BY <1>2, <2>1, RequestsAssumption DEF requestRestore
    <3> QED BY <1>3, <1>6, <3>1 DEF IInv, OneOpenRequest, IsOpen, Jobs
  <2>2. CASE j \in Rollbacks
    <3>1. j \notin Restores /\ \A k \in Rollbacks : ~ IsOpen(k)
      BY <2>2, RequestsAssumption DEF requestRollback
    <3> QED BY <1>3, <1>6, <3>1 DEF IInv, OneOpenRequest, IsOpen, Jobs
  <2> QED BY <2>1, <2>2 DEF Jobs
<1> QED BY <1>7, <1>8, <1>9, <1>10, <1>11 DEF IInv
-----------------------------------------------------------------------------
(* --- rehearsal and execution ------------------------------------------- *)
LEMMA HeldLocal ==
  ASSUME IInv, NEW w \in Workers, NEW p \in Local,
         p.j = proc[w].j, p.b = proc[w].b, p.todo = proc[w].todo,
         \/ proc[w].pc \in {"rehearse", "rehearsed", "dryFails"}
            /\ p.pc \in {"rehearse", "rehearsed", "dryFails"}
         \/ proc[w].pc \in {"apply", "applied", "fails"} /\ p.pc \in {"apply", "applied", "fails"}
  PROVE  LocalOK(p, job, set)
<1>1. LocalOK(proc[w], job, set)
  BY DEF IInv, ProcInv
<1> QED BY <1>1 DEF LocalOK

(* A worker advances the request it holds, and goes on or returns.         *)
LEMMA WorkerAdvances ==
  ASSUME IInv, NEW j \in Jobs, NEW r \in Row, Advances(job[j], r),
         job' = [job EXCEPT ![j] = r], KeepsSets,
         UNCHANGED <<drill, touched, code>>,
         NEW w \in Workers, NEW p \in Local, LocalOK(p, job, set),
         proc' = [proc EXCEPT ![w] = p]
  PROVE  IInv'
<1>1. job \in [Jobs -> Row]
  BY Types DEF IInv
<1>2. \A k \in Jobs : job'[k] = job[k] \/ Advances(job[k], job'[k])
  BY <1>1
<1>3. LocalOK(p, job', set')
  BY <1>2, KeptLocals
<1> QED BY <1>3, RequestAdvances

LEMMA StartDryRunInv ==
  ASSUME IInv, NEW w \in Workers, NEW j \in Restores, startDryRun(w, j) PROVE IInv'
<1> DEFINE r == [job[j] EXCEPT !.status = "DRY_RUN_IN_PROGRESS", !.dry = "RUNNING",
                               !.integrity = "CHECKING", !.lease = w]
           p == [Free EXCEPT !.pc = "rehearse", !.j = j, !.b = job[j].b]
<1>1. j \in Jobs /\ job[j] \in Row /\ job \in [Jobs -> Row] /\ job[j].status = "APPROVED"
  BY Types DEF IInv, startDryRun, Jobs
<1>2. job' = [job EXCEPT ![j] = r] /\ proc' = [proc EXCEPT ![w] = p]
  BY <1>1 DEF startDryRun
<1>3. r \in Row /\ Advances(job[j], r)
  BY <1>1, WorkersAssumption DEF Row, Advances, Opened, Open, Running, Closed, Runs, Verdicts
<1>4. p \in Local /\ p.pc = "rehearse" /\ p.j = j /\ p.b = job[j].b /\ p.todo = {}
  BY <1>1 DEF Free, Local, Points, Row
<1> HIDE DEF r, p
<1>5. LocalOK(p, job, set)
  BY <1>1, <1>4 DEF LocalOK
<1> QED BY <1>1, <1>2, <1>3, <1>4, <1>5, SameKeeps, WorkerAdvances DEF startDryRun

LEMMA StartExecutionInv ==
  ASSUME IInv, NEW w \in Workers, NEW j \in Jobs, startExecution(w, j) PROVE IInv'
<1> DEFINE r == [job[j] EXCEPT !.status = "IN_PROGRESS", !.started = TRUE, !.lease = w]
           p == [Free EXCEPT !.pc = "apply", !.j = j, !.b = job[j].b]
<1>1. job[j] \in Row /\ job \in [Jobs -> Row] /\ job[j].status \in {"APPROVED", "DRY_RUN_PASSED"}
  BY Types DEF IInv, startExecution
<1>2. job' = [job EXCEPT ![j] = r] /\ proc' = [proc EXCEPT ![w] = p]
  BY <1>1 DEF startExecution
<1>3. r \in Row /\ Advances(job[j], r) /\ r.started /\ r.status = "IN_PROGRESS" /\ r.b = job[j].b
  BY <1>1, WorkersAssumption DEF Row, Advances, Opened, Open, Running, Closed
<1>4. p \in Local /\ p.pc = "apply" /\ p.j = j /\ p.b = job[j].b /\ p.todo = {}
  BY <1>1 DEF Free, Local, Points, Row
<1> HIDE DEF r, p
<1>5. job'[j] = r
  BY <1>1, <1>2
<1>6. LocalOK(p, job', set')
  BY <1>3, <1>4, <1>5 DEF LocalOK
<1> QED BY <1>2, <1>3, <1>4, <1>6, SameKeeps, RequestAdvances DEF startExecution

LEMMA RunRestoreDryRunInv ==
  ASSUME IInv, NEW w \in Workers, runRestoreDryRun(w) PROVE IInv'
<1>1. PICK seen \in {None, "ok", "bad", "error", "pending"} : Go(w, "rehearsed", seen)
  BY DEF runRestoreDryRun
<1>2. PICK p \in Local : /\ proc' = [proc EXCEPT ![w] = p]
                         /\ p.pc = "rehearsed" /\ p.j = proc[w].j /\ p.b = proc[w].b
                         /\ p.todo = proc[w].todo
  BY <1>1, GoLocal DEF Points
<1>3. LocalOK(p, job, set)
  BY <1>2, HeldLocal DEF runRestoreDryRun, At
<1>4. UNCHANGED <<set, bytes, point, job, drill, touched, code>>
  BY DEF runRestoreDryRun
<1> QED BY <1>2, <1>3, <1>4, WorkerMoves, Types DEF IInv, CodeType, code

(* What a step of a worker leaves of its request: the row as it is, or one
   that has advanced; and where it leaves the worker.                      *)
LEMMA HeldAdvances ==
  ASSUME IInv, NEW w \in Workers, NEW r \in Row,
         proc[w].pc \in {"rehearse", "rehearsed", "dryFails", "apply", "applied", "fails", "target"},
         job' = job \/ (Advances(job[proc[w].j], r) /\ job' = [job EXCEPT ![proc[w].j] = r]),
         KeepsSets, UNCHANGED <<drill, touched, code>>,
         \/ Return(w)
         \/ Goto(w, "dryFails") /\ proc[w].pc \in {"rehearsed", "dryFails"}
         \/ Goto(w, "fails") /\ proc[w].pc \in {"applied", "fails"}
  PROVE  IInv'
<1> DEFINE j == proc[w].j
<1>1. j \in Jobs /\ job[j].status # "none"
  BY Holding
<1>2. PICK q \in Row : Advances(job[j], q) /\ job' = [job EXCEPT ![j] = q]
  BY <1>1, RowStays
<1>3. \E p \in Local : LocalOK(p, job, set) /\ proc' = [proc EXCEPT ![w] = p]
  <2>1. CASE Return(w)
    BY <2>1, FreeLocal DEF Return
  <2>2. ASSUME NEW pc \in {"dryFails", "fails"}, Goto(w, pc),
               pc = "dryFails" => proc[w].pc \in {"rehearsed", "dryFails"},
               pc = "fails" => proc[w].pc \in {"applied", "fails"}
        PROVE  \E p \in Local : LocalOK(p, job, set) /\ proc' = [proc EXCEPT ![w] = p]
    <3>1. PICK p \in Local : /\ proc' = [proc EXCEPT ![w] = p]
                             /\ p.pc = pc /\ p.j = proc[w].j /\ p.b = proc[w].b
                             /\ p.todo = proc[w].todo
      BY <2>2, GotoLocal DEF Points
    <3>2. LocalOK(p, job, set)
      BY <2>2, <3>1, HeldLocal
    <3> QED BY <3>1, <3>2
  <2> QED BY <2>1, <2>2
<1> HIDE DEF j
<1> QED BY <1>1, <1>2, <1>3, WorkerAdvances

LEMMA FinishDryRunInv ==
  ASSUME IInv, NEW w \in Workers, finishDryRun(w) PROVE IInv'
<1> DEFINE j == proc[w].j
           passed == proc[w].seen = "ok"
           mine == job[j].status = "DRY_RUN_IN_PROGRESS" /\ job[j].lease = w
           r == Rehearsed(job[j], passed)
<1>1. proc[w].pc = "rehearsed" /\ j \in Jobs /\ job[j] \in Row
  BY Holding DEF finishDryRun, At
<1>2. r \in Row /\ r.status \in {"DRY_RUN_PASSED", "FAILED"} /\ r.b = job[j].b
      /\ r.module = job[j].module /\ r.started = job[j].started
  <2> DEFINE st == IF passed THEN "DRY_RUN_PASSED" ELSE "FAILED"
             v == IF passed THEN "PASSED" ELSE "FAILED"
  <2>1. st \in {"DRY_RUN_PASSED", "FAILED"} /\ v \in {"PASSED", "FAILED"}
    OBVIOUS
  <2>2. r = [job[j] EXCEPT !.status = st, !.dry = v, !.integrity = v, !.lease = None]
    BY DEF Rehearsed
  <2> HIDE DEF st, v, r
  <2> QED BY <1>1, <2>1, <2>2 DEF Row, Open, Closed, Runs, Verdicts
<1>3. mine => Advances(job[j], r)
  BY <1>1, <1>2 DEF Advances, Opened, Open, Running
<1>4. job' = job \/ (mine /\ job' = [job EXCEPT ![j] = r])
  BY DEF finishDryRun
<1>5. Return(w) \/ Goto(w, "dryFails")
  BY DEF finishDryRun
<1> HIDE DEF r, mine
<1> QED BY <1>1, <1>2, <1>3, <1>4, <1>5, SameKeeps, HeldAdvances DEF finishDryRun

(* Whatever fails fails the request, whose row it may find in any status.  *)
LEMMA FailedRow ==
  ASSUME NEW q \in Row, q.status # "none", NEW d \in Runs
  PROVE  Failed(q, d) \in Row /\ Advances(q, Failed(q, d)) /\ Failed(q, d).status = "FAILED"
         /\ Failed(q, d).started = q.started
  BY DEF Failed, Row, Advances, Opened, Open, Closed, Running, Verdicts

LEMMA FailInv ==
  ASSUME IInv, NEW w \in Workers, failDryRun(w) \/ failExecution(w) PROVE IInv'
<1> DEFINE j == proc[w].j
<1>1. proc[w].pc \in {"rehearsed", "dryFails", "applied", "fails"}
  BY DEF failDryRun, failExecution, At
<1>2. j \in Jobs /\ job[j] \in Row /\ job[j].status # "none"
  BY <1>1, Holding
<1>3. Return(w) /\ UNCHANGED <<set, bytes, point, drill, touched, code>>
  BY DEF failDryRun, failExecution
<1>4. \E d \in Runs : job' = job \/ job' = [job EXCEPT ![j] = Failed(job[j], d)]
  <2>1. CASE failDryRun(w)
    <3>1. job' = job \/ job' = [job EXCEPT ![j] = Failed(job[j], "FAILED")]
      BY <2>1 DEF failDryRun
    <3> QED BY <3>1 DEF Runs
  <2>2. CASE failExecution(w)
    <3>1. job' = job \/ job' = [job EXCEPT ![j] = Failed(job[j], job[j].dry)]
      BY <2>2 DEF failExecution
    <3>2. job[j].dry \in Runs
      BY <1>2 DEF Row
    <3> QED BY <3>1, <3>2
  <2> QED BY <2>1, <2>2
<1>5. PICK d \in Runs : job' = job \/ job' = [job EXCEPT ![j] = Failed(job[j], d)]
  BY <1>4
<1> QED BY <1>1, <1>2, <1>3, <1>5, FailedRow, SameKeeps, HeldAdvances

LEMMA MarkPendingInv ==
  ASSUME IInv, NEW w \in Workers, markPending(w) PROVE IInv'
<1> DEFINE j == proc[w].j
           mine == job[j].status = "IN_PROGRESS" /\ job[j].lease = w
           r == Pending(job[j])
<1>1. proc[w].pc = "applied" /\ j \in Jobs /\ job[j] \in Row
  BY Holding DEF markPending, At
<1>2. r \in Row /\ (mine => Advances(job[j], r))
  BY <1>1 DEF Pending, Row, Open, Closed, Verdicts, Advances, Opened, Running
<1>3. job' = job \/ (mine /\ job' = [job EXCEPT ![j] = r])
  BY DEF markPending
<1>4. Return(w) \/ Goto(w, "fails")
  BY DEF markPending
<1> HIDE DEF r, mine
<1> QED BY <1>1, <1>2, <1>3, <1>4, SameKeeps, HeldAdvances DEF markPending

LEMMA FinishedRow ==
  ASSUME NEW q \in Row, Opened(q), NEW passed \in BOOLEAN
  PROVE  /\ Finished(q, passed) \in Row /\ Advances(q, Finished(q, passed))
         /\ Finished(q, passed).status \in {"COMPLETED", "FAILED"}
         /\ Finished(q, passed).started = q.started
<1> DEFINE st == IF passed THEN "COMPLETED" ELSE "FAILED"
           v == IF passed THEN "PASSED" ELSE "FAILED"
<1>1. st \in {"COMPLETED", "FAILED"} /\ v \in {"PASSED", "FAILED"}
  OBVIOUS
<1>2. Finished(q, passed) = [q EXCEPT !.status = st, !.integrity = v, !.lease = None]
  BY DEF Finished
<1> HIDE DEF st, v
<1> QED BY <1>1, <1>2 DEF Row, Open, Closed, Verdicts, Advances, Opened, Running

LEMMA FinishExecutionInv ==
  ASSUME IInv, NEW w \in Workers, finishExecution(w) PROVE IInv'
<1> DEFINE j == proc[w].j
           passed == proc[w].seen = "ok"
           mine == job[j].status = "IN_PROGRESS" /\ job[j].lease = w
           r == Finished(job[j], passed)
<1>1. proc[w].pc = "applied" /\ j \in Jobs /\ job[j] \in Row /\ job[j].status # "none"
  BY Holding DEF finishExecution, At
<1>2. passed \in BOOLEAN
  OBVIOUS
<1>3. mine => r \in Row /\ Advances(job[j], r)
  BY <1>1, <1>2, FinishedRow DEF Opened, Open
<1>4. job' = job \/ (mine /\ job' = [job EXCEPT ![j] = r])
  BY DEF finishExecution
<1>5. set' = set \/ RestoredSet(j, passed)
  BY DEF finishExecution
<1>6. (Return(w) \/ Goto(w, "fails")) /\ UNCHANGED <<bytes, point, drill, touched, code>>
  BY DEF finishExecution
<1> HIDE DEF r, mine, passed
<1>7. KeepsSets
  BY <1>1, <1>2, <1>5, <1>6, RestoredKeeps
<1> QED BY <1>1, <1>3, <1>4, <1>6, <1>7, HeldAdvances

LEMMA StartTargetVerificationInv ==
  ASSUME IInv, NEW w \in Workers, NEW j \in Restores, startTargetVerification(w, j) PROVE IInv'
<1> DEFINE r == [job[j] EXCEPT !.integrity = "CHECKING"]
           p == [Free EXCEPT !.pc = "target", !.j = j, !.b = job[j].b]
<1>1. j \in Jobs /\ job[j] \in Row /\ job \in [Jobs -> Row] /\ job[j].status = "VERIFYING"
  BY Types DEF IInv, startTargetVerification, Jobs
<1>2. job' = [job EXCEPT ![j] = r] /\ proc' = [proc EXCEPT ![w] = p]
  BY <1>1 DEF startTargetVerification
<1>3. r \in Row /\ Advances(job[j], r)
  BY <1>1 DEF Row, Advances, Opened, Running, Verdicts
<1>4. p \in Local /\ p.pc = "target" /\ p.j = j /\ p.b = job[j].b /\ p.todo = {}
  BY <1>1 DEF Free, Local, Points, Row
<1> HIDE DEF r, p
<1>5. LocalOK(p, job, set)
  BY <1>1, <1>4 DEF LocalOK
<1> QED BY <1>1, <1>2, <1>3, <1>4, <1>5, SameKeeps, WorkerAdvances DEF startTargetVerification

LEMMA VerifyPendingRestoreInv ==
  ASSUME IInv, NEW w \in Workers, verifyPendingRestore(w) PROVE IInv'
<1> DEFINE j == proc[w].j
           verifying == job[j].status = "VERIFYING"
<1>1. /\ proc[w].pc = "target" /\ j \in Jobs /\ job[j] \in Row /\ job[j].status # "none"
      /\ Return(w) /\ UNCHANGED <<bytes, point, drill, touched, code>>
  BY Holding DEF verifyPendingRestore, At
<1>2. ASSUME NEW i \in {"CHECKING", "ERROR"}, set' = set,
             job' = IF verifying THEN [job EXCEPT ![j].integrity = i] ELSE job
      PROVE  IInv'
  <2> DEFINE r == [job[j] EXCEPT !.integrity = i]
  <2>1. r \in Row /\ (verifying => Advances(job[j], r))
    BY <1>1, <1>2 DEF Row, Advances, Opened, Running, Verdicts
  <2>2. job' = job \/ (verifying /\ job' = [job EXCEPT ![j] = r])
    BY <1>1, <1>2
  <2>3. KeepsSets
    BY <1>1, <1>2, SameKeeps
  <2> HIDE DEF r, verifying
  <2> QED BY <1>1, <2>1, <2>2, <2>3, HeldAdvances
<1>3. ASSUME NEW passed \in BOOLEAN, RestoredSet(j, passed),
             job' = IF verifying THEN [job EXCEPT ![j] = Finished(@, passed)] ELSE job
      PROVE  IInv'
  <2> DEFINE r == Finished(job[j], passed)
  <2>1. verifying => r \in Row /\ Advances(job[j], r)
    BY <1>1, FinishedRow DEF Opened, Open
  <2>2. job' = job \/ (verifying /\ job' = [job EXCEPT ![j] = r])
    BY <1>3
  <2>3. KeepsSets
    BY <1>1, <1>3, RestoredKeeps
  <2> HIDE DEF r, verifying
  <2> QED BY <1>1, <2>1, <2>2, <2>3, HeldAdvances
<1> QED BY <1>2, <1>3 DEF verifyPendingRestore
-----------------------------------------------------------------------------
(* --- the files of the module ------------------------------------------- *)
LEMMA CutRow ==
  ASSUME CodeType, NEW w \in Workers
  PROVE  /\ cut[w] \in Cut /\ cut \in [Workers -> Cut] /\ saved[w] \in Trees
         /\ \A f \in Files : active[f] \in AllVersions \cup {None}
         /\ \A f \in Files : saved[w][f] \in AllVersions \cup {None}
         /\ None \in AllVersions \cup {None}
  BY DEF CodeType, Cut, Trees

LEMMA StepType ==
  ASSUME CodeType, NEW w \in Workers, NEW ph \in Phases, Step(w, ph)
  PROVE  cut' \in [Workers -> Cut]
  BY CutRow DEF Step, Cut

LEMMA CutoverType ==
  ASSUME CodeType, NEW w \in Workers, CutoverStep(w)
  PROVE  CodeType'
<1>1. CASE \E f \in Files : removeFile(w, f)
  <2> PICK f \in Files : removeFile(w, f)
    BY <1>1
  <2> DEFINE h == IF f \in Carries[cut[w].to] THEN f ELSE None
             c == [cut[w] EXCEPT !.left = @ \ {f}, !.hand = h]
  <2>1. h \in Files \cup {None}
    OBVIOUS
  <2>2. cut' = [cut EXCEPT ![w] = c]
    BY CutRow DEF removeFile
  <2> HIDE DEF h
  <2>3. c \in Cut
    BY <2>1, CutRow DEF Cut
  <2> HIDE DEF c
  <2>4. cut' \in [Workers -> Cut]
    BY <2>2, <2>3, CutRow
  <2>5. active' \in Trees
    BY CutRow DEF removeFile, CodeType, Trees
  <2> QED BY <2>4, <2>5 DEF removeFile, CodeType
<1>2. CASE renameFile(w)
  <2>1. cut' \in [Workers -> Cut]
    BY <1>2, CutRow DEF renameFile, Cut
  <2>2. cut[w].to \in AllVersions \cup {None}
    BY CutRow DEF Cut, AllVersions
  <2>3. active' \in Trees
    BY <1>2, <2>2 DEF renameFile, CodeType, Trees
  <2> QED BY <1>2, <2>1, <2>3 DEF renameFile, CodeType
<1>3. CASE allApplied(w) \/ stepFails(w)
  <2>1. PICK ph \in Phases : Step(w, ph)
    BY <1>3 DEF allApplied, stepFails, Phases
  <2> QED BY <1>3, <2>1, StepType DEF allApplied, stepFails, CodeType
<1>4. CASE verifyApplied(w)
  <2>1. PICK ph \in Phases : Step(w, ph)
    BY <1>4 DEF verifyApplied, Phases
  <2> QED BY <1>4, <2>1, StepType DEF verifyApplied, CodeType
<1>5. CASE discardSaved(w)
  <2>1. cut' \in [Workers -> Cut]
    BY <1>5, StepType DEF discardSaved, Phases
  <2>2. Nothing \in Trees
    BY DEF Nothing, Trees
  <2> QED BY <1>5, <2>1, <2>2 DEF discardSaved, CodeType
<1>6. CASE discardFails(w)
  <2>1. cut' \in [Workers -> Cut]
    BY <1>6, StepType DEF discardFails, Phases
  <2>2. PICK Lost \in SUBSET Files :
          saved' = [saved EXCEPT ![w] = [f \in Files |-> IF f \in Lost THEN None ELSE saved[w][f]]]
    BY <1>6 DEF discardFails
  <2>3. [f \in Files |-> IF f \in Lost THEN None ELSE saved[w][f]] \in Trees
    BY CutRow DEF Trees
  <2>4. saved' \in [Workers -> Trees]
    BY <2>2, <2>3 DEF CodeType
  <2> QED BY <1>6, <2>1, <2>4 DEF discardFails, CodeType
<1>7. CASE undoRemove(w)
  <2>1. cut' \in [Workers -> Cut]
    BY <1>7, StepType DEF undoRemove, Phases
  <2>2. active' \in Trees
    BY <1>7, CutRow DEF undoRemove, Trees
  <2> QED BY <1>7, <2>1, <2>2 DEF undoRemove, CodeType
<1>8. CASE undoCopy(w)
  <2>1. cut' \in [Workers -> Cut]
    BY <1>8, StepType DEF undoCopy, Phases
  <2>2. active' \in Trees
    BY <1>8, CutRow DEF undoCopy, Trees
  <2>3. Nothing \in Trees
    BY DEF Nothing, Trees
  <2> QED BY <1>8, <2>1, <2>2, <2>3 DEF undoCopy, CodeType
<1>9. CASE undoFails(w)
  <2>1. cut' \in [Workers -> Cut]
    BY <1>9, StepType DEF undoFails, Phases
  <2>2. PICK F \in SUBSET cut[w].managed :
          active' = [f \in Files |-> IF f \notin F THEN active[f]
                                     ELSE IF In(w, "undo") THEN None ELSE saved[w][f]]
    BY <1>9 DEF undoFails
  <2>3. active' \in Trees
    BY <2>2, CutRow DEF Trees
  <2> QED BY <1>9, <2>1, <2>3 DEF undoFails, CodeType
<1> QED BY <1>1, <1>2, <1>3, <1>4, <1>5, <1>6, <1>7, <1>8, <1>9 DEF CutoverStep

LEMMA BeginType ==
  ASSUME CodeType, NEW w \in Workers, NEW v \in Versions, begin(w, v)
  PROVE  CodeType'
<1> DEFINE current == {f \in Files : active[f] # None}
           c == [phase |-> "clear", to |-> v, hand |-> None,
                 managed |-> current \cup Carries[v], left |-> current \cup Carries[v]]
<1>1. c \in Cut
  BY CarriesAssumption DEF Cut, Phases
<1>2. cut' = [cut EXCEPT ![w] = c] /\ saved' = [saved EXCEPT ![w] = active]
      /\ UNCHANGED <<active, torn>>
  BY DEF begin
<1> HIDE DEF c
<1> QED BY <1>1, <1>2 DEF CodeType

(* A worker that stays where it is.                                        *)
LEMMA WorkerStays ==
  ASSUME IInv, NEW w \in Workers
  PROVE  /\ proc[w] \in Local /\ LocalOK(proc[w], job, set)
         /\ proc = [proc EXCEPT ![w] = proc[w]]
<1>1. proc \in [Workers -> Local] /\ LocalOK(proc[w], job, set)
  BY Types DEF IInv, ProcInv
<1> QED BY <1>1

LEMMA CodeStepInv ==
  ASSUME IInv, NEW w \in Workers,
         \/ CutoverStep(w) /\ UNCHANGED recovery
         \/ beginCutover(w)
  PROVE  IInv'
<1>1. CodeType /\ touched \subseteq Jobs
      /\ drill \in [status : {"none", "RUNNING", "over"}, b : Backups \cup {None}]
  BY Types DEF IInv
<1>2. CASE CutoverStep(w) /\ UNCHANGED recovery
  BY <1>1, <1>2, CutoverType, WorkerStays, WorkerMoves DEF recovery
<1>3. CASE beginCutover(w)
  <2>1. proc[w].j \in Jobs /\ proc[w].j \in Rollbacks /\ proc[w].b \in Backups \ Rds
    BY <1>3, Holding DEF beginCutover, At, IInv, JobInv, RowOK
  <2>2. CodeType'
    <3>1. CASE begin(w, proc[w].b)
      BY <1>1, <2>1, <3>1, BeginType, BackupsAssumption
    <3>2. CASE refuse(w)
      BY <1>1, <3>2, StepType DEF refuse, Phases, CodeType
    <3> QED BY <1>3, <3>1, <3>2 DEF beginCutover
  <2>3. touched' \subseteq Jobs /\ UNCHANGED <<set, bytes, point, job, drill, proc>>
    BY <1>1, <1>3, <2>1 DEF beginCutover
  <2> QED BY <1>1, <2>2, <2>3, WorkerStays, WorkerMoves
<1> QED BY <1>2, <1>3

LEMMA ApplyInv ==
  ASSUME IInv, NEW w \in Workers, applyRestore(w) \/ endCutover(w) PROVE IInv'
<1>1. CodeType /\ touched \subseteq Jobs
      /\ drill \in [status : {"none", "RUNNING", "over"}, b : Backups \cup {None}]
  BY Types DEF IInv
<1>2. proc[w].pc = "apply" /\ proc[w].j \in Jobs
  BY Holding DEF applyRestore, endCutover, At
<1>3. PICK seen \in {None, "ok", "bad", "error", "pending"} : Go(w, "applied", seen)
  BY DEF applyRestore, endCutover
<1>4. PICK p \in Local : /\ proc' = [proc EXCEPT ![w] = p]
                         /\ p.pc = "applied" /\ p.j = proc[w].j /\ p.b = proc[w].b
                         /\ p.todo = proc[w].todo
  BY <1>3, GoLocal DEF Points
<1>5. LocalOK(p, job, set)
  BY <1>2, <1>4, HeldLocal
<1>6. CodeType' /\ touched' \subseteq Jobs /\ UNCHANGED <<set, bytes, point, job, drill>>
  <2>1. CASE applyRestore(w)
    BY <1>1, <1>2, <2>1 DEF applyRestore, code, CodeType
  <2>2. CASE endCutover(w)
    <3>1. NoCut \in Cut
      BY DEF NoCut, Cut, Phases
    <3>2. CodeType'
      BY <1>1, <2>2, <3>1 DEF endCutover, leave, CodeType
    <3> QED BY <1>1, <2>2, <3>2 DEF endCutover
  <2> QED BY <2>1, <2>2
<1> QED BY <1>1, <1>4, <1>5, <1>6, WorkerMoves

(* The process stops: its workers forget, the rows and the files stay.     *)
LEMMA CrashInv == ASSUME IInv, Crash PROVE IInv'
<1>1. TypeOK'
  <2>1. CodeType'
    <3>1. NoCut \in Cut
      BY DEF NoCut, Cut, Phases
    <3>2. Busy \in BOOLEAN
      BY DEF Busy
    <3> QED BY <3>1, <3>2, Types DEF Crash, CodeType, IInv
  <2>2. proc' \in [Workers -> Local]
    BY FreeLocal DEF Crash
  <2> QED BY <2>1, <2>2, Types, TypesNext DEF Crash, IInv
<1>2. SetInv' /\ JobInv' /\ OneOpenRequest'
  BY SameKeeps, KeptRows DEF Crash
<1>3. ProcInv'
  <2> SUFFICES ASSUME NEW w \in Workers PROVE LocalOK(proc'[w], job', set')
    BY DEF ProcInv
  <2>1. proc'[w] = Free
    BY DEF Crash
  <2> QED BY <2>1, FreeLocal
<1> QED BY <1>1, <1>2, <1>3 DEF IInv
-----------------------------------------------------------------------------
(* --- verification, drills and retention -------------------------------- *)
LEMMA VerifyBackupInv ==
  ASSUME IInv, NEW b \in Backups, verifyBackup(b) PROVE IInv'
<1> DEFINE n == 1 + Cardinality({c \in Backups : set[c].rank > 0})
           r == [set[b] EXCEPT !.status = "VERIFIED", !.rank = n]
<1>1. /\ set \in SetType /\ bytes \in [Backups -> BOOLEAN] /\ job \in [Jobs -> Row]
      /\ point \in [Backups -> {"none", "AVAILABLE", "EXPIRED"}] /\ proc \in [Workers -> Local]
      /\ drill \in [status : {"none", "RUNNING", "over"}, b : Backups \cup {None}]
      /\ touched \subseteq Jobs /\ CodeType
  BY Types DEF IInv
<1>2. n \in Nat /\ n > 0
  <2>1. IsFiniteSet({c \in Backups : set[c].rank > 0})
    BY BackupsAssumption, FS_Subset
  <2>2. Cardinality({c \in Backups : set[c].rank > 0}) \in Nat
    BY <2>1, FS_CardinalityType
  <2> QED BY <2>2
<1>3. set' = [set EXCEPT ![b] = r] /\ UNCHANGED <<bytes, job, drill, proc, touched, code>>
      /\ point' = [point EXCEPT ![b] = IF b \in Rds THEN "none" ELSE "AVAILABLE"]
      /\ set[b].status = "COMPLETED"
  BY <1>1 DEF verifyBackup, SetType
<1> HIDE DEF n
<1>4. r \in [status : SetStatuses, kept : {"ACTIVE", "EXPIRED", "DELETED"}, rank : Nat]
      /\ r.kept = set[b].kept /\ r.rank = n /\ r.status = "VERIFIED"
  BY <1>1, <1>2 DEF SetType, SetStatuses
<1> HIDE DEF r
<1>5. \A c \in Backups : set'[c] = IF c = b THEN r ELSE set[c]
  BY <1>1, <1>3 DEF SetType
<1>6. set[b].rank = 0 /\ set[b].kept = "ACTIVE"
  BY <1>3 DEF IInv, SetInv, SetOK, Passed
<1>7. \A c \in Backups : set[c].rank \in Nat
  BY <1>1 DEF SetType
<1>8. \A c \in Backups : Passed(c, set) => Passed(c, set')
  BY <1>5, <1>6, <1>7 DEF Passed
<1>9. TypeOK'
  <2>1. set' \in SetType /\ CodeType'
    BY <1>1, <1>3, <1>4 DEF SetType, CodeType, code
  <2>2. point' \in [Backups -> {"none", "AVAILABLE", "EXPIRED"}]
    BY <1>1, <1>3
  <2> QED BY <1>1, <1>3, <2>1, <2>2, TypesNext
<1>10. \A c \in Backups : set'[c].kept = set[c].kept
  BY <1>4, <1>5
<1>11. SetInv'
  <2> SUFFICES ASSUME NEW c \in Backups PROVE SetOK(c)'
    BY DEF SetInv
  <2>1. SetOK(c)
    BY DEF IInv, SetInv
  <2>2. bytes'[c] = bytes[c] /\ (c # b => point'[c] = point[c])
        /\ (c = b => point'[c] = IF b \in Rds THEN "none" ELSE "AVAILABLE")
    BY <1>1, <1>3
  <2>3. CASE c = b
    BY <1>4, <1>5, <1>6, <1>10, <2>1, <2>2, <2>3 DEF SetOK
  <2>4. CASE c # b
    BY <1>5, <1>8, <2>1, <2>2, <2>4 DEF SetOK
  <2> QED BY <2>3, <2>4
<1>12. JobInv'
  <2> SUFFICES ASSUME NEW j \in Jobs PROVE RowOK(j, job'[j], set')
    BY DEF JobInv
  <2>1. RowOK(j, job[j], set) /\ job' = job
    BY <1>3 DEF IInv, JobInv
  <2> QED BY <1>10, <2>1 DEF RowOK, Opened, Open
<1>13. ProcInv'
  <2> SUFFICES ASSUME NEW w \in Workers PROVE LocalOK(proc'[w], job', set')
    BY DEF ProcInv
  <2>1. LocalOK(proc[w], job, set) /\ proc' = proc /\ job' = job /\ proc[w].todo \subseteq Backups
    BY <1>1, <1>3 DEF IInv, ProcInv, Local
  <2> QED BY <1>8, <1>10, <2>1 DEF LocalOK
<1>14. OneOpenRequest'
  BY <1>3 DEF IInv, OneOpenRequest, IsOpen
<1> QED BY <1>9, <1>11, <1>12, <1>13, <1>14 DEF IInv

(* The steps of drills, and those of retention that only read.             *)
LEMMA DrillInv ==
  ASSUME IInv, NEW w \in Workers,
         findLatestVerifiedBackup(w) \/ createDrillRun(w) \/ finishDrillRun(w)
  PROVE  IInv'
<1>1. CodeType /\ touched \subseteq Jobs /\ proc[w] \in Local
      /\ drill \in [status : {"none", "RUNNING", "over"}, b : Backups \cup {None}]
  BY Types DEF IInv
<1>2. /\ CodeType' /\ touched' \subseteq Jobs /\ UNCHANGED <<set, bytes, point, job>>
      /\ drill' \in [status : {"none", "RUNNING", "over"}, b : Backups \cup {None}]
  <2>1. UNCHANGED <<set, bytes, point, job, touched, code>>
    BY DEF findLatestVerifiedBackup, createDrillRun, finishDrillRun
  <2>2. drill' = drill \/ drill' = [status |-> "RUNNING", b |-> proc[w].b]
        \/ drill' = [status |-> "over", b |-> None]
    BY DEF findLatestVerifiedBackup, createDrillRun, finishDrillRun
  <2> QED BY <1>1, <2>1, <2>2 DEF CodeType, code, Local
<1>3. CASE finishDrillRun(w)
  BY <1>2, <1>3, FreeLocal, WorkerMoves DEF finishDrillRun, Return
<1>4. CASE createDrillRun(w)
  <2>1. CASE Return(w)
    BY <1>2, <2>1, FreeLocal, WorkerMoves DEF Return
  <2>2. CASE Goto(w, "drilling")
    <3>1. PICK p \in Local : /\ proc' = [proc EXCEPT ![w] = p]
                             /\ p.pc = "drilling" /\ p.todo = proc[w].todo
      BY <2>2, GotoLocal DEF Points
    <3>2. LocalOK(p, job, set)
      BY <3>1, WorkerStays DEF LocalOK
    <3> QED BY <1>2, <3>1, <3>2, WorkerMoves
  <2> QED BY <1>4, <2>1, <2>2 DEF createDrillRun
<1>5. CASE findLatestVerifiedBackup(w)
  <2>1. PICK p \in Local : proc' = [proc EXCEPT ![w] = p] /\ p.pc = "drill" /\ p.todo = {}
    <3>1. ASSUME NEW b \in Newest(DrillCandidates),
                 proc' = [proc EXCEPT ![w] = [Free EXCEPT !.pc = "drill", !.b = b]]
          PROVE  \E p \in Local : proc' = [proc EXCEPT ![w] = p] /\ p.pc = "drill" /\ p.todo = {}
      <4> DEFINE p == [Free EXCEPT !.pc = "drill", !.b = b]
      <4>1. b \in Backups
        BY BackupsAssumption DEF Newest, DrillCandidates
      <4>2. p \in Local /\ p.pc = "drill" /\ p.todo = {}
        BY <4>1 DEF Free, Local, Points
      <4> HIDE DEF p
      <4> QED BY <3>1, <4>2 DEF p
    <3>2. ASSUME proc' = [proc EXCEPT ![w] = [Free EXCEPT !.pc = "drill"]]
          PROVE  \E p \in Local : proc' = [proc EXCEPT ![w] = p] /\ p.pc = "drill" /\ p.todo = {}
      <4> DEFINE p == [Free EXCEPT !.pc = "drill"]
      <4>1. p \in Local /\ p.pc = "drill" /\ p.todo = {}
        BY DEF Free, Local, Points
      <4> HIDE DEF p
      <4> QED BY <3>2, <4>1 DEF p
    <3> QED BY <1>5, <3>1, <3>2 DEF findLatestVerifiedBackup
  <2>2. LocalOK(p, job, set)
    BY <2>1 DEF LocalOK
  <2> QED BY <1>2, <2>1, <2>2, WorkerMoves
<1> QED BY <1>3, <1>4, <1>5

(* Whatever is listed was verified before another backup that was read.    *)
LEMMA ListInv ==
  ASSUME IInv, NEW w \in Workers, listRetentionScope(w) PROVE IInv'
<1>1. PICK Scope \in SUBSET {b \in Backups : set[b].rank > 0 /\ set[b].kept # "DELETED" /\ ~ InUse(b)} :
        proc' = [proc EXCEPT ![w] = [Free EXCEPT !.pc = "retire",
                                                 !.todo = {b \in Scope : Behind(b, Scope) >= KeepLast}]]
  BY DEF listRetentionScope
<1> DEFINE T == {b \in Scope : Behind(b, Scope) >= KeepLast}
           p == [Free EXCEPT !.pc = "retire", !.todo = T]
<1>2. T \subseteq Backups /\ \A b \in T : Passed(b, set)
  <2> SUFFICES ASSUME NEW b \in T PROVE b \in Backups /\ Passed(b, set)
    OBVIOUS
  <2>1. {c \in Scope : set[c].rank > set[b].rank} # {}
    <3>1. Behind(b, Scope) # 0
      BY KeepLastAssumption
    <3> QED BY <3>1, FS_EmptySet DEF Behind
  <2> QED BY <2>1 DEF Passed
<1>3. proc' = [proc EXCEPT ![w] = p]
  BY <1>1
<1> HIDE DEF T
<1>4. p \in Local /\ p.pc = "retire" /\ p.todo = T
  BY <1>2 DEF Free, Local, Points
<1> HIDE DEF p
<1>5. LocalOK(p, job, set)
  BY <1>2, <1>4 DEF LocalOK
<1>6. CodeType' /\ touched' \subseteq Jobs /\ UNCHANGED <<set, bytes, point, job>>
      /\ drill' \in [status : {"none", "RUNNING", "over"}, b : Backups \cup {None}]
  BY Types DEF IInv, listRetentionScope, CodeType, code
<1> QED BY <1>3, <1>4, <1>5, <1>6, WorkerMoves

LEMMA PassOverInv ==
  ASSUME IInv, NEW w \in Workers, endRetention(w) \/ (\E b \in Backups : passOver(w, b))
  PROVE  IInv'
<1>1. CodeType' /\ touched' \subseteq Jobs /\ UNCHANGED <<set, bytes, point, job>>
      /\ drill' \in [status : {"none", "RUNNING", "over"}, b : Backups \cup {None}]
  BY Types DEF IInv, endRetention, passOver, CodeType, code
<1>2. CASE endRetention(w)
  BY <1>1, <1>2, FreeLocal, WorkerMoves DEF endRetention, Return
<1>3. CASE \E b \in Backups : passOver(w, b)
  <2> PICK b \in Backups : passOver(w, b)
    BY <1>3
  <2> DEFINE p == [proc[w] EXCEPT !.todo = @ \ {b}]
  <2>1. proc[w] \in Local /\ proc \in [Workers -> Local] /\ proc[w].pc = "retire"
    BY Types DEF IInv, passOver, At
  <2>2. p \in Local /\ p.pc = "retire" /\ p.todo \subseteq proc[w].todo
    BY <2>1 DEF Local
  <2>3. proc' = [proc EXCEPT ![w] = p]
    BY <2>1 DEF passOver
  <2> HIDE DEF p
  <2>4. LocalOK(p, job, set)
    BY <2>2, WorkerStays DEF LocalOK
  <2> QED BY <1>1, <2>2, <2>3, <2>4, WorkerMoves
<1> QED BY <1>2, <1>3

(* A backup that nothing uses and that another one has passed is taken out
   of ACTIVE, or goes on from there.                                       *)
LEMMA Retires ==
  ASSUME IInv, NEW w \in Workers, NEW b \in Backups, NEW k \in {"EXPIRED", "DELETED"},
         set' = [set EXCEPT ![b].kept = k],
         set[b].kept = "ACTIVE" => Passed(b, set) /\ ~ InUse(b),
         point' \in [Backups -> {"none", "AVAILABLE", "EXPIRED"}], point'[b] # "AVAILABLE",
         \A c \in Backups : c # b => point'[c] = point[c],
         UNCHANGED <<bytes, job, drill, touched, code>>,
         NEW p \in Local, LocalOK(p, job, set'), proc' = [proc EXCEPT ![w] = p]
  PROVE  IInv'
<1>1. /\ set \in SetType /\ bytes \in [Backups -> BOOLEAN] /\ job \in [Jobs -> Row]
      /\ proc \in [Workers -> Local]
      /\ drill \in [status : {"none", "RUNNING", "over"}, b : Backups \cup {None}]
      /\ touched \subseteq Jobs /\ CodeType
  BY Types DEF IInv
<1>2. set' \in SetType
      /\ \A c \in Backups : /\ set'[c].rank = set[c].rank /\ set'[c].status = set[c].status
                            /\ set'[c].kept = IF c = b THEN k ELSE set[c].kept
  BY <1>1 DEF SetType
<1>3. \A c \in Backups : Passed(c, set) => Passed(c, set')
  BY <1>2 DEF Passed
<1>4. TypeOK'
  <2>1. proc' \in [Workers -> Local] /\ CodeType'
    BY <1>1 DEF CodeType, code
  <2> QED BY <1>1, <1>2, <2>1, TypesNext
<1>5. SetInv'
  <2> SUFFICES ASSUME NEW c \in Backups PROVE SetOK(c)'
    BY DEF SetInv
  <2>1. SetOK(c)
    BY DEF IInv, SetInv
  <2>2. bytes'[c] = bytes[c] /\ (c # b => point'[c] = point[c])
    OBVIOUS
  <2>3. CASE c = b
    <3>1. Passed(c, set')
      <4>1. set[b].kept # "ACTIVE" => Passed(b, set)
        BY <2>1, <2>3 DEF SetOK
      <4>2. Passed(b, set)
        BY <4>1
      <4> QED BY <1>3, <2>3, <4>2
    <3>2. set'[c].kept # "ACTIVE" /\ point'[c] # "AVAILABLE"
      BY <1>2, <2>3
    <3>3. set'[c].status = "COMPLETED" => set'[c].rank = 0
      BY <1>2, <2>1, <2>3 DEF SetOK
    <3> QED BY <3>1, <3>2, <3>3 DEF SetOK
  <2>4. CASE c # b
    <3>1. /\ set'[c].rank = set[c].rank /\ set'[c].status = set[c].status
          /\ set'[c].kept = set[c].kept /\ point'[c] = point[c] /\ bytes'[c] = bytes[c]
      BY <1>2, <2>2, <2>4
    <3>2. set'[c].kept # "ACTIVE" => Passed(c, set')
      BY <1>3, <2>1, <3>1 DEF SetOK
    <3> QED BY <2>1, <3>1, <3>2 DEF SetOK
  <2> QED BY <2>3, <2>4
<1>6. JobInv'
  <2> SUFFICES ASSUME NEW j \in Jobs PROVE RowOK(j, job'[j], set')
    BY DEF JobInv
  <2>1. RowOK(j, job[j], set) /\ job' = job
    BY DEF IInv, JobInv
  <2>2. Opened(job[j]) => job[j].b # b /\ job[j].b \in Backups
    BY <2>1 DEF RowOK, Opened, Open, InUse, IsOpen
  <2> QED BY <1>2, <2>1, <2>2 DEF RowOK
<1>7. ProcInv'
  <2> SUFFICES ASSUME NEW v \in Workers PROVE LocalOK(proc'[v], job', set')
    BY DEF ProcInv
  <2>1. LocalOK(proc[v], job, set) /\ job' = job /\ proc[v].todo \subseteq Backups
        /\ proc'[v] = IF v = w THEN p ELSE proc[v]
    BY <1>1 DEF IInv, ProcInv, Local
  <2>2. proc[v].pc \in {"delete", "deleted"} =>
          proc[v].b \in Backups /\ set'[proc[v].b].kept # "ACTIVE"
    BY <1>2, <2>1 DEF LocalOK
  <2>3. \A c \in proc[v].todo : Passed(c, set')
    BY <1>3, <2>1 DEF LocalOK
  <2>4. LocalOK(proc[v], job, set')
    BY <2>1, <2>2, <2>3 DEF LocalOK
  <2> QED BY <2>1, <2>4
<1>8. OneOpenRequest'
  BY DEF IInv, OneOpenRequest, IsOpen
<1> QED BY <1>4, <1>5, <1>6, <1>7, <1>8 DEF IInv

LEMMA MarkBackupExpiredInv ==
  ASSUME IInv, NEW w \in Workers, NEW b \in Backups, markBackupExpired(w, b) PROVE IInv'
<1> DEFINE p == [proc[w] EXCEPT !.pc = "delete", !.b = b, !.todo = @ \ {b}]
<1>1. /\ proc[w] \in Local /\ proc \in [Workers -> Local] /\ set \in SetType
      /\ point \in [Backups -> {"none", "AVAILABLE", "EXPIRED"}]
      /\ b \in proc[w].todo /\ ~ InUse(b) /\ LocalOK(proc[w], job, set)
  BY Types, WorkerStays DEF IInv, markBackupExpired
<1>2. /\ set' = [set EXCEPT ![b].kept = "EXPIRED"]
      /\ point' = [point EXCEPT ![b] = IF @ = "AVAILABLE" THEN "EXPIRED" ELSE @]
      /\ proc' = [proc EXCEPT ![w] = p]
      /\ UNCHANGED <<bytes, job, drill, touched, code>>
  BY <1>1 DEF markBackupExpired
<1>3. p \in Local /\ p.pc = "delete" /\ p.b = b /\ p.todo \subseteq proc[w].todo
  BY <1>1 DEF Local, Points
<1> HIDE DEF p
<1>4. Passed(b, set) /\ proc[w].todo \subseteq Backups
  BY <1>1 DEF LocalOK, Local
<1>5. \A c \in Backups : set'[c].rank = set[c].rank /\ (c = b => set'[c].kept = "EXPIRED")
  BY <1>1, <1>2 DEF SetType
<1>6. \A c \in Backups : Passed(c, set) => Passed(c, set')
  BY <1>5 DEF Passed
<1>7. LocalOK(p, job, set')
  BY <1>1, <1>3, <1>4, <1>5, <1>6 DEF LocalOK
<1>8. /\ point' \in [Backups -> {"none", "AVAILABLE", "EXPIRED"}] /\ point'[b] # "AVAILABLE"
      /\ \A c \in Backups : c # b => point'[c] = point[c]
  BY <1>1, <1>2
<1> QED BY <1>1, <1>2, <1>3, <1>4, <1>7, <1>8, Retires

LEMMA DeleteInv ==
  ASSUME IInv, NEW w \in Workers, deleteArtifact(w) PROVE IInv'
<1> DEFINE b == proc[w].b
<1>1. /\ set \in SetType /\ bytes \in [Backups -> BOOLEAN] /\ job \in [Jobs -> Row]
      /\ point \in [Backups -> {"none", "AVAILABLE", "EXPIRED"}] /\ proc \in [Workers -> Local]
      /\ drill \in [status : {"none", "RUNNING", "over"}, b : Backups \cup {None}]
      /\ touched \subseteq Jobs /\ CodeType
  BY Types DEF IInv
<1>2. /\ b \in Backups /\ set[b].kept # "ACTIVE" /\ LocalOK(proc[w], job, set)
      /\ UNCHANGED <<set, point, job, drill, touched, code>>
      /\ bytes' = bytes \/ bytes' = [bytes EXCEPT ![b] = FALSE]
  BY WorkerStays DEF deleteArtifact, At, LocalOK
<1>3. PICK p \in Local : /\ proc' = [proc EXCEPT ![w] = p] /\ p.pc \in {"retire", "deleted"}
                         /\ p.b = b /\ p.todo = proc[w].todo
  BY GotoLocal DEF deleteArtifact, Points
<1>4. LocalOK(p, job, set)
  BY <1>2, <1>3 DEF LocalOK
<1> HIDE DEF b
<1>5. bytes' \in [Backups -> BOOLEAN] /\ \A c \in Backups : bytes'[c] = bytes[c] \/ c = b
  BY <1>1, <1>2
<1>6. TypeOK'
  <2>1. proc' \in [Workers -> Local] /\ CodeType'
    BY <1>1, <1>2, <1>3 DEF CodeType, code
  <2> QED BY <1>1, <1>2, <1>5, <2>1, TypesNext
<1>7. SetInv'
  <2> SUFFICES ASSUME NEW c \in Backups PROVE SetOK(c)'
    BY DEF SetInv
  <2> QED BY <1>2, <1>5 DEF IInv, SetInv, SetOK, Passed
<1>8. JobInv' /\ OneOpenRequest'
  BY <1>2 DEF IInv, JobInv, RowOK, OneOpenRequest, IsOpen
<1>9. ProcInv'
  <2> SUFFICES ASSUME NEW v \in Workers PROVE LocalOK(proc'[v], job', set')
    BY DEF ProcInv
  <2>1. LocalOK(proc[v], job, set) /\ job' = job /\ set' = set
        /\ proc'[v] = IF v = w THEN p ELSE proc[v]
    BY <1>1, <1>2, <1>3 DEF IInv, ProcInv
  <2> QED BY <1>4, <2>1
<1> QED BY <1>6, <1>7, <1>8, <1>9 DEF IInv

LEMMA MarkArtifactDeletedInv ==
  ASSUME IInv, NEW w \in Workers, markArtifactDeleted(w) PROVE IInv'
<1> DEFINE b == proc[w].b
<1>1. set \in SetType /\ point \in [Backups -> {"none", "AVAILABLE", "EXPIRED"}]
      /\ LocalOK(proc[w], job, set) /\ proc[w].todo \subseteq Backups
  BY Types, WorkerStays DEF IInv, Local
<1>2. b \in Backups /\ set[b].kept \in {"EXPIRED", "DELETED"}
  BY <1>1 DEF markArtifactDeleted, At, LocalOK, SetType
<1>3. set' = [set EXCEPT ![b].kept = "DELETED"]
      /\ UNCHANGED <<bytes, point, job, drill, touched, code>>
  BY <1>1, <1>2 DEF markArtifactDeleted, SetType
<1>4. PICK p \in Local : /\ proc' = [proc EXCEPT ![w] = p] /\ p.pc = "retire"
                         /\ p.todo = proc[w].todo
  BY GotoLocal DEF markArtifactDeleted, Points
<1>5. point[b] # "AVAILABLE"
  BY <1>2 DEF IInv, SetInv, SetOK
<1> HIDE DEF b
<1>6. \A c \in Backups : Passed(c, set) => Passed(c, set')
  <2>1. \A c \in Backups : set'[c].rank = set[c].rank
    BY <1>1, <1>2, <1>3 DEF SetType
  <2> QED BY <2>1 DEF Passed
<1>7. LocalOK(p, job, set')
  BY <1>1, <1>4, <1>6 DEF LocalOK
<1> QED BY <1>1, <1>2, <1>3, <1>4, <1>5, <1>7, Retires
-----------------------------------------------------------------------------
LEMMA StutterInv == ASSUME IInv, UNCHANGED vars PROVE IInv'
<1>1. TypeOK'
  BY Types, TypesNext DEF vars, IInv, CodeType
<1>2. SetInv' /\ JobInv' /\ OneOpenRequest'
  BY SameKeeps, KeptRows DEF vars
<1>3. ProcInv'
  BY DEF vars, IInv, ProcInv, LocalOK, Passed
<1> QED BY <1>1, <1>2, <1>3 DEF IInv

LEMMA WorkerStepInv ==
  ASSUME IInv, NEW w \in Workers,
         \/ JobStep(w) \/ KeepingStep(w)
         \/ \E j \in Restores : startDryRun(w, j) \/ startTargetVerification(w, j)
         \/ \E j \in Jobs : startExecution(w, j)
  PROVE  IInv'
<1>1. CASE JobStep(w)
  BY <1>1, RunRestoreDryRunInv, FinishDryRunInv, FailInv, ApplyInv, CodeStepInv, MarkPendingInv,
     FinishExecutionInv, VerifyPendingRestoreInv DEF JobStep
<1>2. CASE KeepingStep(w)
  BY <1>2, DrillInv, ListInv, PassOverInv, MarkBackupExpiredInv, DeleteInv, MarkArtifactDeletedInv
     DEF KeepingStep
<1> QED BY <1>1, <1>2, StartDryRunInv, StartTargetVerificationInv, StartExecutionInv

LEMMA StepInv == ASSUME IInv, Next PROVE IInv'
  BY WorkerStepInv, HandlerInv, VerifyBackupInv, RequestInv, CrashInv DEF Next, Jobs

(* The inductive invariant holds in every state.                           *)
THEOREM Invariance == Spec => []IInv
<1>1. Init => IInv
  BY InitInv
<1>2. IInv /\ [Next]_vars => IInv'
  BY StepInv, StutterInv
<1> QED BY <1>1, <1>2, PTL DEF Spec

(* Every variable has its type, for any backups, requests and workers.     *)
THEOREM TypeCorrect == Spec => []TypeOK
<1>1. IInv => TypeOK
  BY DEF IInv
<1> QED BY <1>1, Invariance, PTL

(* Retention never takes what an open restore or rollback needs.           *)
THEOREM RequestsKeepBytes == Spec => []OpenRequestHasBytes
<1>1. IInv => OpenRequestHasBytes
  <2> SUFFICES ASSUME IInv, NEW j \in Jobs, IsOpen(j)
               PROVE  bytes[job[j].b] /\ set[job[j].b].kept = "ACTIVE"
    BY DEF OpenRequestHasBytes
  <2>1. job[j].b \in Backups /\ set[job[j].b].kept = "ACTIVE"
    BY DEF IInv, JobInv, RowOK, Opened, Open, IsOpen
  <2> QED BY <2>1 DEF IInv, SetInv, SetOK
<1> QED BY <1>1, Invariance, PTL

(* Retention leaves the newest verified backup, whatever it read and when. *)
THEOREM NewestStays == Spec => []NewestBackupKept
<1>1. IInv => NewestBackupKept
  <2> SUFFICES ASSUME IInv, NEW b \in Backups,
                      \A c \in Backups : set[c].rank <= set[b].rank
               PROVE  bytes[b] /\ set[b].kept = "ACTIVE"
    BY DEF NewestBackupKept
  <2>1. \A c \in Backups : set[c].rank \in Nat
    BY Types DEF IInv, SetType
  <2>2. ~ Passed(b, set)
    BY <2>1 DEF Passed
  <2> QED BY <2>2 DEF IInv, SetInv, SetOK
<1> QED BY <1>1, Invariance, PTL

(* A backup has one open restore for each module, or none, it is asked for
   with, and the module one open rollback.                                  *)
THEOREM OneAtATime == Spec => []OneOpenRequest
<1>1. IInv => OneOpenRequest
  BY DEF IInv
<1> QED BY <1>1, Invariance, PTL

(* The reaper finds every request that is running.                         *)
THEOREM RunningIsLeased == Spec => []RunningJobIsLeased
<1>1. IInv => RunningJobIsLeased
  BY DEF IInv, JobInv, RowOK, Running, RunningJobIsLeased
<1> QED BY <1>1, Invariance, PTL
-----------------------------------------------------------------------------
(* --- the module as a whole ----------------------------------------------- *)
(* One cutover at a time.  While c is under way, and as long as none was cut
   off, the transaction directory s holds a whole version to go back to, and
   the files a that c has dealt with are those of the version it installs.   *)
Cutting(c) == c.phase \notin {"idle", "done", "failed"}

Sound(c, s, a) ==
  /\ c.to \in Versions /\ Carries[c.to] \subseteq c.managed
  /\ \E v \in AllVersions : s = Tree(v)
  /\ \A f \in Files \ c.managed : a[f] = None /\ s[f] = None
  /\ c.phase = "clear" =>
       /\ c.hand # None => c.hand \in Carries[c.to]
       /\ \A f \in c.managed \ (c.left \cup {c.hand}) : a[f] = Tree(c.to)[f]
  /\ c.phase \in {"verify", "discard"} => a = Tree(c.to)
  /\ c.phase = "copy" => a = Nothing

CutInv ==
  /\ \A v, w \in Workers : Cutting(cut[v]) /\ Cutting(cut[w]) => v = w
  /\ ~ torn => /\ Busy \/ Whole
               /\ \A w \in Workers : Cutting(cut[w]) => Sound(cut[w], saved[w], active)

LEMMA TreeTypes ==
  /\ \A v \in AllVersions : Tree(v) \in Trees /\ v # None
  /\ Nothing \in Trees
<1>1. ASSUME NEW v \in AllVersions PROVE v # None /\ Tree(v) \in Trees
  BY BackupsAssumption DEF AllVersions, Tree, Trees
<1> QED BY <1>1 DEF Nothing, Trees

LEMMA CutStart == Init => CutInv
<1> SUFFICES ASSUME Init PROVE CutInv
  OBVIOUS
<1>1. \A w \in Workers : ~ Cutting(cut[w])
  BY DEF Init, CutoverInit, NoCut, Cutting
<1>2. Whole
  BY DEF Init, CutoverInit, Whole, AllVersions
<1> QED BY <1>1, <1>2 DEF CutInv

(* A step that leaves the files, or one of the worker that runs a cutover. *)
LEMMA FilesStay ==
  ASSUME CutInv, UNCHANGED code PROVE CutInv'
  BY DEF CutInv, code, Busy, Whole, Cutting

LEMMA CutMoves ==
  ASSUME CodeType, CutInv, NEW w \in Workers, Cutting(cut[w]), torn' \in BOOLEAN,
         NEW c, cut' = [cut EXCEPT ![w] = c],
         ~ torn' => ~ torn,
         ~ torn' /\ Sound(cut[w], saved[w], active) =>
           IF Cutting(c) THEN Sound(c, saved'[w], active')
           ELSE \E v \in AllVersions : active' = Tree(v)
  PROVE  CutInv'
<1>1. cut'[w] = c /\ \A v \in Workers : v # w => cut'[v] = cut[v]
  BY CutRow
<1>2. \A v \in Workers : v # w => ~ Cutting(cut[v])
  BY DEF CutInv
<1>3. \A v \in Workers : v # w => ~ Cutting(cut'[v])
  BY <1>1, <1>2
<1>4. ASSUME ~ torn'
      PROVE  /\ Busy' \/ Whole'
             /\ \A v \in Workers : Cutting(cut'[v]) => Sound(cut'[v], saved'[v], active')
  <2>1. Sound(cut[w], saved[w], active)
    BY <1>4 DEF CutInv
  <2>2. CASE Cutting(c)
    <3>1. Sound(c, saved'[w], active') /\ Busy'
      BY <1>1, <1>4, <2>1, <2>2 DEF Busy, Cutting
    <3> QED BY <1>1, <1>3, <3>1
  <2>3. CASE ~ Cutting(c)
    <3>1. Whole'
      BY <1>4, <2>1, <2>3 DEF Whole
    <3> QED BY <1>1, <1>3, <2>3, <3>1
  <2> QED BY <2>2, <2>3
<1> HIDE DEF Cutting
<1>5. \A u, v \in Workers : Cutting(cut'[u]) /\ Cutting(cut'[v]) => u = v
  BY <1>3
<1> QED BY <1>4, <1>5 DEF CutInv, Cutting

(* The same for a step that only changes the phase.                        *)
LEMMA PhaseMoves ==
  ASSUME CodeType, CutInv, NEW w \in Workers, Cutting(cut[w]), torn' \in BOOLEAN,
         NEW ph \in Phases, Step(w, ph),
         ~ torn' => ~ torn,
         ~ torn' /\ Sound(cut[w], saved[w], active) =>
           IF ph \in {"done", "failed"} THEN \E v \in AllVersions : active' = Tree(v)
           ELSE ph # "idle" /\ Sound([cut[w] EXCEPT !.phase = ph], saved'[w], active')
  PROVE  CutInv'
<1> DEFINE c == [cut[w] EXCEPT !.phase = ph]
<1>1. c.phase = ph /\ cut' = [cut EXCEPT ![w] = c]
  BY CutRow DEF Step, Cut
<1> HIDE DEF c
<1>2. ~ torn' /\ Sound(cut[w], saved[w], active) =>
        IF Cutting(c) THEN Sound(c, saved'[w], active')
        ELSE \E v \in AllVersions : active' = Tree(v)
  BY <1>1 DEF Cutting, c
<1> QED BY <1>1, <1>2, CutMoves

LEMMA PhaseRow ==
  ASSUME NEW c \in Cut, NEW ph \in Phases
  PROVE  LET d == [c EXCEPT !.phase = ph] IN
         d.phase = ph /\ d.to = c.to /\ d.managed = c.managed /\ d.left = c.left /\ d.hand = c.hand
  BY DEF Cut

LEMMA CutoverKeeps ==
  ASSUME IInv, CutInv, NEW w \in Workers, CutoverStep(w)
  PROVE  CutInv'
<1> DEFINE c == cut[w]
<1>0. CodeType /\ CodeType' /\ torn \in BOOLEAN
  BY Types, CutoverType DEF IInv, CodeType
<1>1. c \in Cut /\ saved[w] \in Trees /\ active \in Trees /\ torn' \in BOOLEAN
  BY <1>0, CutRow DEF CodeType
<1>2. CASE \E f \in Files : removeFile(w, f)
  <2> PICK f \in Files : removeFile(w, f)
    BY <1>2
  <2> DEFINE h == IF f \in Carries[c.to] THEN f ELSE None
             d == [c EXCEPT !.left = c.left \ {f}, !.hand = h]
  <2>1. /\ d.phase = "clear" /\ d.to = c.to /\ d.managed = c.managed
        /\ d.left = c.left \ {f} /\ d.hand = h
        /\ c.phase = "clear" /\ c.hand = None /\ f \in c.left
    BY <1>1 DEF removeFile, In, Cut
  <2>2. /\ cut' = [cut EXCEPT ![w] = d] /\ UNCHANGED <<saved, torn>>
        /\ active' = [active EXCEPT ![f] = None]
    BY <1>0, CutRow DEF removeFile
  <2>3. \A g \in Files : active'[g] = IF g = f THEN None ELSE active[g]
    BY <1>1, <2>2 DEF Trees
  <2>4. ASSUME Sound(c, saved[w], active) PROVE Sound(d, saved[w], active')
    <3>1. \A g \in Files \ d.managed : active'[g] = None /\ saved[w][g] = None
      BY <2>1, <2>3, <2>4 DEF Sound
    <3>2. d.hand # None => d.hand \in Carries[d.to]
      BY <2>1
    <3>3. ASSUME NEW g \in d.managed \ (d.left \cup {d.hand}) PROVE active'[g] = Tree(d.to)[g]
      <4>1. g \in Files /\ g # None
        BY <1>1, <2>1, FilesAssumption DEF Cut
      <4>2. CASE g = f
        BY <2>1, <2>3, <4>1, <4>2 DEF Tree
      <4>3. CASE g # f
        BY <2>1, <2>3, <2>4, <4>1, <4>3 DEF Sound
      <4> QED BY <4>2, <4>3
    <3> HIDE DEF d
    <3> QED BY <2>1, <2>4, <3>1, <3>2, <3>3 DEF Sound
  <2>5. Cutting(c) /\ Cutting(d)
    BY <2>1 DEF Cutting
  <2> HIDE DEF d
  <2> QED BY <1>0, <1>1, <2>2, <2>4, <2>5, CutMoves
<1>3. CASE renameFile(w)
  <2> DEFINE d == [c EXCEPT !.hand = None]
  <2>1. /\ d.phase = "clear" /\ d.to = c.to /\ d.managed = c.managed
        /\ d.left = c.left /\ d.hand = None
        /\ c.phase = "clear" /\ c.hand # None
    BY <1>1, <1>3 DEF renameFile, In, Cut
  <2>2. /\ cut' = [cut EXCEPT ![w] = d] /\ UNCHANGED <<saved, torn>>
        /\ active' = [active EXCEPT ![c.hand] = c.to]
    BY <1>0, <1>3, CutRow DEF renameFile
  <2>3. \A g \in Files : active'[g] = IF g = c.hand THEN c.to ELSE active[g]
    BY <1>1, <2>2 DEF Trees
  <2>4. ASSUME Sound(c, saved[w], active) PROVE Sound(d, saved[w], active')
    <3>1. c.hand \in Carries[c.to] /\ c.hand \in c.managed
      BY <2>1, <2>4 DEF Sound
    <3>2. \A g \in Files \ d.managed : active'[g] = None /\ saved[w][g] = None
      BY <2>1, <2>3, <2>4, <3>1 DEF Sound
    <3>3. ASSUME NEW g \in d.managed \ (d.left \cup {d.hand}) PROVE active'[g] = Tree(d.to)[g]
      <4>1. g \in Files
        BY <1>1, <2>1 DEF Cut
      <4>2. CASE g = c.hand
        BY <2>1, <2>3, <3>1, <4>1, <4>2 DEF Tree
      <4>3. CASE g # c.hand
        BY <2>1, <2>3, <2>4, <4>1, <4>3 DEF Sound
      <4> QED BY <4>2, <4>3
    <3> HIDE DEF d
    <3> QED BY <2>1, <2>4, <3>2, <3>3 DEF Sound
  <2>5. Cutting(c) /\ Cutting(d)
    BY <2>1 DEF Cutting
  <2> HIDE DEF d
  <2> QED BY <1>0, <1>1, <2>2, <2>4, <2>5, CutMoves
<1>4. CASE allApplied(w)
  <2>1. /\ c.phase = "clear" /\ c.hand = None /\ c.left = {} /\ Step(w, "verify")
        /\ "verify" \in Phases /\ UNCHANGED <<active, saved, torn>>
    BY <1>4 DEF allApplied, In, Phases
  <2>2. ASSUME Sound(c, saved[w], active)
        PROVE  Sound([c EXCEPT !.phase = "verify"], saved[w], active)
    <3>1. c.to \in AllVersions
      BY <2>2 DEF Sound, AllVersions
    <3>2. ASSUME NEW f \in Files PROVE active[f] = Tree(c.to)[f]
      <4>1. CASE f \in c.managed
        BY <2>1, <2>2, <4>1, FilesAssumption DEF Sound
      <4>2. CASE f \notin c.managed
        BY <2>2, <4>2 DEF Sound, Tree
      <4> QED BY <4>1, <4>2
    <3>3. active = Tree(c.to)
      BY <1>1, <3>1, <3>2, TreeTypes DEF Trees
    <3> QED BY <1>1, <2>1, <2>2, <3>3, PhaseRow DEF Sound
  <2>3. Cutting(c)
    BY <2>1 DEF Cutting
  <2> QED BY <1>0, <1>1, <2>1, <2>2, <2>3, PhaseMoves
<1>5. CASE verifyApplied(w) \/ stepFails(w)
  <2>1. PICK ph \in {"discard", "undo"} :
          /\ Step(w, ph) /\ UNCHANGED <<active, saved, torn>>
          /\ c.phase \in {"clear", "verify"} /\ (ph = "discard" => c.phase = "verify")
    BY <1>5 DEF verifyApplied, stepFails, In
  <2>2. ph \in Phases /\ Cutting(c)
    BY <2>1 DEF Phases, Cutting
  <2>3. ASSUME Sound(c, saved[w], active)
        PROVE  Sound([c EXCEPT !.phase = ph], saved[w], active)
    BY <1>1, <2>1, <2>2, <2>3, PhaseRow DEF Sound
  <2> QED BY <1>0, <1>1, <2>1, <2>2, <2>3, PhaseMoves
<1>6. CASE discardSaved(w)
  <2>1. /\ c.phase = "discard" /\ Step(w, "done") /\ "done" \in Phases
        /\ UNCHANGED <<active, torn>>
    BY <1>6 DEF discardSaved, In, Phases
  <2>2. Sound(c, saved[w], active) => \E v \in AllVersions : active' = Tree(v)
    BY <2>1 DEF Sound, AllVersions
  <2>3. Cutting(c)
    BY <2>1 DEF Cutting
  <2> QED BY <1>0, <1>1, <2>1, <2>2, <2>3, PhaseMoves
<1>7. CASE discardFails(w) \/ undoFails(w)
  <2>1. PICK ph \in {"undo", "failed"} : Step(w, ph)
    BY <1>7 DEF discardFails, undoFails
  <2>2. torn' /\ Cutting(c) /\ ph \in Phases
    BY <1>7, <2>1 DEF discardFails, undoFails, In, Cutting, Phases
  <2> QED BY <1>0, <1>1, <2>1, <2>2, PhaseMoves
<1>8. CASE undoRemove(w)
  <2>1. /\ c.phase = "undo" /\ Step(w, "copy") /\ "copy" \in Phases /\ UNCHANGED <<saved, torn>>
        /\ active' = [f \in Files |-> IF f \in c.managed THEN None ELSE active[f]]
    BY <1>8 DEF undoRemove, In, Phases
  <2>2. ASSUME Sound(c, saved[w], active)
        PROVE  Sound([c EXCEPT !.phase = "copy"], saved[w], active')
    <3>1. active' = Nothing
      BY <2>1, <2>2 DEF Sound, Nothing
    <3>2. \A f \in Files : active'[f] = None
      BY <3>1 DEF Nothing
    <3> QED BY <1>1, <2>1, <2>2, <3>1, <3>2, PhaseRow DEF Sound
  <2>3. Cutting(c)
    BY <2>1 DEF Cutting
  <2> QED BY <1>0, <1>1, <2>1, <2>2, <2>3, PhaseMoves
<1>9. CASE undoCopy(w)
  <2>1. /\ c.phase = "copy" /\ Step(w, "failed") /\ "failed" \in Phases /\ UNCHANGED torn
        /\ active' = [f \in Files |-> IF saved[w][f] # None THEN saved[w][f] ELSE active[f]]
    BY <1>9 DEF undoCopy, In, Phases
  <2>2. ASSUME Sound(c, saved[w], active) PROVE \E v \in AllVersions : active' = Tree(v)
    <3>1. active = Nothing /\ \E v \in AllVersions : saved[w] = Tree(v)
      BY <2>1, <2>2 DEF Sound
    <3>2. active' = saved[w]
      BY <1>1, <2>1, <3>1 DEF Nothing, Trees
    <3> QED BY <3>1, <3>2
  <2>3. Cutting(c)
    BY <2>1 DEF Cutting
  <2> QED BY <1>0, <1>1, <2>1, <2>2, <2>3, PhaseMoves
<1> QED BY <1>2, <1>3, <1>4, <1>5, <1>6, <1>7, <1>8, <1>9 DEF CutoverStep

(* What begins a cutover finds a whole version, and saves it.              *)
LEMMA BeginKeeps ==
  ASSUME IInv, CutInv, NEW w \in Workers, beginCutover(w)
  PROVE  CutInv'
<1>0. CodeType
  BY Types DEF IInv
<1>1. active \in Trees /\ cut \in [Workers -> Cut]
  BY <1>0 DEF CodeType
<1>2. CASE begin(w, proc[w].b)
  <2> DEFINE v == proc[w].b
             current == {f \in Files : active[f] # None}
             c == [phase |-> "clear", to |-> v, hand |-> None,
                   managed |-> current \cup Carries[v], left |-> current \cup Carries[v]]
  <2>1. v \in Versions
    <3>1. proc[w].j \in Jobs /\ proc[w].j \in Rollbacks /\ proc[w].b \in Backups \ Rds
      BY Holding DEF beginCutover, At, IInv, JobInv, RowOK
    <3> QED BY <3>1, BackupsAssumption
  <2>2. ~ Busy /\ cut' = [cut EXCEPT ![w] = c] /\ saved' = [saved EXCEPT ![w] = active]
        /\ UNCHANGED <<active, torn>>
    BY <1>2 DEF begin
  <2>3. saved'[w] = active /\ cut'[w] = c
        /\ \A u \in Workers : u # w => cut'[u] = cut[u] /\ ~ Cutting(cut'[u])
    BY <1>0, <2>2 DEF CodeType, Busy, Cutting
  <2>4. Cutting(c)
    BY DEF Cutting
  <2>5. ASSUME ~ torn PROVE Sound(c, active, active)
    <3>1. \E u \in AllVersions : active = Tree(u)
      BY <2>2, <2>5 DEF CutInv, Whole
    <3> QED BY <2>1, <3>1, CarriesAssumption DEF Sound
  <2> HIDE DEF c
  <2>6. Busy'
    BY <2>3, <2>4 DEF Busy, Cutting
  <2> QED BY <2>2, <2>3, <2>5, <2>6 DEF CutInv
<1>3. CASE refuse(w)
  <2>1. ~ Cutting(cut[w])
    BY DEF beginCutover, In, Cutting
  <2>2. /\ \A u \in Workers : Cutting(cut'[u]) <=> Cutting(cut[u])
        /\ \A u \in Workers : Cutting(cut[u]) => cut'[u] = cut[u]
        /\ UNCHANGED <<active, saved, torn>>
    BY <1>1, <1>3, <2>1 DEF refuse, Step, Cutting, Cut
  <2>3. Busy' <=> Busy
    BY <2>2 DEF Busy, Cutting
  <2> QED BY <2>2, <2>3 DEF CutInv, Whole
<1> QED BY <1>2, <1>3 DEF beginCutover

LEMMA EndKeeps ==
  ASSUME IInv, CutInv, NEW w \in Workers, endCutover(w)
  PROVE  CutInv'
<1>1. cut \in [Workers -> Cut]
  BY Types DEF IInv, CodeType
<1>2. ~ Cutting(cut[w]) /\ ~ Cutting(NoCut)
  BY DEF endCutover, Cutting, NoCut
<1>3. cut' = [cut EXCEPT ![w] = NoCut] /\ UNCHANGED <<active, saved, torn>>
  BY DEF endCutover, leave
<1>4. /\ \A u \in Workers : Cutting(cut'[u]) <=> Cutting(cut[u])
      /\ \A u \in Workers : Cutting(cut[u]) => cut'[u] = cut[u]
  BY <1>1, <1>2, <1>3
<1>5. Busy' <=> Busy
  BY <1>4 DEF Busy, Cutting
<1> QED BY <1>3, <1>4, <1>5 DEF CutInv, Whole

(* A process that stops in a cutover leaves the module torn.               *)
LEMMA CrashKeeps ==
  ASSUME IInv, CutInv, Crash PROVE CutInv'
<1>1. \A w \in Workers : ~ Cutting(cut'[w])
  BY DEF Crash, Cutting, NoCut
<1>2. torn' = (torn \/ Busy) /\ UNCHANGED active
  BY DEF Crash
<1>3. ~ torn' => Whole'
  BY <1>2 DEF CutInv, Whole
<1> QED BY <1>1, <1>3 DEF CutInv

(* Only a cutover, its beginning and its end, and a crash touch the files. *)
LEMMA CodeSteps ==
  ASSUME [Next]_vars
  PROVE  \/ UNCHANGED code \/ Crash
         \/ \E w \in Workers : CutoverStep(w) \/ beginCutover(w) \/ endCutover(w)
<1>1. ASSUME NEW w \in Workers,
             \/ runRestoreDryRun(w) \/ finishDryRun(w) \/ failDryRun(w) \/ applyRestore(w)
             \/ markPending(w) \/ finishExecution(w) \/ failExecution(w)
             \/ verifyPendingRestore(w)
      PROVE  UNCHANGED code
  BY <1>1 DEF runRestoreDryRun, finishDryRun, failDryRun, applyRestore, markPending,
     finishExecution, failExecution, verifyPendingRestore
<1>2. ASSUME NEW w \in Workers,
             \/ KeepingStep(w)
             \/ \E j \in Restores : startDryRun(w, j) \/ startTargetVerification(w, j)
             \/ \E j \in Jobs : startExecution(w, j)
      PROVE  UNCHANGED code
  BY <1>2 DEF KeepingStep, findLatestVerifiedBackup, createDrillRun, finishDrillRun,
     listRetentionScope, deleteArtifact, markArtifactDeleted, endRetention, markBackupExpired,
     passOver, startDryRun, startTargetVerification, startExecution
<1>3. ASSUME \/ \E j \in Jobs : approve(j) \/ reject(j) \/ cancel(j) \/ recoverExpiredOperations(j)
             \/ \E b \in Backups : \/ verifyBackup(b)
                                   \/ \E j \in Restores, m \in Modules \cup {None} : requestRestore(j, b, m)
                                   \/ \E j \in Rollbacks : requestRollback(j, b)
             \/ UNCHANGED vars
      PROVE  UNCHANGED code
  BY <1>3 DEF approve, reject, cancel, recoverExpiredOperations, verifyBackup, requestRestore,
     requestRollback, code, vars
<1> QED BY <1>1, <1>2, <1>3 DEF Next, JobStep

LEMMA CutStep ==
  ASSUME IInv, CutInv, [Next]_vars PROVE CutInv'
  BY CodeSteps, FilesStay, CutoverKeeps, BeginKeeps, EndKeeps, CrashKeeps

(* Between two cutovers the module is one version as a whole, whatever step
   of a cutover failed, unless one was cut off or could not be undone.     *)
THEOREM ModuleStaysWhole == Spec => []ModuleIsWhole
<1>1. Init => IInv /\ CutInv
  BY InitInv, CutStart
<1>2. IInv /\ CutInv /\ [Next]_vars => (IInv /\ CutInv)'
  BY StepInv, StutterInv, CutStep
<1>3. CutInv => ModuleIsWhole
  BY DEF CutInv, ModuleIsWhole
<1> QED BY <1>1, <1>2, <1>3, PTL DEF Spec
-----------------------------------------------------------------------------
(* --- a cutover is atomic -------------------------------------------------- *)
(* Whoever runs a cutover executes a rollback, and installs the version that
   this rollback names; it does nothing else until the cutover has ended.    *)
HeldInv ==
  \A w \in Workers :
    Cutting(cut[w]) => At(w, "apply") /\ proc[w].j \in Rollbacks /\ cut[w].to = proc[w].b

LEMMA HeldStart == Init => HeldInv
  BY DEF Init, CutoverInit, NoCut, Cutting, HeldInv

(* A step of a worker that is at something else.                           *)
LEMMA Elsewhere ==
  ASSUME HeldInv, NEW w \in Workers, ~ At(w, "apply") \/ proc[w].j \in Restores,
         UNCHANGED code, \A v \in Workers : v # w => proc'[v] = proc[v]
  PROVE  HeldInv'
<1>1. ~ Cutting(cut[w])
  BY RequestsAssumption DEF HeldInv
<1> QED BY <1>1 DEF HeldInv, At, code, Cutting

LEMMA Undisturbed ==
  ASSUME HeldInv, UNCHANGED <<cut, proc>> PROVE HeldInv'
  BY DEF HeldInv, At, Cutting

LEMMA CutoverHeld ==
  ASSUME IInv, HeldInv, NEW w \in Workers, CutoverStep(w), UNCHANGED proc
  PROVE  HeldInv'
<1>1. CodeType /\ cut[w] \in Cut
  BY Types, CutRow DEF IInv
<1>2. Cutting(cut[w])
  BY DEF CutoverStep, removeFile, renameFile, allApplied, verifyApplied, stepFails, discardSaved,
     discardFails, undoRemove, undoCopy, undoFails, In, Cutting
<1>3. PICK d \in Cut : cut' = [cut EXCEPT ![w] = d] /\ d.to = cut[w].to
  <2>1. ASSUME NEW f \in Files, removeFile(w, f)
        PROVE  \E d \in Cut : cut' = [cut EXCEPT ![w] = d] /\ d.to = cut[w].to
    <3> DEFINE h == IF f \in Carries[cut[w].to] THEN f ELSE None
               d == [cut[w] EXCEPT !.left = cut[w].left \ {f}, !.hand = h]
    <3>1. d \in Cut /\ d.to = cut[w].to
      BY <1>1 DEF Cut
    <3>2. cut' = [cut EXCEPT ![w] = d]
      BY <1>1, <2>1, CutRow DEF removeFile
    <3> HIDE DEF d
    <3> QED BY <3>1, <3>2
  <2>2. ASSUME renameFile(w)
        PROVE  \E d \in Cut : cut' = [cut EXCEPT ![w] = d] /\ d.to = cut[w].to
    <3> DEFINE d == [cut[w] EXCEPT !.hand = None]
    <3>1. d \in Cut /\ d.to = cut[w].to
      BY <1>1 DEF Cut
    <3>2. cut' = [cut EXCEPT ![w] = d]
      BY <1>1, <2>2, CutRow DEF renameFile
    <3> HIDE DEF d
    <3> QED BY <3>1, <3>2
  <2>3. ASSUME NEW ph \in Phases, Step(w, ph)
        PROVE  \E d \in Cut : cut' = [cut EXCEPT ![w] = d] /\ d.to = cut[w].to
    <3> DEFINE d == [cut[w] EXCEPT !.phase = ph]
    <3>1. d \in Cut /\ d.to = cut[w].to
      BY <1>1 DEF Cut
    <3>2. cut' = [cut EXCEPT ![w] = d]
      BY <1>1, <2>3, CutRow DEF Step
    <3> HIDE DEF d
    <3> QED BY <3>1, <3>2
  <2>4. ASSUME \/ allApplied(w) \/ verifyApplied(w) \/ stepFails(w) \/ discardSaved(w)
               \/ discardFails(w) \/ undoRemove(w) \/ undoCopy(w) \/ undoFails(w)
        PROVE  \E ph \in Phases : Step(w, ph)
    BY <2>4 DEF allApplied, verifyApplied, stepFails, discardSaved, discardFails, undoRemove,
       undoCopy, undoFails, Phases
  <2> QED BY <2>1, <2>2, <2>3, <2>4 DEF CutoverStep
<1>4. cut'[w] = d /\ \A v \in Workers : v # w => cut'[v] = cut[v]
  BY <1>1, <1>3, CutRow
<1> QED BY <1>2, <1>3, <1>4 DEF HeldInv, At, Cutting

LEMMA BeginHeld ==
  ASSUME IInv, HeldInv, NEW w \in Workers, beginCutover(w)
  PROVE  HeldInv'
<1>1. CodeType /\ cut \in [Workers -> Cut]
  BY Types, CutRow DEF IInv, CodeType
<1>2. UNCHANGED proc /\ At(w, "apply") /\ proc[w].j \in Rollbacks
  BY DEF beginCutover
<1>3. CASE begin(w, proc[w].b)
  <2>1. cut'[w].to = proc[w].b /\ \A v \in Workers : v # w => cut'[v] = cut[v]
    BY <1>1, <1>3 DEF begin
  <2> QED BY <1>2, <2>1 DEF HeldInv, At, Cutting
<1>4. CASE refuse(w)
  <2>1. cut'[w].phase = "failed" /\ \A v \in Workers : v # w => cut'[v] = cut[v]
    BY <1>1, <1>4 DEF refuse, Step, Cut
  <2> QED BY <1>2, <2>1 DEF HeldInv, At, Cutting
<1> QED BY <1>3, <1>4 DEF beginCutover

LEMMA EndHeld ==
  ASSUME IInv, HeldInv, NEW w \in Workers, endCutover(w)
  PROVE  HeldInv'
<1>1. cut \in [Workers -> Cut] /\ proc \in [Workers -> Local]
  BY Types DEF IInv, CodeType
<1>2. cut'[w] = NoCut /\ \A v \in Workers : v # w => cut'[v] = cut[v] /\ proc'[v] = proc[v]
  BY <1>1 DEF endCutover, leave, Go
<1> QED BY <1>2 DEF HeldInv, At, Cutting, NoCut

LEMMA HeldStep ==
  ASSUME IInv, HeldInv, [Next]_vars PROVE HeldInv'
<1>0. proc \in [Workers -> Local]
  BY Types DEF IInv
<1>1. ASSUME NEW w \in Workers, JobStep(w) PROVE HeldInv'
  <2>1. ASSUME \/ runRestoreDryRun(w) \/ finishDryRun(w) \/ failDryRun(w) \/ applyRestore(w)
               \/ markPending(w) \/ finishExecution(w) \/ failExecution(w)
               \/ verifyPendingRestore(w)
        PROVE  /\ ~ At(w, "apply") \/ proc[w].j \in Restores
               /\ UNCHANGED code /\ \A v \in Workers : v # w => proc'[v] = proc[v]
    BY <1>0, <2>1 DEF runRestoreDryRun, finishDryRun, failDryRun, applyRestore, markPending,
       finishExecution, failExecution, verifyPendingRestore, At, Go, Goto, Return
  <2> QED BY <1>1, <2>1, Elsewhere, CutoverHeld, BeginHeld, EndHeld DEF JobStep, recovery
<1>2. ASSUME NEW w \in Workers,
             \/ KeepingStep(w)
             \/ \E j \in Restores : startDryRun(w, j) \/ startTargetVerification(w, j)
             \/ \E j \in Jobs : startExecution(w, j)
      PROVE  HeldInv'
  <2>1. ~ At(w, "apply") /\ UNCHANGED code /\ \A v \in Workers : v # w => proc'[v] = proc[v]
    BY <1>0, <1>2 DEF KeepingStep, findLatestVerifiedBackup, createDrillRun, finishDrillRun,
       listRetentionScope, deleteArtifact, markArtifactDeleted, endRetention, markBackupExpired,
       passOver, startDryRun, startTargetVerification, startExecution, At, Goto, Return
  <2> QED BY <2>1, Elsewhere
<1>3. ASSUME \/ \E j \in Jobs : approve(j) \/ reject(j) \/ cancel(j) \/ recoverExpiredOperations(j)
             \/ \E b \in Backups : \/ verifyBackup(b)
                                   \/ \E j \in Restores, m \in Modules \cup {None} : requestRestore(j, b, m)
                                   \/ \E j \in Rollbacks : requestRollback(j, b)
             \/ UNCHANGED vars
      PROVE  UNCHANGED <<cut, proc>>
  BY <1>3 DEF approve, reject, cancel, recoverExpiredOperations, verifyBackup, requestRestore,
     requestRollback, code, vars
<1>4. CASE Crash
  BY <1>4 DEF Crash, HeldInv, NoCut, Cutting
<1> QED BY <1>1, <1>2, <1>3, <1>4, Undisturbed DEF Next

(* The worker that the definition of Installed chooses.                    *)
LEMMA TheOne ==
  ASSUME NEW C, NEW w \in Workers, Cutting(C[w]),
         \A u, v \in Workers : Cutting(C[u]) /\ Cutting(C[v]) => u = v
  PROVE  w = CHOOSE v \in Workers : C[v].phase \notin {"idle", "done", "failed"}
<1> DEFINE x == CHOOSE v \in Workers : C[v].phase \notin {"idle", "done", "failed"}
<1>1. x \in Workers /\ Cutting(C[x])
  BY DEF Cutting
<1> HIDE DEF x
<1>2. w = x
  BY <1>1
<1> QED BY <1>2 DEF x

LEMMA InstalledNow ==
  ASSUME CutInv, NEW w \in Workers, Cutting(cut[w]) PROVE Installed = saved[w]
<1>1. w = CHOOSE v \in Workers : cut[v].phase \notin {"idle", "done", "failed"}
  BY TheOne DEF CutInv
<1> QED BY <1>1 DEF Installed, Busy, Cutting

LEMMA InstalledNext ==
  ASSUME CutInv', NEW w \in Workers, Cutting(cut'[w]) PROVE Installed' = saved'[w]
<1>1. w = CHOOSE v \in Workers : cut'[v].phase \notin {"idle", "done", "failed"}
  BY TheOne DEF CutInv
<1> QED BY <1>1 DEF Installed, Busy, Cutting

LEMMA InstalledIdle ==
  /\ (\A w \in Workers : ~ Cutting(cut[w])) => Installed = active
  /\ (\A w \in Workers : ~ Cutting(cut'[w])) => Installed' = active'
  BY DEF Installed, Busy, Cutting

LEMMA InstalledStays ==
  ASSUME CutInv, CutInv', UNCHANGED <<active, saved>>,
         \A w \in Workers : Cutting(cut'[w]) <=> Cutting(cut[w])
  PROVE  Installed' = Installed
<1>1. CASE \E w \in Workers : Cutting(cut[w])
  BY <1>1, InstalledNow, InstalledNext
<1>2. CASE \A w \in Workers : ~ Cutting(cut[w])
  BY <1>2, InstalledIdle
<1> QED BY <1>1, <1>2

(* What a step of a cutover makes of what it can go back to.               *)
Replaces ==
  \E w \in Workers : /\ cut'[w].phase = "done"
                     /\ proc[w].j \in Rollbacks /\ job[proc[w].j].started
                     /\ Installed' = Tree(job[proc[w].j].b)

LEMMA CutoverReplaces ==
  ASSUME IInv, CutInv, CutInv', HeldInv, NEW w \in Workers, CutoverStep(w), ~ torn'
  PROVE  Installed' = Installed \/ Replaces
<1> DEFINE c == cut[w]
<1>0. CodeType /\ c \in Cut /\ saved[w] \in Trees /\ saved \in [Workers -> Trees]
  BY Types, CutRow DEF IInv, CodeType
<1>1. Cutting(c)
  BY DEF CutoverStep, removeFile, renameFile, allApplied, verifyApplied, stepFails, discardSaved,
     discardFails, undoRemove, undoCopy, undoFails, In, Cutting
<1>2. Installed = saved[w] /\ \A v \in Workers : v # w => ~ Cutting(cut[v])
  BY <1>1, InstalledNow DEF CutInv
<1>3. ASSUME NEW d, cut' = [cut EXCEPT ![w] = d], Cutting(d), UNCHANGED saved
      PROVE  Installed' = Installed
  <2>1. cut'[w] = d
    BY <1>0, <1>3, CutRow
  <2> QED BY <1>2, <1>3, <2>1, InstalledNext
<1>4. ASSUME NEW ph \in {"verify", "discard", "undo", "copy"}, Step(w, ph), UNCHANGED saved
      PROVE  Installed' = Installed
  <2> DEFINE d == [c EXCEPT !.phase = ph]
  <2>1. cut' = [cut EXCEPT ![w] = d] /\ Cutting(d)
    BY <1>0, <1>4, CutRow DEF Step, Cut, Cutting
  <2> HIDE DEF d
  <2> QED BY <1>3, <1>4, <2>1
<1>5. ASSUME NEW ph \in {"done", "failed"}, Step(w, ph)
      PROVE  cut'[w].phase = ph /\ Installed' = active'
  <2>1. cut'[w].phase = ph /\ \A v \in Workers : v # w => cut'[v] = cut[v]
    BY <1>0, <1>5, CutRow DEF Step, Cut
  <2>2. \A v \in Workers : ~ Cutting(cut'[v])
    BY <1>2, <2>1 DEF Cutting
  <2> QED BY <2>1, <2>2, InstalledIdle
<1>6. CASE \E f \in Files : removeFile(w, f)
  <2> PICK f \in Files : removeFile(w, f)
    BY <1>6
  <2> DEFINE h == IF f \in Carries[c.to] THEN f ELSE None
             d == [c EXCEPT !.left = c.left \ {f}, !.hand = h]
  <2>1. cut' = [cut EXCEPT ![w] = d] /\ d.phase = c.phase /\ UNCHANGED saved
    BY <1>0, CutRow DEF removeFile, Cut
  <2> HIDE DEF d
  <2> QED BY <1>1, <1>3, <2>1 DEF Cutting
<1>7. CASE renameFile(w)
  <2> DEFINE d == [c EXCEPT !.hand = None]
  <2>1. cut' = [cut EXCEPT ![w] = d] /\ d.phase = c.phase /\ UNCHANGED saved
    BY <1>0, <1>7, CutRow DEF renameFile, Cut
  <2> HIDE DEF d
  <2> QED BY <1>1, <1>3, <2>1 DEF Cutting
<1>8. CASE allApplied(w) \/ verifyApplied(w) \/ stepFails(w) \/ undoRemove(w)
  <2>1. UNCHANGED saved /\ \E ph \in {"verify", "discard", "undo", "copy"} : Step(w, ph)
    BY <1>8 DEF allApplied, verifyApplied, stepFails, undoRemove
  <2> QED BY <1>4, <2>1
<1>9. CASE discardSaved(w)
  <2>1. c.phase = "discard" /\ Step(w, "done") /\ UNCHANGED <<active, torn>>
    BY <1>9 DEF discardSaved, In
  <2>2. cut'[w].phase = "done" /\ Installed' = active
    BY <1>5, <2>1
  <2>3. active = Tree(c.to)
    BY <1>1, <2>1 DEF CutInv, Sound
  <2>4. proc[w].pc = "apply" /\ proc[w].j \in Rollbacks /\ c.to = proc[w].b
    BY <1>1 DEF HeldInv, At
  <2>5. proc[w].b = job[proc[w].j].b /\ job[proc[w].j].started
    BY <2>4, Holding
  <2> QED BY <2>2, <2>3, <2>4, <2>5 DEF Replaces
<1>10. CASE discardFails(w) \/ undoFails(w)
  BY <1>10 DEF discardFails, undoFails
<1>11. CASE undoCopy(w)
  <2>1. /\ c.phase = "copy" /\ Step(w, "failed") /\ UNCHANGED torn
        /\ active' = [f \in Files |-> IF saved[w][f] # None THEN saved[w][f] ELSE active[f]]
    BY <1>11 DEF undoCopy, In
  <2>2. Installed' = active'
    BY <1>5, <2>1
  <2>3. active = Nothing
    BY <1>1, <2>1 DEF CutInv, Sound
  <2>4. active' = saved[w]
    BY <1>0, <2>1, <2>3 DEF Nothing, Trees
  <2> QED BY <1>2, <2>2, <2>4
<1> QED BY <1>6, <1>7, <1>8, <1>9, <1>10, <1>11 DEF CutoverStep

LEMMA BeginSaves ==
  ASSUME IInv, CutInv, CutInv', NEW w \in Workers, beginCutover(w)
  PROVE  Installed' = Installed
<1>1. CodeType /\ cut \in [Workers -> Cut] /\ saved \in [Workers -> Trees]
  BY Types DEF IInv, CodeType
<1>2. CASE begin(w, proc[w].b)
  <2>1. ~ Busy /\ saved'[w] = active /\ cut'[w].phase = "clear"
    BY <1>1, <1>2 DEF begin
  <2>2. Installed = active /\ Installed' = saved'[w]
    BY <2>1, InstalledIdle, InstalledNext DEF Busy, Cutting
  <2> QED BY <2>1, <2>2
<1>3. CASE refuse(w)
  <2>1. ~ Cutting(cut[w])
    BY DEF beginCutover, In, Cutting
  <2>2. /\ \A u \in Workers : Cutting(cut'[u]) <=> Cutting(cut[u])
        /\ UNCHANGED <<active, saved>>
    BY <1>1, <1>3, <2>1 DEF refuse, Step, Cutting, Cut
  <2> QED BY <2>2, InstalledStays
<1> QED BY <1>2, <1>3 DEF beginCutover

LEMMA EndLeaves ==
  ASSUME IInv, CutInv, CutInv', NEW w \in Workers, endCutover(w)
  PROVE  Installed' = Installed
<1>1. cut \in [Workers -> Cut]
  BY Types DEF IInv, CodeType
<1>2. ~ Cutting(cut[w]) /\ ~ Cutting(NoCut)
  BY DEF endCutover, Cutting, NoCut
<1>3. cut' = [cut EXCEPT ![w] = NoCut] /\ UNCHANGED <<active, saved>>
  BY DEF endCutover, leave
<1>4. \A u \in Workers : Cutting(cut'[u]) <=> Cutting(cut[u])
  BY <1>1, <1>2, <1>3
<1> QED BY <1>3, <1>4, InstalledStays

LEMMA CrashLeaves ==
  ASSUME Crash, ~ torn' PROVE Installed' = Installed
<1>1. ~ Busy /\ UNCHANGED active
  BY DEF Crash
<1>2. \A w \in Workers : ~ Cutting(cut'[w]) /\ ~ Cutting(cut[w])
  BY <1>1 DEF Crash, Busy, Cutting, NoCut
<1> QED BY <1>1, <1>2, InstalledIdle

LEMMA AtomicStep ==
  ASSUME IInv, CutInv, CutInv', HeldInv, [Next]_vars, ~ torn'
  PROVE  Installed' = Installed \/ Replaces
<1>1. ASSUME UNCHANGED code PROVE Installed' = Installed
  BY <1>1, InstalledStays DEF code
<1> QED BY <1>1, CodeSteps, CutoverReplaces, BeginSaves, EndLeaves, CrashLeaves

(* A cutover installs its version at once or leaves what it found, whatever
   step fails: what it can go back to changes only when it is done, into the
   version that the started rollback of its worker names.                  *)
THEOREM CutoversAtomic == Spec => CutoverIsAtomic
<1>1. Init => IInv /\ CutInv /\ HeldInv
  BY InitInv, CutStart, HeldStart
<1>2. IInv /\ CutInv /\ HeldInv /\ [Next]_vars => (IInv /\ CutInv /\ HeldInv)'
  BY StepInv, StutterInv, CutStep, HeldStep
<1>3. IInv /\ CutInv /\ HeldInv /\ CutInv' /\ [Next]_vars =>
        [~ torn' /\ Installed' # Installed =>
           \E w \in Workers : /\ cut'[w].phase = "done"
                              /\ proc[w].j \in Rollbacks /\ job[proc[w].j].started
                              /\ Installed' = Tree(job[proc[w].j].b)]_vars
  BY AtomicStep DEF Replaces
<1> QED BY <1>1, <1>2, <1>3, PTL DEF Spec, CutoverIsAtomic
=============================================================================
