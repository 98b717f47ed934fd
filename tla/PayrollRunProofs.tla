-------------------------- MODULE PayrollRunProofs --------------------------
(***************************************************************************)
(* What generation, review, encoding and conversion keep true of the       *)
(* payroll tables, proved for any employees, periods, sources and workers. *)
(***************************************************************************)
EXTENDS PayrollRun, TLAPS

(* The rows the handlers name exist, and a generation about to mark        *)
(* sources has inserted what lists them; none is to insert a payslip for   *)
(* an employee of an agency.                                               *)
NamedRows ==
  \A w \in Workers :
    /\ job[w].pc \in {"submitSlip", "overwrite"} => Exists(job[w].id)
    /\ job[w].pc \in {"payslip", "mark"} =>
         /\ calc[job[w].id].run = job[w].period
         /\ calc[job[w].id].listed = job[w].plan[job[w].emp]
    /\ job[w].pc = "payslip" => job[w].emp \notin Agency

AgencyWithoutSlips ==
  \A p \in Periods, e \in Employees : e \in Agency => slip[p][e] = NoSlip

IInv ==
  /\ TypeOK /\ NamedRows /\ AgencyWithoutSlips
  /\ MarkedIsListed /\ AllOrNothing /\ PayslipNotAhead

-----------------------------------------------------------------------------
(* A free id is the employee's and names no row.                           *)
LEMMA NextIdIsFree ==
  ASSUME NEW e, FreeIds(e) # {}
  PROVE  NextId(e) \in CalcIds /\ Emp(NextId(e)) = e /\ ~ Exists(NextId(e))
  <1>1. NextId(e) \in FreeIds(e)
    BY DEF NextId
  <1> QED BY <1>1 DEF FreeIds

LEMMA StatusSets ==
  /\ "absent" \notin CalcStatuses
  /\ "absent" \notin SlipStatuses
  /\ LockedStatuses \subseteq CalcStatuses
  /\ \A from, to : <<from, to>> \in Transitions =>
       from \in CalcStatuses /\ to \in CalcStatuses
  /\ \A from, to : <<from, to>> \in Transitions /\ to # "For Approval" =>
       payslipStatus(to) \in SlipStatuses
  BY DEF CalcStatuses, SlipStatuses, LockedStatuses, ReviewableStatuses, Transitions,
         payslipStatus

LEMMA FreeIsJob == Free \in Jobs /\ JobOK(Free)
  BY DEF Free, Jobs, JobOK, NoPlan, Loop

(* The schema update moves Draft rows, which are not locked, to For Review. *)
LEMMA ForReviewEffect ==
  ASSUME TypeOK, NEW Drafts \in SUBSET DraftIds, forReview(Drafts)
  PROVE  /\ calc' \in [CalcIds -> CalcRows \cup {NoCalc}]
         /\ \A id \in CalcIds :
              \/ calc'[id] = calc[id]
              \/ /\ calc[id] \in CalcRows /\ calc'[id] \in CalcRows
                 /\ calc[id].status \notin LockedStatuses
                 /\ calc'[id].run = calc[id].run /\ calc'[id].listed = calc[id].listed
<1>1. ASSUME NEW id \in Drafts
      PROVE  calc[id] \in CalcRows /\ calc[id].status = "Draft"
  BY <1>1 DEF DraftIds, TypeOK, NoCalc, CalcRow
<1>2. "For Review" \in CalcStatuses /\ "Draft" \notin LockedStatuses
  BY DEF CalcStatuses, ReviewableStatuses, LockedStatuses
<1>3. ASSUME NEW id \in Drafts
      PROVE  /\ [calc[id] EXCEPT !.status = "For Review"] \in CalcRows
             /\ [calc[id] EXCEPT !.status = "For Review"].run = calc[id].run
             /\ [calc[id] EXCEPT !.status = "For Review"].listed = calc[id].listed
  BY <1>1, <1>2, <1>3 DEF CalcRows
<1>4. \A id \in CalcIds :
        calc'[id] = IF id \in Drafts THEN [calc[id] EXCEPT !.status = "For Review"] ELSE calc[id]
  BY DEF forReview
<1>5. calc' \in [CalcIds -> CalcRows \cup {NoCalc}]
  <2>1. \A id \in CalcIds : calc'[id] \in CalcRows \cup {NoCalc}
    BY <1>3, <1>4 DEF TypeOK
  <2>2. calc' = [id \in CalcIds |-> calc'[id]]
    BY DEF forReview
  <2> QED BY <2>1, <2>2
<1> QED BY <1>1, <1>2, <1>3, <1>4, <1>5

LEMMA InitIInv == Init => IInv
  <1> SUFFICES ASSUME Init PROVE IInv
    OBVIOUS
  <1>1. TypeOK
    <2>1. \A w \in Workers : job[w] = Free
      BY DEF Init
    <2>2. calc \in [CalcIds -> CalcRows \cup {NoCalc}]
      BY DEF Init
    <2> QED BY <2>1, <2>2, FreeIsJob DEF Init, TypeOK
  <1>2. NamedRows
    BY DEF Init, NamedRows, Free, Loop
  <1>3. AgencyWithoutSlips /\ MarkedIsListed
    BY DEF Init, AgencyWithoutSlips, MarkedIsListed
  <1>4. AllOrNothing /\ PayslipNotAhead
    BY DEF Init, AllOrNothing, PayslipNotAhead, NoCalc, CalcRow
  <1> QED BY <1>1, <1>2, <1>3, <1>4 DEF IInv

-----------------------------------------------------------------------------
(* Type correctness *)

(* One handler goes on to j, the others stay where they are.               *)
LEMMA JobStep ==
  ASSUME TypeOK, NEW w \in Workers, NEW j \in Jobs, JobOK(j), Goto(w, j)
  PROVE  job' \in [Workers -> Jobs] /\ \A x \in Workers : JobOK(job'[x])
  BY DEF TypeOK, Goto

LEMMA ReturnTypes ==
  ASSUME TypeOK, NEW w \in Workers, Return(w)
  PROVE  job' \in [Workers -> Jobs] /\ \A x \in Workers : JobOK(job'[x])
  BY FreeIsJob, JobStep DEF Return

(* A generation, up to where its transaction ends.                         *)
Transaction(w) ==
  \/ \E p \in Periods, E, T \in SUBSET Employees : genStart(w, p, E, T)
  \/ \E p \in Periods, E \in SUBSET Employees : genStartCold(w, p, E)
  \/ genCommit(w) \/ genSplit(w) \/ genDeadlock(w)

(* It ends with the request, or at the first employee who is paid by time: *)
(* either way all it has written becomes visible.                          *)
Commits(w) == genCommit(w) \/ genSplit(w)

(* What it goes on with when it has lost it.                               *)
Autocommitted(w) ==
  \/ autoCheck(w) \/ autoRead(w) \/ autoInsert(w) \/ autoPayslip(w) \/ autoMark(w)
  \/ autoError(w) \/ autoEnd(w)

LEMMA PayableType ==
  ASSUME TypeOK, NEW e \in Employees, NEW p \in Periods
  PROVE  Payable(e, p) \subseteq Sources /\ Available(e, p) \subseteq Sources
  BY CoversAssumption DEF Payable, Available

LEMMA CommitsWritten ==
  ASSUME NEW w \in Workers, Commits(w)
  PROVE  /\ job[w].pc = "open"
         /\ UNCHANGED <<warm, loose, overwritten>>
         /\ \E Failed \in SUBSET Employees : committed(job[w], Generated(job[w], Failed))
<1>1. CASE genCommit(w)
  BY <1>1 DEF genCommit
<1>2. CASE genSplit(w)
  <2>1. PICK Failed \in SUBSET Employees, Later \in SUBSET Employees :
          committed(job[w], Generated(job[w], Failed \cup Later))
    BY <1>2 DEF genSplit
  <2> QED BY <1>2, <2>1 DEF genSplit
<1> QED BY <1>1, <1>2 DEF Commits

LEMMA CommitsTypes ==
  ASSUME TypeOK, NEW w \in Workers, Commits(w)
  PROVE  /\ runs' \subseteq Periods
         /\ calc' \in [CalcIds -> CalcRows \cup {NoCalc}]
         /\ slip' \in [Periods -> [Employees -> SlipRows \cup {NoSlip}]]
         /\ paid' \in [Sources -> Periods \cup {None}]
<1> DEFINE p == job[w].period
<1>1. p \in Periods /\ job[w].plan \in [Employees -> SUBSET Sources]
  BY CommitsWritten DEF TypeOK, Jobs, JobOK
<1>2. PICK Failed \in SUBSET Employees : committed(job[w], Generated(job[w], Failed))
  BY CommitsWritten
<1> DEFINE done == Generated(job[w], Failed)
<1>3. \A e \in done : e \in Employees /\ NextId(e) \in CalcIds
  BY NextIdIsFree DEF Generated
<1>4. \A id \in CalcIds : Emp(id) \in Employees
  BY DEF CalcIds, Emp
<1>5. calc' \in [CalcIds -> CalcRows \cup {NoCalc}]
  BY <1>1, <1>2, <1>4 DEF committed, CalcRow, CalcRows, CalcStatuses, ReviewableStatuses, TypeOK
<1>6. slip' \in [Periods -> [Employees -> SlipRows \cup {NoSlip}]]
  <2> DEFINE slips == [e \in Employees |->
                         IF e \in done \ Agency THEN SlipRow(NextId(e), "For Review")
                                               ELSE slip[p][e]]
  <2>1. \A e \in done : SlipRow(NextId(e), "For Review") \in SlipRows
    BY <1>3 DEF SlipRow, SlipRows, SlipStatuses
  <2>2. slips \in [Employees -> SlipRows \cup {NoSlip}]
    <3>1. slip \in [Periods -> [Employees -> SlipRows \cup {NoSlip}]]
      BY DEF TypeOK
    <3>2. p \in Periods
      BY <1>1
    <3> HIDE DEF done, p
    <3> QED BY <2>1, <3>1, <3>2
  <2>3. slip' = [slip EXCEPT ![p] = slips]
    BY <1>2 DEF committed
  <2> HIDE DEF slips
  <2> QED BY <1>1, <2>2, <2>3 DEF TypeOK
<1>7. paid' \in [Sources -> Periods \cup {None}]
  BY <1>1, <1>2 DEF committed, TypeOK
<1>8. runs' \subseteq Periods
  BY <1>1, <1>2 DEF committed, TypeOK
<1> QED BY <1>5, <1>6, <1>7, <1>8

LEMMA TransactionTypes ==
  ASSUME TypeOK, NEW w \in Workers, Transaction(w)
  PROVE  TypeOK'
<1> USE FreeIsJob, StatusSets
<1>1. ASSUME NEW p \in Periods, NEW E \in SUBSET Employees, NEW T \in SUBSET Employees,
             genStart(w, p, E, T)
      PROVE  TypeOK'
  <2> DEFINE j == [Free EXCEPT !.pc = "open", !.period = p,
                     !.status = IF p \in runs THEN "Draft" ELSE "absent",
                     !.plan = [e \in Employees |-> IF e \in E \ T THEN Payable(e, p) ELSE {}],
                     !.todo = {e \in T : ~ HasCalc(e, p)}]
  <2>1. j \in Jobs /\ JobOK(j)
    <3>1. [e \in Employees |-> IF e \in E \ T THEN Payable(e, p) ELSE {}]
            \in [Employees -> SUBSET Sources]
      BY PayableType
    <3>2. (IF p \in runs THEN "Draft" ELSE "absent") \in {"absent"} \cup CalcStatuses
      BY DEF CalcStatuses, ReviewableStatuses
    <3> DEFINE st == IF p \in runs THEN "Draft" ELSE "absent"
               plan == [e \in Employees |-> IF e \in E \ T THEN Payable(e, p) ELSE {}]
               todo == {e \in T : ~ HasCalc(e, p)}
    <3>6. todo \subseteq Employees
      OBVIOUS
    <3> HIDE DEF st, plan, todo
    <3>3. st \in {"absent"} \cup CalcStatuses /\ plan \in [Employees -> SUBSET Sources]
      BY <3>1, <3>2 DEF st, plan
    <3>4. [Free EXCEPT !.pc = "open", !.period = p, !.status = st, !.plan = plan,
                       !.todo = todo] \in Jobs
      BY <3>3, <3>6 DEF Jobs, Free
    <3>5. JobOK([Free EXCEPT !.pc = "open", !.period = p, !.status = st, !.plan = plan,
                             !.todo = todo])
      BY <3>6 DEF JobOK, Loop, Free
    <3> QED BY <3>4, <3>5 DEF st, plan, todo
  <2>2. Goto(w, j)
    BY <1>1 DEF genStart
  <2> HIDE DEF j
  <2> QED BY <1>1, <2>1, <2>2, JobStep DEF genStart, TypeOK
<1>2. ASSUME NEW p \in Periods, NEW E \in SUBSET Employees, genStartCold(w, p, E)
      PROVE  TypeOK'
  <2> DEFINE j == [Free EXCEPT !.pc = "loop", !.period = p, !.todo = E]
  <2>1. j \in Jobs /\ JobOK(j)
    BY DEF Jobs, JobOK, Loop, Free, NoPlan
  <2>2. Goto(w, j)
    BY <1>2 DEF genStartCold
  <2> HIDE DEF j
  <2>3. calc' \in [CalcIds -> CalcRows \cup {NoCalc}]
    BY <1>2, ForReviewEffect DEF genStartCold
  <2> QED BY <1>2, <2>1, <2>2, <2>3, JobStep DEF genStartCold, TypeOK
<1>3. CASE genCommit(w)
  BY <1>3, CommitsTypes, ReturnTypes DEF Commits, genCommit, TypeOK
<1>4. CASE genSplit(w)
  <2>1. PICK e \in job[w].todo,
             Later \in SUBSET {f \in Employees : job[w].plan[f] # {}} :
          Goto(w, [Free EXCEPT !.pc = "read", !.period = job[w].period, !.emp = e,
                               !.todo = job[w].todo \cup Later])
    BY <1>4 DEF genSplit
  <2> DEFINE j == [Free EXCEPT !.pc = "read", !.period = job[w].period, !.emp = e,
                               !.todo = job[w].todo \cup Later]
  <2>2. job[w].period \in Periods /\ job[w].todo \subseteq Employees
    BY <1>4 DEF genSplit, TypeOK, JobOK
  <2>3. j \in Jobs /\ JobOK(j)
    BY <2>2 DEF Jobs, JobOK, Loop, Free, NoPlan
  <2>4. Goto(w, j)
    BY <2>1
  <2> HIDE DEF j
  <2>5. job' \in [Workers -> Jobs] /\ \A x \in Workers : JobOK(job'[x])
    BY <2>3, <2>4, JobStep
  <2> QED BY <1>4, <2>5, CommitsTypes DEF Commits, genSplit, TypeOK
<1>5. CASE genDeadlock(w)
  <2>1. PICK left \in SUBSET (job[w].todo \cup {e \in Employees : job[w].plan[e] # {}}) :
          Goto(w, [Free EXCEPT !.pc = "loop", !.period = job[w].period, !.todo = left])
    BY <1>5 DEF genDeadlock
  <2> DEFINE j == [Free EXCEPT !.pc = "loop", !.period = job[w].period, !.todo = left]
  <2>2. job[w].period \in Periods /\ left \subseteq Employees
    BY <1>5 DEF genDeadlock, TypeOK, JobOK
  <2>3. j \in Jobs /\ JobOK(j)
    BY <2>2 DEF Jobs, JobOK, Loop, Free, NoPlan
  <2> HIDE DEF j
  <2> QED BY <1>5, <2>1, <2>3, JobStep DEF genDeadlock, TypeOK, j
<1> QED BY <1>1, <1>2, <1>3, <1>4, <1>5 DEF Transaction

(* The loop goes on without the employee it is through with.               *)
LEMMA ContinueTypes ==
  ASSUME TypeOK, NEW w \in Workers, NEW e, job[w].pc \in Loop, Continue(w, e)
  PROVE  job' \in [Workers -> Jobs] /\ \A x \in Workers : JobOK(job'[x])
<1> DEFINE j == [Free EXCEPT !.pc = "loop", !.period = job[w].period,
                             !.todo = job[w].todo \ {e}]
<1>1. job[w].period \in Periods /\ job[w].todo \subseteq Employees
  BY DEF TypeOK, JobOK
<1>2. j \in Jobs /\ JobOK(j)
  BY <1>1 DEF Jobs, JobOK, Loop, Free, NoPlan
<1>3. Goto(w, j)
  BY DEF Continue
<1> HIDE DEF j
<1> QED BY <1>2, <1>3, JobStep

LEMMA AutocommittedTypes ==
  ASSUME TypeOK, NEW w \in Workers, Autocommitted(w)
  PROVE  TypeOK'
<1> DEFINE p == job[w].period
           e == job[w].emp
<1>1. CASE autoRead(w)
  <2>1. /\ job[w] \in Jobs /\ job[w].pc \in Loop /\ p \in Periods
        /\ e \in Employees /\ job[w].todo \subseteq Employees
    BY <1>1 DEF autoRead, TypeOK, JobOK, Loop
  <2> DEFINE j == [job[w] EXCEPT !.pc = "insert", !.plan[e] = Available(e, p)]
  <2>2. j \in Jobs /\ JobOK(j)
    BY <2>1, PayableType DEF Jobs, JobOK, Loop
  <2>3. Continue(w, e) \/ Goto(w, j)
    BY <1>1 DEF autoRead
  <2> HIDE DEF j
  <2>4. job' \in [Workers -> Jobs] /\ \A x \in Workers : JobOK(job'[x])
    BY <2>1, <2>2, <2>3, ContinueTypes, JobStep
  <2> QED BY <1>1, <2>4 DEF autoRead, TypeOK
<1>7. CASE autoCheck(w)
  <2>1. PICK f \in job[w].todo :
          Continue(w, f) \/ Goto(w, [job[w] EXCEPT !.pc = "read", !.emp = f])
    BY <1>7 DEF autoCheck
  <2>2. /\ job[w] \in Jobs /\ job[w].pc \in Loop /\ p \in Periods
        /\ f \in Employees /\ job[w].todo \subseteq Employees
    BY <1>7 DEF autoCheck, TypeOK, JobOK, Loop
  <2> DEFINE j == [job[w] EXCEPT !.pc = "read", !.emp = f]
  <2>3. j \in Jobs /\ JobOK(j)
    BY <2>2 DEF Jobs, JobOK, Loop
  <2>4. Continue(w, f) \/ Goto(w, j)
    BY <2>1
  <2> HIDE DEF j
  <2>5. job' \in [Workers -> Jobs] /\ \A x \in Workers : JobOK(job'[x])
    BY <2>2, <2>3, <2>4, ContinueTypes, JobStep
  <2> QED BY <1>7, <2>5 DEF autoCheck, TypeOK
<1>2. CASE autoInsert(w)
  <2>1. job[w] \in Jobs /\ p \in Periods /\ e \in Employees
        /\ job[w].plan[e] \subseteq Sources /\ job[w].todo \subseteq Employees
    BY <1>2 DEF autoInsert, TypeOK, JobOK, Loop, Jobs
  <2>2. NextId(e) \in CalcIds
    BY <1>2, NextIdIsFree DEF autoInsert
  <2>3. calc' \in [CalcIds -> CalcRows \cup {NoCalc}]
    BY <1>2, <2>1 DEF autoInsert, CalcRow, CalcRows, CalcStatuses, ReviewableStatuses, TypeOK
  <2> DEFINE j == [job[w] EXCEPT !.pc = IF e \in Agency THEN "mark" ELSE "payslip",
                                 !.id = NextId(e)]
  <2>4. j \in Jobs /\ JobOK(j)
    BY <2>1, <2>2 DEF Jobs, JobOK, Loop
  <2>5. Goto(w, j)
    BY <1>2 DEF autoInsert
  <2>6. loose' \subseteq CalcIds
    BY <1>2, <2>2 DEF autoInsert, TypeOK
  <2> HIDE DEF j
  <2> QED BY <1>2, <2>3, <2>4, <2>5, <2>6, JobStep DEF autoInsert, TypeOK
<1>3. CASE autoPayslip(w)
  <2>1. job[w] \in Jobs /\ JobOK(job[w]) /\ job[w].id \in CalcIds
    BY <1>3 DEF autoPayslip, TypeOK, JobOK
  <2>2. slip' \in [Periods -> [Employees -> SlipRows \cup {NoSlip}]]
    BY <1>3, <2>1 DEF autoPayslip, SlipRow, SlipRows, SlipStatuses, TypeOK
  <2> DEFINE j == [job[w] EXCEPT !.pc = "mark"]
  <2>3. j \in Jobs /\ JobOK(j)
    BY <1>3, <2>1 DEF autoPayslip, Jobs, JobOK, Loop
  <2>4. Goto(w, j)
    BY <1>3 DEF autoPayslip
  <2> HIDE DEF j
  <2> QED BY <1>3, <2>2, <2>3, <2>4, JobStep DEF autoPayslip, TypeOK
<1>4. CASE autoMark(w)
  <2>1. p \in Periods
    BY <1>4 DEF autoMark, TypeOK, JobOK, Loop
  <2>2. paid' \in [Sources -> Periods \cup {None}]
    BY <1>4, <2>1 DEF autoMark, TypeOK
  <2> QED BY <1>4, <2>2, ContinueTypes DEF autoMark, TypeOK, Loop
<1>5. CASE autoError(w)
  BY <1>5, ContinueTypes DEF autoError, TypeOK, Loop
<1>6. CASE autoEnd(w)
  BY <1>6, ReturnTypes DEF autoEnd, TypeOK
<1> QED BY <1>1, <1>2, <1>3, <1>4, <1>5, <1>6, <1>7 DEF Autocommitted

LEMMA RowsOfType ==
  ASSUME TypeOK, NEW id \in CalcIds, Exists(id)
  PROVE  calc[id] \in CalcRows
  BY DEF TypeOK, Exists, NoCalc, CalcRow

(* Status changes of one calculation and of the payslips it owns.          *)
LEMMA SlipsSetTypes ==
  ASSUME TypeOK, NEW id \in CalcIds, NEW st \in SlipStatuses
  PROVE  slipsSet(id, st) \in [Periods -> [Employees -> SlipRows \cup {NoSlip}]]
  BY DEF slipsSet, OwnsSlip, SlipRows, TypeOK

LEMMA ReviewTypes ==
  ASSUME TypeOK, Review
  PROVE  TypeOK'
<1>1. PICK id \in CalcIds :
        (\E to \in CalcStatuses : changeStatus(id, to)) \/ recalculate(id)
  BY DEF Review
<1>2. ASSUME NEW to \in CalcStatuses, changeStatus(id, to)
      PROVE  TypeOK'
  <2>1. calc[id] \in CalcRows
    <3>1. calc[id].status \in CalcStatuses
      BY <1>2, StatusSets DEF changeStatus
    <3>2. calc[id].status # "absent"
      BY <3>1, StatusSets
    <3> QED BY <3>2, RowsOfType DEF Exists
  <2>2. calc' \in [CalcIds -> CalcRows \cup {NoCalc}]
    BY <1>2, <2>1 DEF changeStatus, CalcRows, TypeOK
  <2>3. paid' \in [Sources -> Periods \cup {None}]
    BY <1>2, <2>1 DEF changeStatus, TypeOK, CalcRows
  <2>4. slip' \in [Periods -> [Employees -> SlipRows \cup {NoSlip}]]
    BY <1>2, SlipsSetTypes, StatusSets DEF changeStatus
  <2> QED BY <1>2, <2>2, <2>3, <2>4 DEF changeStatus, TypeOK
<1>3. CASE recalculate(id)
  <2>1. slip' \in [Periods -> [Employees -> SlipRows \cup {NoSlip}]]
    BY <1>3, SlipsSetTypes DEF recalculate, SlipStatuses
  <2> QED BY <1>3, <2>1 DEF recalculate, TypeOK
<1> QED BY <1>1, <1>2, <1>3

LEMMA SubmissionTypes ==
  ASSUME TypeOK, NEW w \in Workers,
         submitSlip(w) \/ \E id \in CalcIds : submitForApproval(w, id)
  PROVE  TypeOK'
<1>1. ASSUME NEW id \in CalcIds, submitForApproval(w, id)
      PROVE  TypeOK'
  <2>1. calc[id] \in CalcRows
    <3>1. calc[id].status \in CalcStatuses
      BY <1>1, StatusSets DEF submitForApproval
    <3>2. calc[id].status # "absent"
      BY <3>1, StatusSets
    <3> QED BY <3>2, RowsOfType DEF Exists
  <2>2. calc' \in [CalcIds -> CalcRows \cup {NoCalc}]
    BY <1>1, <2>1 DEF submitForApproval, CalcRows, CalcStatuses, TypeOK
  <2> DEFINE j == [Free EXCEPT !.pc = "submitSlip", !.id = id]
  <2>3. j \in Jobs /\ JobOK(j)
    BY DEF Jobs, JobOK, Loop, Free, NoPlan
  <2>4. Goto(w, j)
    BY <1>1 DEF submitForApproval
  <2> HIDE DEF j
  <2> QED BY <1>1, <2>2, <2>3, <2>4, JobStep DEF submitForApproval, TypeOK
<1>2. CASE submitSlip(w)
  <2>1. job[w].id \in CalcIds
    BY <1>2 DEF submitSlip, TypeOK, JobOK
  <2>2. slip' \in [Periods -> [Employees -> SlipRows \cup {NoSlip}]]
    BY <1>2, <2>1, SlipsSetTypes DEF submitSlip, SlipStatuses
  <2> QED BY <1>2, <2>2, ReturnTypes DEF submitSlip, TypeOK
<1> QED BY <1>1, <1>2

(* A handler that has checked, and is about to insert or to write by id.   *)
LEMMA SaveTypes ==
  ASSUME TypeOK, NEW w \in Workers, NEW p \in Periods, NEW st \in CalcStatuses
  PROVE  /\ \A e \in Employees :
              Goto(w, [Free EXCEPT !.pc = "save", !.period = p, !.emp = e, !.status = st])
                => job' \in [Workers -> Jobs] /\ \A x \in Workers : JobOK(job'[x])
         /\ \A id \in CalcIds :
              Goto(w, [Free EXCEPT !.pc = "overwrite", !.period = p, !.id = id, !.status = st])
                => job' \in [Workers -> Jobs] /\ \A x \in Workers : JobOK(job'[x])
<1>1. ASSUME NEW e \in Employees,
             Goto(w, [Free EXCEPT !.pc = "save", !.period = p, !.emp = e, !.status = st])
      PROVE  job' \in [Workers -> Jobs] /\ \A x \in Workers : JobOK(job'[x])
  <2> DEFINE j == [Free EXCEPT !.pc = "save", !.period = p, !.emp = e, !.status = st]
  <2>1. j \in Jobs /\ JobOK(j)
    BY DEF Jobs, JobOK, Loop, Free, NoPlan
  <2>2. Goto(w, j)
    BY <1>1
  <2> HIDE DEF j
  <2> QED BY <2>1, <2>2, JobStep
<1>2. ASSUME NEW id \in CalcIds,
             Goto(w, [Free EXCEPT !.pc = "overwrite", !.period = p, !.id = id, !.status = st])
      PROVE  job' \in [Workers -> Jobs] /\ \A x \in Workers : JobOK(job'[x])
  <2> DEFINE j == [Free EXCEPT !.pc = "overwrite", !.period = p, !.id = id, !.status = st]
  <2>1. j \in Jobs /\ JobOK(j)
    BY DEF Jobs, JobOK, Loop, Free, NoPlan
  <2>2. Goto(w, j)
    BY <1>2
  <2> HIDE DEF j
  <2> QED BY <2>1, <2>2, JobStep
<1> QED BY <1>1, <1>2

(* How the handlers that encode calculations get to their write.           *)
Encoded == {"Draft", "Submitted"}
Checked(w) ==
  \/ \E e \in Employees, p \in Periods, st \in Encoded :
       saveCheck(w, e, p, st) \/ transactionNew(w, e, p, st) \/ outputNew(w, e, p)
  \/ \E id \in CalcIds, p \in Periods, st \in Encoded : saveRead(w, id, p, st)
  \/ \E id \in CalcIds, st \in Encoded : transactionFound(w, id, st) \/ outputFound(w, id)

LEMMA EncodingCases ==
  ASSUME NEW w \in Workers, Encoding(w)
  PROVE  Checked(w) \/ saveInsert(w) \/ saveOverwrite(w)
  BY DEF Encoding, Checked, Encoded

LEMMA CheckedEffect ==
  ASSUME TypeOK, NEW w \in Workers, Checked(w)
  PROVE  /\ UNCHANGED <<runs, calc, slip, paid, warm, loose, overwritten>>
         /\ \E p \in Periods, st \in CalcStatuses :
              \/ \E e \in Employees :
                   Goto(w, [Free EXCEPT !.pc = "save", !.period = p, !.emp = e, !.status = st])
              \/ \E id \in CalcIds :
                   /\ Exists(id)
                   /\ Goto(w, [Free EXCEPT !.pc = "overwrite", !.period = p, !.id = id,
                                           !.status = st])
<1> DEFINE Goal ==
      /\ UNCHANGED <<runs, calc, slip, paid, warm, loose, overwritten>>
      /\ \E p \in Periods, st \in CalcStatuses :
           \/ \E e \in Employees :
                Goto(w, [Free EXCEPT !.pc = "save", !.period = p, !.emp = e, !.status = st])
           \/ \E id \in CalcIds :
                /\ Exists(id)
                /\ Goto(w, [Free EXCEPT !.pc = "overwrite", !.period = p, !.id = id,
                                        !.status = st])
<1>1. Encoded \subseteq CalcStatuses /\ "For Review" \in CalcStatuses
  BY DEF Encoded, CalcStatuses, ReviewableStatuses
<1>2. ASSUME NEW e \in Employees, NEW p \in Periods, NEW st \in Encoded,
             saveCheck(w, e, p, st) \/ transactionNew(w, e, p, st) \/ outputNew(w, e, p)
      PROVE  Goal
  BY <1>1, <1>2 DEF saveCheck, transactionNew, outputNew
<1>3. ASSUME NEW id \in CalcIds, NEW p \in Periods, NEW st \in Encoded, saveRead(w, id, p, st)
      PROVE  Goal
  BY <1>1, <1>3 DEF saveRead
<1>4. ASSUME NEW id \in CalcIds, Exists(id)
      PROVE  calc[id].period \in Periods /\ calc[id].status \in CalcStatuses
  BY <1>4, RowsOfType DEF CalcRows
<1>5. ASSUME NEW id \in CalcIds, NEW st \in Encoded, transactionFound(w, id, st)
      PROVE  Goal
  <2> DEFINE next == IF calc[id].status = "Draft" THEN st ELSE calc[id].status
  <2>1. Exists(id) /\ Goto(w, [Free EXCEPT !.pc = "overwrite", !.period = calc[id].period,
                                           !.id = id, !.status = next])
    BY <1>5 DEF transactionFound
  <2>2. next \in CalcStatuses /\ calc[id].period \in Periods
    BY <1>1, <1>4, <2>1
  <2>3. UNCHANGED <<runs, calc, slip, paid, warm, loose, overwritten>>
    BY <1>5 DEF transactionFound
  <2> HIDE DEF next
  <2> QED BY <2>1, <2>2, <2>3
<1>6. ASSUME NEW id \in CalcIds, outputFound(w, id)
      PROVE  Goal
  BY <1>1, <1>4, <1>6 DEF outputFound
<1> HIDE DEF Goal
<1>7. Goal
  BY <1>2, <1>3, <1>5, <1>6 DEF Checked
<1> QED BY <1>7 DEF Goal

LEMMA CheckedJobs ==
  ASSUME TypeOK, NEW w \in Workers, Checked(w)
  PROVE  /\ \A x \in Workers : x # w => job'[x] = job[x]
         /\ \/ job'[w].pc = "save"
            \/ job'[w].pc = "overwrite" /\ job'[w].id \in CalcIds /\ Exists(job'[w].id)
<1>1. ASSUME NEW j, Goto(w, j)
      PROVE  job'[w] = j /\ \A x \in Workers : x # w => job'[x] = job[x]
  BY <1>1 DEF Goto, TypeOK
<1>2. PICK p \in Periods, st \in CalcStatuses :
        \/ \E e \in Employees :
             Goto(w, [Free EXCEPT !.pc = "save", !.period = p, !.emp = e, !.status = st])
        \/ \E id \in CalcIds :
             /\ Exists(id)
             /\ Goto(w, [Free EXCEPT !.pc = "overwrite", !.period = p, !.id = id,
                                     !.status = st])
  BY CheckedEffect
<1>3. ASSUME NEW e \in Employees
      PROVE  [Free EXCEPT !.pc = "save", !.period = p, !.emp = e, !.status = st].pc = "save"
  BY DEF Free
<1>4. ASSUME NEW id \in CalcIds
      PROVE  /\ [Free EXCEPT !.pc = "overwrite", !.period = p, !.id = id, !.status = st].pc
                  = "overwrite"
             /\ [Free EXCEPT !.pc = "overwrite", !.period = p, !.id = id, !.status = st].id = id
  BY DEF Free
<1>5. CASE \E e \in Employees :
             Goto(w, [Free EXCEPT !.pc = "save", !.period = p, !.emp = e, !.status = st])
  BY <1>1, <1>3, <1>5
<1>6. CASE \E id \in CalcIds :
             /\ Exists(id)
             /\ Goto(w, [Free EXCEPT !.pc = "overwrite", !.period = p, !.id = id,
                                     !.status = st])
  <2>1. PICK id \in CalcIds :
          /\ Exists(id)
          /\ Goto(w, [Free EXCEPT !.pc = "overwrite", !.period = p, !.id = id, !.status = st])
    BY <1>6
  <2> DEFINE j == [Free EXCEPT !.pc = "overwrite", !.period = p, !.id = id, !.status = st]
  <2>2. j.pc = "overwrite" /\ j.id = id
    BY <1>4
  <2>3. Goto(w, j)
    BY <2>1
  <2> HIDE DEF j
  <2> QED BY <1>1, <2>1, <2>2, <2>3
<1> QED BY <1>2, <1>5, <1>6

LEMMA EncodingTypes ==
  ASSUME TypeOK, NamedRows, NEW w \in Workers, Encoding(w)
  PROVE  TypeOK'
<1>1. CASE Checked(w)
  BY <1>1, CheckedEffect, SaveTypes DEF TypeOK
<1>2. CASE saveInsert(w)
  <2>1. job[w].status \in CalcStatuses /\ job[w].period \in Periods
    BY <1>2 DEF saveInsert, TypeOK, JobOK
  <2>2. calc' \in [CalcIds -> CalcRows \cup {NoCalc}]
    BY <1>2, <2>1 DEF saveInsert, CalcRow, CalcRows, TypeOK
  <2> QED BY <1>2, <2>2, ReturnTypes DEF saveInsert, TypeOK
<1>3. CASE saveOverwrite(w)
  <2> DEFINE id == job[w].id
  <2>1. /\ job[w].status \in CalcStatuses /\ job[w].period \in Periods
        /\ id \in CalcIds
    BY <1>3 DEF saveOverwrite, TypeOK, JobOK
  <2>2. calc[id] \in CalcRows
    BY <1>3, <2>1, RowsOfType DEF saveOverwrite, NamedRows
  <2>3. calc' \in [CalcIds -> CalcRows \cup {NoCalc}]
    BY <1>3, <2>1, <2>2 DEF saveOverwrite, CalcRows, TypeOK
  <2>4. overwritten' \subseteq CalcIds
    BY <1>3, <2>1 DEF saveOverwrite, TypeOK
  <2> QED BY <1>3, <2>3, <2>4, ReturnTypes DEF saveOverwrite, TypeOK
<1> QED BY <1>1, <1>2, <1>3, EncodingCases

LEMMA ConversionTypes ==
  ASSUME TypeOK, NEW w \in Workers, Conversion(w)
  PROVE  TypeOK'
<1>1. ASSUME NEW p \in Periods, convertRead(w, p)
      PROVE  TypeOK'
  <2> DEFINE j == [Free EXCEPT !.pc = "convert", !.period = p, !.todo = Convertible(p)]
  <2>1. j \in Jobs /\ JobOK(j)
    BY DEF Jobs, JobOK, Loop, Free, NoPlan, Convertible
  <2>2. Goto(w, j)
    BY <1>1 DEF convertRead
  <2> HIDE DEF j
  <2> QED BY <1>1, <2>1, <2>2, JobStep DEF convertRead, TypeOK
<1>2. CASE convertInsert(w)
  <2>1. /\ job[w] \in Jobs /\ job[w].period \in Periods
        /\ job[w].todo \subseteq {id \in CalcIds : Emp(id) \notin Agency}
    BY <1>2 DEF convertInsert, TypeOK, JobOK
  <2>2. PICK id \in job[w].todo :
          LET p == job[w].period
              e == Emp(id)
          IN  /\ slip' = IF slip[p][e] = NoSlip
                         THEN [slip EXCEPT ![p][e] = SlipRow(id, "Approved")] ELSE slip
              /\ Goto(w, [job[w] EXCEPT !.todo = @ \ {id}])
    BY <1>2 DEF convertInsert
  <2>3. Emp(id) \in Employees
    BY <2>1 DEF CalcIds, Emp
  <2>4. slip' \in [Periods -> [Employees -> SlipRows \cup {NoSlip}]]
    BY <2>1, <2>2, <2>3 DEF SlipRow, SlipRows, SlipStatuses, TypeOK
  <2> DEFINE j == [job[w] EXCEPT !.todo = @ \ {id}]
  <2>5. j \in Jobs /\ JobOK(j)
    BY <1>2, <2>1 DEF convertInsert, Jobs, JobOK, Loop
  <2>6. Goto(w, j)
    BY <2>2
  <2> HIDE DEF j
  <2> QED BY <1>2, <2>4, <2>5, <2>6, JobStep DEF convertInsert, TypeOK
<1> QED BY <1>1, <1>2 DEF Conversion

LEMMA TypeStep ==
  ASSUME TypeOK, NamedRows, [Next]_vars
  PROVE  TypeOK'
<1>1. ASSUME NEW w \in Workers, Generation(w)
      PROVE  TypeOK'
  BY <1>1, TransactionTypes, AutocommittedTypes DEF Generation, Transaction, Autocommitted
<1>2. ASSUME NEW w \in Workers, leave(w)
      PROVE  TypeOK'
  BY <1>2, ReturnTypes DEF leave, TypeOK
<1>3. CASE restart
  BY <1>3, FreeIsJob DEF restart, TypeOK
<1>4. CASE UNCHANGED vars
  BY <1>4 DEF vars, TypeOK
<1>5. CASE ensureSchema
  BY <1>5, ForReviewEffect DEF ensureSchema, TypeOK
<1> QED BY <1>1, <1>2, <1>3, <1>4, <1>5, EncodingTypes, ConversionTypes, SubmissionTypes, ReviewTypes
        DEF Next

-----------------------------------------------------------------------------
(* What the other parts of the invariant rest on: rows stay, and keep the  *)
(* run and the sources they were made for.                                 *)

KeepsRows == \A id \in CalcIds : Exists(id) =>
  calc'[id] \in CalcRows /\ calc'[id].run = calc[id].run /\ calc'[id].listed = calc[id].listed

LEMMA RowsKept ==
  ASSUME TypeOK, NamedRows, [Next]_vars
  PROVE  KeepsRows
<1> SUFFICES ASSUME NEW id \in CalcIds, Exists(id)
             PROVE  /\ calc'[id] \in CalcRows
                    /\ calc'[id].run = calc[id].run
                    /\ calc'[id].listed = calc[id].listed
  BY DEF KeepsRows
<1>1. calc[id] \in CalcRows
  BY RowsOfType
<1>2. CASE calc' = calc
  BY <1>1, <1>2
<1>3. ASSUME NEW w \in Workers, Commits(w)
      PROVE  calc'[id] = calc[id]
  <2>1. PICK Failed \in SUBSET Employees :
          calc' = [x \in CalcIds |->
                     IF x \in {NextId(e) : e \in Generated(job[w], Failed)}
                     THEN CalcRow("For Review", job[w].period, job[w].period, job[w].plan[Emp(x)])
                     ELSE calc[x]]
    BY <1>3, CommitsWritten DEF committed
  <2>2. id \notin {NextId(e) : e \in Generated(job[w], Failed)}
    BY NextIdIsFree DEF Generated
  <2> QED BY <2>1, <2>2
<1>4. ASSUME NEW w \in Workers, autoInsert(w)
      PROVE  calc'[id] = calc[id]
  <2>1. NextId(job[w].emp) # id
    BY <1>4, NextIdIsFree DEF autoInsert
  <2> QED BY <1>4, <2>1 DEF autoInsert, TypeOK
<1>5. ASSUME NEW w \in Workers, saveInsert(w)
      PROVE  calc'[id] = calc[id]
  <2>1. NextId(job[w].emp) # id
    BY <1>5, NextIdIsFree DEF saveInsert
  <2> QED BY <1>5, <2>1 DEF saveInsert, TypeOK
<1>6. ASSUME NEW w \in Workers, NEW x \in CalcIds, submitForApproval(w, x)
      PROVE  calc' = [calc EXCEPT ![x].status = "For Approval"]
  BY <1>6 DEF submitForApproval
<1>7. ASSUME NEW to \in CalcStatuses, NEW x \in CalcIds, changeStatus(x, to)
      PROVE  calc' = [calc EXCEPT ![x].status = to]
  BY <1>7 DEF changeStatus
<1>8. ASSUME NEW st \in CalcStatuses, NEW x \in CalcIds,
             calc' = [calc EXCEPT ![x].status = st]
      PROVE  /\ calc'[id] \in CalcRows
             /\ calc'[id].run = calc[id].run
             /\ calc'[id].listed = calc[id].listed
  BY <1>1, <1>8 DEF CalcRows, TypeOK
<1>9. ASSUME NEW w \in Workers, saveOverwrite(w)
      PROVE  /\ calc'[id] \in CalcRows
             /\ calc'[id].run = calc[id].run
             /\ calc'[id].listed = calc[id].listed
  <2>1. job[w].status \in CalcStatuses /\ job[w].period \in Periods
    BY <1>9 DEF saveOverwrite, TypeOK, JobOK
  <2> QED BY <1>1, <1>9, <2>1 DEF saveOverwrite, CalcRows, TypeOK
<1>10. "For Approval" \in CalcStatuses
  BY DEF CalcStatuses
<1>11. ASSUME \E Drafts \in SUBSET DraftIds : forReview(Drafts)
       PROVE  /\ calc'[id] \in CalcRows
              /\ calc'[id].run = calc[id].run
              /\ calc'[id].listed = calc[id].listed
  BY <1>1, <1>11, ForReviewEffect
<1>12. ASSUME NEW w \in Workers, Generation(w), ~ Commits(w), ~ autoInsert(w)
       PROVE  calc' = calc \/ \E Drafts \in SUBSET DraftIds : forReview(Drafts)
  BY <1>12 DEF Commits, Generation, genStart, genDeadlock, genStartCold, autoCheck, autoRead,
               autoPayslip, autoMark, autoError, autoEnd
<1>13. ASSUME NEW w \in Workers, Encoding(w), ~ saveInsert(w), ~ saveOverwrite(w)
       PROVE  calc' = calc
  BY <1>13, EncodingCases, CheckedEffect
<1>14. \/ calc' = calc
       \/ \E Drafts \in SUBSET DraftIds : forReview(Drafts)
       \/ \E w \in Workers : Commits(w) \/ autoInsert(w) \/ saveInsert(w) \/ saveOverwrite(w)
       \/ \E w \in Workers, x \in CalcIds : submitForApproval(w, x)
       \/ \E x \in CalcIds, to \in CalcStatuses : changeStatus(x, to)
  BY <1>12, <1>13 DEF Next, vars, Conversion, Review, submitSlip, recalculate, convertRead,
                      convertInsert, leave, ensureSchema, restart
<1> QED BY <1>1, <1>2, <1>3, <1>4, <1>5, <1>6, <1>7, <1>8, <1>9, <1>10, <1>11, <1>14

LEMMA RowOfRun ==
  ASSUME TypeOK, NEW id \in CalcIds, calc[id].run # None
  PROVE  Exists(id)
<1>1. calc[id] \in CalcRows
  BY DEF TypeOK, NoCalc, CalcRow
<1>2. calc[id].status \in CalcStatuses
  BY <1>1 DEF CalcRows
<1> QED BY <1>2, StatusSets DEF Exists

(* The invariant step of MarkedIsListed: only a generation and an approval *)
(* mark sources, and both name a row that lists them.                      *)
LEMMA MarkedStep ==
  ASSUME TypeOK, NamedRows, MarkedIsListed, [Next]_vars
  PROVE  MarkedIsListed'
<1> SUFFICES ASSUME NEW s \in Sources, paid'[s] # None
             PROVE  \E id \in CalcIds : calc'[id].run = paid'[s] /\ s \in calc'[id].listed
  BY DEF MarkedIsListed
<1>1. KeepsRows
  BY RowsKept
<1>2. ASSUME NEW id \in CalcIds, calc[id].run = paid'[s], s \in calc[id].listed
      PROVE  calc'[id].run = paid'[s] /\ s \in calc'[id].listed
  BY <1>1, <1>2, RowOfRun DEF KeepsRows
<1>3. CASE paid'[s] = paid[s]
  BY <1>2, <1>3 DEF MarkedIsListed
<1>4. ASSUME NEW w \in Workers, autoMark(w), paid'[s] # paid[s]
      PROVE  calc[job[w].id].run = paid'[s] /\ s \in calc[job[w].id].listed
             /\ job[w].id \in CalcIds
  BY <1>4 DEF autoMark, NamedRows, TypeOK, JobOK
<1>5. ASSUME NEW id \in CalcIds, NEW to \in CalcStatuses, changeStatus(id, to),
             paid'[s] # paid[s]
      PROVE  calc[id].run = paid'[s] /\ s \in calc[id].listed
  BY <1>5 DEF changeStatus
<1>6. ASSUME NEW w \in Workers, Commits(w), paid'[s] # paid[s]
      PROVE  \E id \in CalcIds : calc'[id].run = paid'[s] /\ s \in calc'[id].listed
  <2> DEFINE p == job[w].period
  <2>1. PICK Failed \in SUBSET Employees :
          /\ calc' = [x \in CalcIds |->
                        IF x \in {NextId(e) : e \in Generated(job[w], Failed)}
                        THEN CalcRow("For Review", p, p, job[w].plan[Emp(x)])
                        ELSE calc[x]]
          /\ paid' = [x \in Sources |->
                        IF paid[x] = None
                           /\ \E e \in Generated(job[w], Failed) : x \in job[w].plan[e]
                        THEN p ELSE paid[x]]
    BY <1>6, CommitsWritten DEF committed
  <2>2. PICK e \in Generated(job[w], Failed) : s \in job[w].plan[e]
    BY <1>6, <2>1
  <2>3. PICK id \in CalcIds : id = NextId(e) /\ Emp(id) = e
    BY NextIdIsFree DEF Generated
  <2>4. calc'[id].run = p /\ calc'[id].listed = job[w].plan[e]
    BY <2>1, <2>3 DEF CalcRow
  <2>5. paid'[s] = p
    BY <1>6, <2>1
  <2> QED BY <2>2, <2>4, <2>5
<1>7. \/ paid' = paid
      \/ \E w \in Workers : Commits(w) \/ autoMark(w)
      \/ \E id \in CalcIds, to \in CalcStatuses : changeStatus(id, to)
  <2>1. ASSUME NEW w \in Workers, Generation(w), ~ Commits(w), ~ autoMark(w)
        PROVE  paid' = paid
    BY <2>1 DEF Commits, Generation, genStart, genDeadlock, genStartCold, autoCheck, autoRead,
                autoInsert, autoPayslip, autoError, autoEnd
  <2>2. ASSUME NEW w \in Workers, Encoding(w) \/ Conversion(w)
        PROVE  paid' = paid
    BY <2>2, EncodingCases, CheckedEffect
       DEF Conversion, saveInsert, saveOverwrite, convertRead, convertInsert
  <2>3. ASSUME NEW w \in Workers,
               submitSlip(w) \/ leave(w) \/ \E id \in CalcIds : submitForApproval(w, id)
        PROVE  paid' = paid
    BY <2>3 DEF submitForApproval, submitSlip, leave
  <2>4. CASE restart \/ ensureSchema \/ UNCHANGED vars \/ \E id \in CalcIds : recalculate(id)
    BY <2>4 DEF recalculate, ensureSchema, restart, vars
  <2> QED BY <2>1, <2>2, <2>3, <2>4 DEF Next, Review
<1> QED BY <1>2, <1>3, <1>4, <1>5, <1>6, <1>7

-----------------------------------------------------------------------------
(* What the handlers know *)

LEMMA NamedStep ==
  ASSUME TypeOK, NamedRows, [Next]_vars
  PROVE  NamedRows'
<1> DEFINE Named(j) ==
      /\ j.pc \in {"submitSlip", "overwrite"} => calc'[j.id].status # "absent"
      /\ j.pc \in {"payslip", "mark"} =>
           /\ calc'[j.id].run = j.period
           /\ calc'[j.id].listed = j.plan[j.emp]
      /\ j.pc = "payslip" => j.emp \notin Agency
<1> SUFFICES ASSUME NEW x \in Workers PROVE Named(job'[x])
  BY DEF NamedRows, Exists
<1>1. KeepsRows
  BY RowsKept
<1>2. \A id \in CalcIds : Exists(id) => calc'[id].status # "absent"
  BY <1>1, StatusSets DEF KeepsRows, CalcRows
<1>3. Named(job[x])
  <2>1. CASE job[x].pc \in {"submitSlip", "overwrite"}
    BY <2>1, <1>2 DEF NamedRows, TypeOK, JobOK
  <2>2. CASE job[x].pc \in {"payslip", "mark"}
    <3>1. job[x].id \in CalcIds /\ job[x].period \in Periods
      BY <2>2 DEF TypeOK, JobOK, Loop
    <3>2. Exists(job[x].id)
      BY <2>2, <3>1, RowOfRun, NoneAssumption DEF NamedRows
    <3> QED BY <2>2, <3>1, <3>2, <1>1 DEF NamedRows, KeepsRows
  <2> QED BY <2>1, <2>2
<1>4. CASE job'[x] = job[x]
  BY <1>3, <1>4
<1> DEFINE Elsewhere == {"idle", "open", "loop", "read", "insert", "save", "convert"}
<1>5. CASE job'[x].pc \in Elsewhere
  BY <1>5
<1>6. ASSUME NEW w \in Workers, autoInsert(w), job'[x] # job[x]
      PROVE  Named(job'[x])
  <2> DEFINE e == job[w].emp
             p == job[w].period
  <2>1. x = w /\ job[w] \in Jobs
    BY <1>6 DEF autoInsert, Goto, TypeOK
  <2>2. NextId(e) \in CalcIds
    BY <1>6, NextIdIsFree DEF autoInsert
  <2>3. calc'[NextId(e)].run = p /\ calc'[NextId(e)].listed = job[w].plan[e]
    BY <1>6, <2>2 DEF autoInsert, CalcRow, TypeOK
  <2>4. /\ job'[w].pc = (IF e \in Agency THEN "mark" ELSE "payslip")
        /\ job'[w].id = NextId(e) /\ job'[w].emp = e
        /\ job'[w].period = p /\ job'[w].plan = job[w].plan
    BY <1>6, <2>1 DEF autoInsert, Goto, TypeOK, Jobs
  <2> QED BY <2>1, <2>3, <2>4
<1>7. ASSUME NEW w \in Workers, autoPayslip(w), job'[x] # job[x]
      PROVE  Named(job'[x])
  <2>1. x = w /\ job[w] \in Jobs /\ job'[w] = [job[w] EXCEPT !.pc = "mark"]
    BY <1>7 DEF autoPayslip, Goto, TypeOK
  <2>2. job[w].pc = "payslip"
    BY <1>7 DEF autoPayslip
  <2> QED BY <1>3, <2>1, <2>2 DEF Jobs
<1>8. ASSUME NEW w \in Workers, NEW id \in CalcIds, submitForApproval(w, id), job'[x] # job[x]
      PROVE  Named(job'[x])
  <2>1. calc[id].status \in CalcStatuses
    BY <1>8, StatusSets DEF submitForApproval
  <2>2. Exists(id)
    BY <2>1, StatusSets DEF Exists
  <2>3. job'[x].pc = "submitSlip" /\ job'[x].id = id
    BY <1>8 DEF submitForApproval, Goto, TypeOK, Free
  <2> QED BY <1>2, <2>2, <2>3
<1>9. ASSUME NEW w \in Workers, Checked(w), job'[x] # job[x]
      PROVE  Named(job'[x])
  <2>1. \/ job'[x].pc = "save"
        \/ job'[x].pc = "overwrite" /\ job'[x].id \in CalcIds /\ Exists(job'[x].id)
    BY <1>9, CheckedJobs
  <2> QED BY <1>2, <1>5, <2>1
<1>10. ASSUME NEW w \in Workers, Transaction(w), job'[x] # job[x]
       PROVE  job'[x].pc \in Elsewhere
  <2>1. ASSUME NEW p \in Periods, NEW E \in SUBSET Employees, NEW T \in SUBSET Employees,
               genStart(w, p, E, T)
        PROVE  job'[x].pc = "open"
    BY <1>10, <2>1 DEF genStart, Goto, TypeOK, Free
  <2>2. ASSUME NEW p \in Periods, NEW E \in SUBSET Employees, genStartCold(w, p, E)
        PROVE  job'[x].pc = "loop"
    BY <1>10, <2>2 DEF genStartCold, Goto, TypeOK, Free
  <2>3. CASE genCommit(w)
    BY <1>10, <2>3 DEF genCommit, Goto, Return, TypeOK, Free
  <2>4. CASE genDeadlock(w)
    BY <1>10, <2>4 DEF genDeadlock, Goto, TypeOK, Free
  <2>5. CASE genSplit(w)
    <3>1. PICK e \in job[w].todo, Later \in SUBSET Employees :
            Goto(w, [Free EXCEPT !.pc = "read", !.period = job[w].period, !.emp = e,
                                 !.todo = job[w].todo \cup Later])
      BY <2>5 DEF genSplit
    <3> QED BY <1>10, <3>1 DEF Goto, TypeOK, Free
  <2> QED BY <1>10, <2>1, <2>2, <2>3, <2>4, <2>5 DEF Transaction
<1>11. ASSUME NEW w \in Workers, Autocommitted(w), ~ autoInsert(w), ~ autoPayslip(w),
              job'[x] # job[x]
       PROVE  job'[x].pc \in Elsewhere
  <2>1. ASSUME NEW e, Continue(w, e)
        PROVE  job'[x].pc = "loop"
    BY <1>11, <2>1 DEF Continue, Goto, TypeOK, Free
  <2>2. CASE autoRead(w)
    <3> DEFINE e == job[w].emp
               f == Available(e, job[w].period)
    <3>1. Continue(w, e) \/ Goto(w, [job[w] EXCEPT !.pc = "insert", !.plan[e] = f])
      BY <2>2 DEF autoRead
    <3> HIDE DEF e, f
    <3>2. ASSUME Goto(w, [job[w] EXCEPT !.pc = "insert", !.plan[e] = f])
          PROVE  job'[x].pc = "insert"
      BY <1>11, <3>2 DEF Goto, TypeOK, Jobs
    <3> QED BY <2>1, <3>1, <3>2
  <2>5. CASE autoCheck(w)
    <3>1. PICK e \in job[w].todo :
            Continue(w, e) \/ Goto(w, [job[w] EXCEPT !.pc = "read", !.emp = e])
      BY <2>5 DEF autoCheck
    <3>2. ASSUME Goto(w, [job[w] EXCEPT !.pc = "read", !.emp = e])
          PROVE  job'[x].pc = "read"
      BY <1>11, <3>2 DEF Goto, TypeOK, Jobs
    <3> QED BY <2>1, <3>1, <3>2
  <2>3. CASE autoMark(w) \/ autoError(w)
    BY <2>1, <2>3 DEF autoMark, autoError
  <2>4. CASE autoEnd(w)
    BY <1>11, <2>4 DEF autoEnd, Goto, Return, TypeOK, Free
  <2> QED BY <1>11, <2>2, <2>3, <2>4, <2>5 DEF Autocommitted
<1>12. ASSUME NEW w \in Workers, Return(w), job'[x] # job[x]
       PROVE  job'[x].pc \in Elsewhere
  BY <1>12 DEF Return, Goto, TypeOK, Free
<1>13. CASE ensureSchema
  BY <1>4, <1>13 DEF ensureSchema
<1>14. ASSUME NEW w \in Workers, Conversion(w), job'[x] # job[x]
       PROVE  job'[x].pc \in Elsewhere
  <2>1. ASSUME NEW p \in Periods, convertRead(w, p)
        PROVE  job'[x].pc = "convert"
    BY <1>14, <2>1 DEF convertRead, Goto, TypeOK, Free
  <2>2. CASE convertInsert(w)
    <3>1. PICK id \in job[w].todo : Goto(w, [job[w] EXCEPT !.todo = @ \ {id}])
      BY <2>2 DEF convertInsert
    <3> QED BY <1>14, <2>2, <3>1 DEF convertInsert, Goto, TypeOK, Jobs
  <2> QED BY <1>14, <2>1, <2>2 DEF Conversion
<1>15. CASE restart
  BY <1>5, <1>15 DEF restart, Free
<1>16. CASE Review
  <2>1. job' = job
    BY <1>16 DEF Review, changeStatus, recalculate
  <2> QED BY <1>4, <2>1
<1>17. CASE UNCHANGED vars
  BY <1>4, <1>17 DEF vars
<1>18. ASSUME NEW w \in Workers, Generation(w)
       PROVE  Named(job'[x])
  BY <1>4, <1>5, <1>6, <1>7, <1>10, <1>11, <1>18 DEF Generation, Transaction, Autocommitted
<1>19. ASSUME NEW w \in Workers, Encoding(w)
       PROVE  Named(job'[x])
  BY <1>4, <1>5, <1>9, <1>12, <1>19, EncodingCases DEF saveInsert, saveOverwrite
<1>20. ASSUME NEW w \in Workers, submitSlip(w) \/ leave(w)
       PROVE  Named(job'[x])
  BY <1>4, <1>5, <1>12, <1>20 DEF submitSlip, leave
<1> HIDE DEF Named
<1> QED BY <1>4, <1>5, <1>8, <1>13, <1>14, <1>15, <1>16, <1>17, <1>18, <1>19, <1>20 DEF Next

-----------------------------------------------------------------------------
(* Payslips and their calculations *)

SlipChange ==
  \/ \E w \in Workers : \/ Commits(w) \/ autoInsert(w) \/ autoPayslip(w)
                         \/ saveInsert(w) \/ saveOverwrite(w)
                         \/ submitSlip(w) \/ convertInsert(w)
  \/ \E w \in Workers, id \in CalcIds : submitForApproval(w, id)
  \/ \E id \in CalcIds, to \in CalcStatuses : changeStatus(id, to)
  \/ \E id \in CalcIds : recalculate(id)
  \/ \E Drafts \in SUBSET DraftIds : forReview(Drafts) /\ slip' = slip /\ overwritten' = overwritten

LEMMA ChangeStep ==
  ASSUME TypeOK, [Next]_vars
  PROVE  /\ SlipChange \/ (calc' = calc /\ slip' = slip /\ overwritten' = overwritten)
         /\ loose \subseteq loose'
<1> DEFINE Same == calc' = calc /\ slip' = slip /\ overwritten' = overwritten
           Goal == (SlipChange \/ Same) /\ loose \subseteq loose'
<1>1. ASSUME NEW w \in Workers, Generation(w)
      PROVE  Goal
  <2>1. ASSUME NEW p \in Periods, NEW E \in SUBSET Employees, genStartCold(w, p, E)
        PROVE  SlipChange /\ loose \subseteq loose'
    BY <2>1 DEF genStartCold, SlipChange
  <2>2. ASSUME Commits(w) \/ autoInsert(w) \/ autoPayslip(w)
        PROVE  SlipChange /\ loose \subseteq loose'
    BY <2>2, CommitsWritten DEF SlipChange, autoInsert, autoPayslip
  <2>3. ASSUME \/ \E p \in Periods, E, T \in SUBSET Employees : genStart(w, p, E, T)
               \/ genDeadlock(w) \/ autoCheck(w) \/ autoRead(w) \/ autoMark(w)
               \/ autoError(w) \/ autoEnd(w)
        PROVE  Same /\ loose' = loose
    BY <2>3 DEF genStart, genDeadlock, autoCheck, autoRead, autoMark, autoError, autoEnd
  <2> HIDE DEF Same
  <2> QED BY <1>1, <2>1, <2>2, <2>3 DEF Generation, Commits
<1>2. ASSUME NEW w \in Workers, Encoding(w)
      PROVE  Goal
  BY <1>2, EncodingCases, CheckedEffect DEF SlipChange, saveInsert, saveOverwrite
<1>3. ASSUME NEW w \in Workers, Conversion(w)
      PROVE  Goal
  BY <1>3 DEF Conversion, SlipChange, convertRead, convertInsert
<1>4. ASSUME NEW w \in Workers,
             leave(w) \/ submitSlip(w) \/ \E id \in CalcIds : submitForApproval(w, id)
      PROVE  Goal
  BY <1>4 DEF SlipChange, leave, submitSlip, submitForApproval
<1>5. ASSUME Review
      PROVE  Goal
  BY <1>5 DEF Review, SlipChange, changeStatus, recalculate
<1>6. ASSUME restart
      PROVE  Goal
  BY <1>6 DEF restart
<1>10. ASSUME UNCHANGED vars
       PROVE  Goal
  BY <1>10 DEF vars
<1>8. ASSUME ensureSchema
      PROVE  Goal
  <2>1. SlipChange
    BY <1>8 DEF SlipChange, ensureSchema
  <2>2. loose' = loose
    BY <1>8 DEF ensureSchema
  <2> HIDE DEF Same
  <2> QED BY <2>1, <2>2
<1> HIDE DEF Goal
<1>9. ASSUME NEW w \in Workers,
             \/ Generation(w) \/ Encoding(w) \/ Conversion(w)
             \/ \E id \in CalcIds : submitForApproval(w, id)
             \/ submitSlip(w) \/ leave(w)
      PROVE  Goal
  BY <1>1, <1>2, <1>3, <1>4, <1>9
<1>7. Goal
  BY <1>5, <1>6, <1>8, <1>9, <1>10 DEF Next
<1> QED BY <1>7 DEF Goal, Same

(* What a generation of p commits, new being the employees it generated:   *)
(* the next free calculation of each, and its payslip unless of an agency. *)
Committed(new, p) ==
  /\ p \in Periods
  /\ \A e \in new : NextId(e) \in CalcIds /\ Emp(NextId(e)) = e /\ ~ Exists(NextId(e))
  /\ \A e \in new \ Agency : slip[p][e] = NoSlip
  /\ \A id \in CalcIds :
       IF id = NextId(Emp(id)) /\ Emp(id) \in new
       THEN calc'[id].run = p ELSE calc'[id] = calc[id]
  /\ \A q \in Periods, e \in Employees :
       IF q = p /\ e \in new \ Agency
       THEN slip'[q][e].calc = NextId(e) /\ slip'[q][e].status = "For Review"
       ELSE slip'[q][e] = slip[q][e]

(* The payslips of a committed generation: one for each employee who gets  *)
(* a calculation and a payslip, none of them there before.                 *)
LEMMA CommitEffect ==
  ASSUME TypeOK, NEW w \in Workers, Commits(w)
  PROVE  \E new \in SUBSET Employees : Committed(new, job[w].period)
<1> DEFINE p == job[w].period
<1>1. PICK Failed \in SUBSET Employees :
        /\ calc' = [x \in CalcIds |->
                      IF x \in {NextId(e) : e \in Generated(job[w], Failed)}
                      THEN CalcRow("For Review", p, p, job[w].plan[Emp(x)])
                      ELSE calc[x]]
        /\ slip' = [slip EXCEPT ![p] = [e \in Employees |->
                      IF e \in Generated(job[w], Failed) \ Agency
                      THEN SlipRow(NextId(e), "For Review") ELSE slip[p][e]]]
  BY CommitsWritten DEF committed
<1> DEFINE new == Generated(job[w], Failed)
<1>2. new \in SUBSET Employees
  BY DEF Generated
<1>3. p \in Periods
  BY CommitsWritten DEF TypeOK, JobOK
<1>4. \A e \in new : NextId(e) \in CalcIds /\ Emp(NextId(e)) = e /\ ~ Exists(NextId(e))
  BY NextIdIsFree DEF Generated
<1>5. \A e \in new \ Agency : slip[p][e] = NoSlip
  BY DEF Generated
<1>6. \A id \in CalcIds : IF id = NextId(Emp(id)) /\ Emp(id) \in new
                          THEN calc'[id].run = p ELSE calc'[id] = calc[id]
  BY <1>1, <1>4 DEF CalcRow
<1>7. \A q \in Periods, e \in Employees :
        IF q = p /\ e \in new \ Agency
        THEN slip'[q][e].calc = NextId(e) /\ slip'[q][e].status = "For Review"
        ELSE slip'[q][e] = slip[q][e]
  BY <1>1, <1>3 DEF SlipRow, TypeOK
<1> HIDE DEF new
<1> QED BY <1>2, <1>3, <1>4, <1>5, <1>6, <1>7 DEF Committed

LEMMA ConvertEffect ==
  ASSUME TypeOK, NEW w \in Workers, convertInsert(w)
  PROVE  \/ slip' = slip
         \/ \E id \in CalcIds :
              LET p == job[w].period
                  e == Emp(id)
              IN  /\ p \in Periods /\ e \in Employees \ Agency /\ slip[p][e] = NoSlip
                  /\ slip' = [slip EXCEPT ![p][e] = SlipRow(id, "Approved")]
<1>1. /\ job[w].period \in Periods
      /\ job[w].todo \subseteq {id \in CalcIds : Emp(id) \notin Agency}
  BY DEF convertInsert, TypeOK, JobOK
<1>2. \A id \in CalcIds : Emp(id) \in Employees
  BY DEF CalcIds, Emp
<1> QED BY <1>1, <1>2 DEF convertInsert

LEMMA SlipsSetEffect ==
  ASSUME TypeOK, NEW id \in CalcIds, NEW st, slip' = slipsSet(id, st),
         NEW p \in Periods, NEW e \in Employees
  PROVE  /\ OwnsSlip(id, p, e) => /\ slip[p][e] # NoSlip
                                  /\ slip'[p][e].calc = slip[p][e].calc
                                  /\ slip'[p][e].status = st
         /\ ~ OwnsSlip(id, p, e) => slip'[p][e] = slip[p][e]
<1>1. slip[p][e] # NoSlip => slip[p][e] \in SlipRows
  BY DEF TypeOK
<1> QED BY <1>1 DEF slipsSet, OwnsSlip, SlipRows

(* Three handlers set the status of what a calculation owns.               *)
LEMMA SlipsSetBy ==
  ASSUME TypeOK, SlipChange
  PROVE  \/ \E w \in Workers : Commits(w) \/ autoPayslip(w) \/ convertInsert(w)
         \/ slip' = slip
         \/ \E id \in CalcIds : \E st : slip' = slipsSet(id, st)
<1>1. ASSUME NEW w \in Workers, submitSlip(w)
      PROVE  job[w].id \in CalcIds /\ slip' = slipsSet(job[w].id, "For Approval")
  BY <1>1 DEF submitSlip, TypeOK, JobOK
<1>2. ASSUME NEW id \in CalcIds, NEW to \in CalcStatuses, changeStatus(id, to)
      PROVE  slip' = slipsSet(id, payslipStatus(to))
  BY <1>2 DEF changeStatus
<1>3. ASSUME NEW id \in CalcIds, recalculate(id)
      PROVE  slip' = slipsSet(id, "For Review")
  BY <1>3 DEF recalculate
<1> QED BY <1>1, <1>2, <1>3 DEF SlipChange, autoInsert, saveInsert, saveOverwrite,
                               submitForApproval

(* A generation without its transaction inserts a payslip that is new.     *)
LEMMA AutoPayslipEffect ==
  ASSUME TypeOK, NamedRows, NEW w \in Workers, autoPayslip(w)
  PROVE  \A p \in Periods, e \in Employees :
           IF p = job[w].period /\ e = job[w].emp
           THEN /\ slip[p][e] = NoSlip /\ e \notin Agency
                /\ slip'[p][e].status = "For Review"
           ELSE slip'[p][e] = slip[p][e]
<1> DEFINE q == job[w].period
           f == job[w].emp
           new == SlipRow(job[w].id, "For Review")
<1>1. q \in Periods /\ f \in Employees
  BY DEF autoPayslip, TypeOK, JobOK, Loop
<1>2. slip[q][f] = NoSlip /\ f \notin Agency
  BY DEF autoPayslip, NamedRows
<1>3. new.status = "For Review"
  BY DEF SlipRow
<1>4. slip' = [slip EXCEPT ![q][f] = new]
  BY DEF autoPayslip
<1>5. slip \in [Periods -> [Employees -> SlipRows \cup {NoSlip}]]
  BY DEF TypeOK
<1> HIDE DEF q, f, new
<1>6. \A p \in Periods, e \in Employees :
        slip'[p][e] = IF p = q /\ e = f THEN new ELSE slip[p][e]
  BY <1>1, <1>4, <1>5
<1> QED BY <1>2, <1>3, <1>6 DEF q, f

LEMMA AgencyStep ==
  ASSUME TypeOK, NamedRows, AgencyWithoutSlips, [Next]_vars
  PROVE  AgencyWithoutSlips'
<1> SUFFICES ASSUME NEW p \in Periods, NEW e \in Employees, e \in Agency
             PROVE  slip'[p][e] = NoSlip
  BY DEF AgencyWithoutSlips
<1>1. SlipChange \/ slip' = slip
  BY ChangeStep
<1>2. slip[p][e] = NoSlip
  BY DEF AgencyWithoutSlips
<1>3. CASE slip' = slip
  BY <1>2, <1>3
<1>7. ASSUME NEW w \in Workers, autoPayslip(w)
      PROVE  slip'[p][e] = NoSlip
  BY <1>2, <1>7, AutoPayslipEffect
<1>4. ASSUME NEW w \in Workers, Commits(w)
      PROVE  slip'[p][e] = NoSlip
  <2>1. PICK new \in SUBSET Employees : Committed(new, job[w].period)
    BY <1>4, CommitEffect
  <2> QED BY <1>2, <2>1 DEF Committed
<1>5. ASSUME NEW w \in Workers, convertInsert(w)
      PROVE  slip'[p][e] = NoSlip
  <2>1. CASE slip' = slip
    BY <1>2, <2>1
  <2>2. CASE slip' # slip
    <3>1. PICK id \in CalcIds :
            /\ job[w].period \in Periods /\ Emp(id) \in Employees \ Agency
            /\ slip' = [slip EXCEPT ![job[w].period][Emp(id)] = SlipRow(id, "Approved")]
      BY <1>5, <2>2, ConvertEffect
    <3> QED BY <1>2, <3>1 DEF TypeOK
  <2> QED BY <2>1, <2>2
<1>6. ASSUME NEW id \in CalcIds, NEW st, slip' = slipsSet(id, st)
      PROVE  slip'[p][e] = NoSlip
  BY <1>2, <1>6, SlipsSetEffect
<1> QED BY <1>1, <1>3, <1>4, <1>5, <1>6, <1>7, SlipsSetBy

(* A payslip stays the payslip of its calculation.                         *)
LEMMA SlipCalcKept ==
  ASSUME TypeOK, NamedRows, [Next]_vars,
         NEW p \in Periods, NEW e \in Employees, slip[p][e] # NoSlip
  PROVE  slip'[p][e].calc = slip[p][e].calc
<1>1. SlipChange \/ slip' = slip
  BY ChangeStep
<1>2. CASE slip' = slip
  BY <1>2
<1>6. ASSUME NEW w \in Workers, autoPayslip(w)
      PROVE  slip'[p][e].calc = slip[p][e].calc
  <2>1. slip'[p][e] = slip[p][e]
    BY <1>6, AutoPayslipEffect
  <2> QED BY <2>1
<1>3. ASSUME NEW w \in Workers, Commits(w)
      PROVE  slip'[p][e].calc = slip[p][e].calc
  <2>1. PICK new \in SUBSET Employees : Committed(new, job[w].period)
    BY <1>3, CommitEffect
  <2>2. ~ (p = job[w].period /\ e \in new \ Agency)
    BY <2>1 DEF Committed
  <2>3. slip'[p][e] = slip[p][e]
    BY <2>1, <2>2 DEF Committed
  <2> QED BY <2>3
<1>4. ASSUME NEW w \in Workers, convertInsert(w)
      PROVE  slip'[p][e].calc = slip[p][e].calc
  <2>1. CASE slip' # slip
    <3>1. PICK id \in CalcIds :
            /\ job[w].period \in Periods /\ Emp(id) \in Employees
            /\ slip[job[w].period][Emp(id)] = NoSlip
            /\ slip' = [slip EXCEPT ![job[w].period][Emp(id)] = SlipRow(id, "Approved")]
      BY <1>4, <2>1, ConvertEffect
    <3>2. slip'[p][e] = slip[p][e]
      BY <3>1 DEF TypeOK
    <3> QED BY <3>2
  <2> QED BY <2>1
<1>5. ASSUME NEW id \in CalcIds, NEW st, slip' = slipsSet(id, st)
      PROVE  slip'[p][e].calc = slip[p][e].calc
  BY <1>5, SlipsSetEffect
<1> QED BY <1>1, <1>2, <1>3, <1>4, <1>5, <1>6, SlipsSetBy

(* A row that appears with a run is one a generation has committed, or has *)
(* inserted without its transaction.                                       *)
LEMMA NewRow ==
  ASSUME TypeOK, NamedRows, SlipChange \/ calc' = calc,
         NEW id \in CalcIds \ loose', ~ Exists(id), calc'[id].run # None
  PROVE  \E w \in Workers : Commits(w)
<1>1. calc[id] = NoCalc /\ calc[id].run = None
  <2>1. calc[id] \notin CalcRows
    BY StatusSets DEF Exists, CalcRows
  <2> QED BY <2>1 DEF TypeOK, NoCalc, CalcRow
<1>2. calc' # calc
  BY <1>1
<1>3. ASSUME NEW w \in Workers, saveInsert(w)
      PROVE  FALSE
  BY <1>1, <1>3 DEF saveInsert, CalcRow, TypeOK
<1>4. ASSUME NEW w \in Workers, saveOverwrite(w)
      PROVE  FALSE
  <2>1. job[w].id # id
    BY <1>4 DEF saveOverwrite, NamedRows
  <2> QED BY <1>1, <1>4, <2>1 DEF saveOverwrite, TypeOK
<1>5. ASSUME NEW x \in CalcIds, calc[x].status \in CalcStatuses, NEW st,
             calc' = [calc EXCEPT ![x].status = st]
      PROVE  FALSE
  <2>1. x # id
    BY <1>5, StatusSets DEF Exists
  <2> QED BY <1>1, <1>5, <2>1 DEF TypeOK
<1>6. ASSUME NEW w \in Workers, NEW x \in CalcIds, submitForApproval(w, x)
      PROVE  FALSE
  <2>1. calc[x].status \in CalcStatuses /\ calc' = [calc EXCEPT ![x].status = "For Approval"]
    BY <1>6, StatusSets DEF submitForApproval
  <2> QED BY <1>5, <2>1
<1>7. ASSUME NEW x \in CalcIds, NEW to \in CalcStatuses, changeStatus(x, to)
      PROVE  FALSE
  <2>1. calc[x].status \in CalcStatuses /\ calc' = [calc EXCEPT ![x].status = to]
    BY <1>7, StatusSets DEF changeStatus
  <2> QED BY <1>5, <2>1
<1>8. ASSUME NEW Drafts \in SUBSET DraftIds, forReview(Drafts)
      PROVE  FALSE
  BY <1>1, <1>8, ForReviewEffect
<1>9. ASSUME NEW w \in Workers, autoInsert(w)
      PROVE  FALSE
  <2>1. NextId(job[w].emp) # id
    BY <1>9 DEF autoInsert
  <2> QED BY <1>1, <1>9, <2>1 DEF autoInsert, TypeOK
<1> QED BY <1>2, <1>3, <1>4, <1>6, <1>7, <1>8, <1>9
        DEF SlipChange, autoPayslip, submitSlip, convertInsert, recalculate

(* The invariant step of AllOrNothing: a calculation is committed together *)
(* with its payslip, which no other handler takes over.                    *)
LEMMA AllOrNothingStep ==
  ASSUME TypeOK, NamedRows, AllOrNothing, [Next]_vars
  PROVE  AllOrNothing'
<1> SUFFICES ASSUME NEW id \in CalcIds \ loose',
                    calc'[id].run # None, Emp(id) \notin Agency
             PROVE  slip'[calc'[id].run][Emp(id)].calc = id
  BY DEF AllOrNothing
<1>1. id \notin loose /\ (SlipChange \/ calc' = calc)
  BY ChangeStep
<1>2. Emp(id) \in Employees
  BY DEF CalcIds, Emp
<1>3. CASE Exists(id)
  <2>1. calc[id] \in CalcRows /\ calc'[id].run = calc[id].run
    BY <1>3, RowsKept, RowsOfType DEF KeepsRows
  <2>2. calc[id].run \in Periods
    BY <2>1 DEF CalcRows
  <2>3. slip[calc[id].run][Emp(id)].calc = id
    BY <1>1, <2>1 DEF AllOrNothing
  <2>4. slip[calc[id].run][Emp(id)] # NoSlip
    BY <2>3, NoneAssumption DEF NoSlip, SlipRow, CalcIds
  <2> QED BY <1>2, <2>1, <2>2, <2>3, <2>4, SlipCalcKept
<1>4. CASE ~ Exists(id)
  <2>1. PICK w \in Workers : Commits(w)
    BY <1>1, <1>4, NewRow
  <2>2. calc[id] = NoCalc /\ calc[id].run = None
    <3>1. calc[id] \notin CalcRows
      BY <1>4, StatusSets DEF Exists, CalcRows
    <3> QED BY <3>1 DEF TypeOK, NoCalc, CalcRow
  <2> DEFINE p == job[w].period
  <2>3. PICK new \in SUBSET Employees : Committed(new, p)
    BY <2>1, CommitEffect
  <2> HIDE DEF p
  <2>4. id = NextId(Emp(id)) /\ Emp(id) \in new
    BY <2>2, <2>3 DEF Committed
  <2>5. calc'[id].run = p
    BY <2>3, <2>4 DEF Committed
  <2>6. slip'[p][Emp(id)].calc = id
    BY <1>2, <2>3, <2>4 DEF Committed
  <2> QED BY <2>5, <2>6
<1> QED BY <1>3, <1>4

(* What PayslipNotAhead says of one payslip.                               *)
Behind(st, cst) ==
  /\ st = "Released" => cst \in {"Released", "Paid"}
  /\ st = "Locked" => cst = "Locked"

(* The invariant step of PayslipNotAhead: a change of status reaches every *)
(* payslip of its calculation, and no payslip of another one.              *)
LEMMA AheadStep ==
  ASSUME TypeOK, NamedRows, AgencyWithoutSlips, AllOrNothing, PayslipNotAhead, [Next]_vars
  PROVE  PayslipNotAhead'
<1> SUFFICES ASSUME NEW p \in Periods, NEW e \in Employees,
                    slip'[p][e] # NoSlip, slip'[p][e].calc \notin overwritten',
                    ~ \E other \in loose' \ {slip'[p][e].calc} :
                        calc'[other].run = p /\ Emp(other) = e
             PROVE  Behind(slip'[p][e].status, calc'[slip'[p][e].calc].status)
  BY DEF PayslipNotAhead, SharesSlip, Behind
<1>1. /\ SlipChange \/ (calc' = calc /\ slip' = slip /\ overwritten' = overwritten)
      /\ loose \subseteq loose'
  BY ChangeStep
<1> DEFINE c == slip[p][e].calc
<1>19. slip'[p][e].calc = c => ~ SharesSlip(c, p, e)
  <2>1. ASSUME NEW other \in loose, calc[other].run = p
        PROVE  other \in loose' /\ calc'[other].run = p
    <3>1. other \in CalcIds
      BY DEF TypeOK
    <3>2. Exists(other)
      BY <2>1, <3>1, RowOfRun, NoneAssumption
    <3> QED BY <1>1, <2>1, <3>1, <3>2, RowsKept DEF KeepsRows
  <2> HIDE DEF c
  <2> QED BY <2>1 DEF SharesSlip
<1>2. slip[p][e] # NoSlip /\ c \notin overwritten /\ slip'[p][e].calc = c
        => Behind(slip[p][e].status, calc[c].status)
  BY <1>19 DEF PayslipNotAhead, Behind
<1>3. slip[p][e] # NoSlip => slip[p][e] \in SlipRows /\ c \in CalcIds
  BY DEF TypeOK, SlipRows
<1>4. ASSUME calc' = calc, overwritten' = overwritten, slip'[p][e] = slip[p][e]
      PROVE  Behind(slip'[p][e].status, calc'[slip'[p][e].calc].status)
  BY <1>2, <1>4
<1>5. ASSUME slip'[p][e] = slip[p][e], overwritten \subseteq overwritten',
             calc[c].status \notin LockedStatuses
      PROVE  Behind(slip'[p][e].status, calc'[slip'[p][e].calc].status)
  BY <1>2, <1>5 DEF Behind, LockedStatuses
<1>6. ASSUME NEW st, st \notin {"Released", "Locked"}, slip'[p][e].status = st
      PROVE  Behind(slip'[p][e].status, calc'[slip'[p][e].calc].status)
  BY <1>6 DEF Behind
<1>7. ASSUME slip'[p][e] = slip[p][e], overwritten \subseteq overwritten', calc'[c] = calc[c]
      PROVE  Behind(slip'[p][e].status, calc'[slip'[p][e].calc].status)
  BY <1>2, <1>7
<1>8. ~ Exists(c) => calc[c].status \notin LockedStatuses
  BY StatusSets DEF Exists
<1> HIDE DEF c
<1>9. ASSUME NEW w \in Workers, Commits(w)
      PROVE  Behind(slip'[p][e].status, calc'[slip'[p][e].calc].status)
  <2>1. PICK new \in SUBSET Employees : Committed(new, job[w].period)
    BY <1>9, CommitEffect
  <2>2. overwritten' = overwritten
    BY <1>9, CommitsWritten
  <2>3. CASE slip'[p][e].status = "For Review"
    BY <1>6, <2>3
  <2>4. CASE slip'[p][e] = slip[p][e]
    <3>1. c \in CalcIds
      BY <1>3, <2>4
    <3>2. ~ Exists(c) \/ calc'[c] = calc[c]
      BY <2>1, <3>1 DEF Committed
    <3> QED BY <1>5, <1>7, <1>8, <2>2, <2>4, <3>2
  <2> QED BY <2>1, <2>3, <2>4 DEF Committed
<1>10. ASSUME NEW w \in Workers, saveInsert(w)
       PROVE  Behind(slip'[p][e].status, calc'[slip'[p][e].calc].status)
  <2>1. slip' = slip /\ overwritten' = overwritten
    BY <1>10 DEF saveInsert
  <2>2. c \in CalcIds
    BY <1>3, <2>1
  <2>3. ~ Exists(c) \/ calc'[c] = calc[c]
    <3>1. ~ Exists(NextId(job[w].emp))
      BY <1>10, NextIdIsFree DEF saveInsert
    <3> QED BY <1>10, <2>2, <3>1 DEF saveInsert, TypeOK
  <2> QED BY <1>5, <1>7, <1>8, <2>1, <2>3
<1>11. ASSUME NEW w \in Workers, saveOverwrite(w)
       PROVE  Behind(slip'[p][e].status, calc'[slip'[p][e].calc].status)
  <2>1. slip' = slip /\ overwritten \subseteq overwritten'
    BY <1>11 DEF saveOverwrite
  <2>2. c \in CalcIds /\ c \notin overwritten'
    BY <1>3, <2>1 DEF c
  <2>3. CASE c = job[w].id
    <3>1. calc[c].status \notin LockedStatuses \/ calc[c].status = job[w].status
      BY <1>11, <2>2, <2>3 DEF saveOverwrite
    <3>2. calc'[c].status = job[w].status
      BY <1>11, <2>2, <2>3 DEF saveOverwrite, TypeOK, NoCalc, CalcRow, CalcRows
    <3>3. CASE calc[c].status \notin LockedStatuses
      BY <1>5, <2>1, <3>3
    <3>4. CASE calc[c].status = job[w].status
      <4>1. calc'[c].status = calc[c].status /\ slip'[p][e] = slip[p][e] /\ c \notin overwritten
        BY <2>1, <2>2, <3>2, <3>4
      <4> QED BY <1>2, <4>1 DEF c
    <3> QED BY <3>1, <3>3, <3>4
  <2>4. CASE c # job[w].id
    <3>1. calc'[c] = calc[c]
      BY <1>11, <2>2, <2>4 DEF saveOverwrite, TypeOK
    <3> QED BY <1>7, <2>1, <3>1
  <2> QED BY <2>3, <2>4
<1>12. ASSUME NEW w \in Workers, NEW id \in CalcIds, submitForApproval(w, id)
       PROVE  Behind(slip'[p][e].status, calc'[slip'[p][e].calc].status)
  <2>1. slip' = slip /\ overwritten' = overwritten
    BY <1>12 DEF submitForApproval
  <2>2. c \in CalcIds
    BY <1>3, <2>1
  <2>3. calc[id].status \notin LockedStatuses
    BY <1>12 DEF submitForApproval, Transitions, LockedStatuses
  <2>4. c # id => calc'[c] = calc[c]
    BY <1>12, <2>2 DEF submitForApproval, TypeOK
  <2> QED BY <1>5, <1>7, <2>1, <2>3, <2>4
<1>13. ASSUME NEW id \in CalcIds, NEW st, st \notin {"Released", "Locked"},
              slip' = slipsSet(id, st), calc' = calc, overwritten' = overwritten
       PROVE  Behind(slip'[p][e].status, calc'[slip'[p][e].calc].status)
  <2>1. slip'[p][e].status = st \/ slip'[p][e] = slip[p][e]
    BY <1>13, SlipsSetEffect
  <2> QED BY <1>4, <1>6, <1>13, <2>1
<1>14. ASSUME NEW w \in Workers, submitSlip(w)
       PROVE  Behind(slip'[p][e].status, calc'[slip'[p][e].calc].status)
  <2>1. PICK id \in CalcIds : id = job[w].id
    BY <1>14 DEF submitSlip, TypeOK, JobOK
  <2>2. slip' = slipsSet(id, "For Approval") /\ calc' = calc /\ overwritten' = overwritten
    BY <1>14, <2>1 DEF submitSlip
  <2> QED BY <1>13, <2>2
<1>15. ASSUME NEW id \in CalcIds, recalculate(id)
       PROVE  Behind(slip'[p][e].status, calc'[slip'[p][e].calc].status)
  BY <1>13, <1>15 DEF recalculate
<1>16. ASSUME NEW id \in CalcIds, NEW to \in CalcStatuses, changeStatus(id, to)
       PROVE  Behind(slip'[p][e].status, calc'[slip'[p][e].calc].status)
  <2>1. slip' = slipsSet(id, payslipStatus(to)) /\ overwritten' = overwritten
        /\ calc' = [calc EXCEPT ![id].status = to]
    BY <1>16 DEF changeStatus
  <2>2. CASE OwnsSlip(id, p, e)
    <3>1. slip[p][e] # NoSlip /\ slip'[p][e].calc = c /\ slip'[p][e].status = payslipStatus(to)
      BY <2>1, <2>2, SlipsSetEffect DEF c
    <3>2. c = id
      <4>1. CASE calc[id].run = p /\ Emp(id) = e
        <5>1. e \notin Agency
          BY <3>1 DEF AgencyWithoutSlips
        <5>2. CASE id \notin loose
          BY <4>1, <5>1, <5>2, NoneAssumption DEF AllOrNothing, c
        <5>3. CASE id \in loose
          BY <1>19, <3>1, <4>1, <5>3 DEF SharesSlip
        <5> QED BY <5>2, <5>3
      <4> QED BY <2>2, <4>1 DEF OwnsSlip, c
    <3>3. calc'[id].status = to
      BY <2>1 DEF TypeOK, NoCalc, CalcRow, CalcRows
    <3>4. Behind(slip'[p][e].status, to)
      BY <3>1 DEF Behind, payslipStatus
    <3>5. calc'[slip'[p][e].calc].status = to
      BY <3>1, <3>2, <3>3
    <3> QED BY <3>4, <3>5 DEF Behind
  <2>3. CASE ~ OwnsSlip(id, p, e)
    <3>1. slip'[p][e] = slip[p][e]
      BY <2>1, <2>3, SlipsSetEffect
    <3>2. c # id /\ c \in CalcIds
      BY <1>3, <2>3, <3>1 DEF OwnsSlip, c
    <3>3. calc'[c] = calc[c]
      BY <2>1, <3>2 DEF TypeOK
    <3> QED BY <1>7, <2>1, <3>1, <3>3
  <2> QED BY <2>2, <2>3
<1>17. ASSUME NEW w \in Workers, convertInsert(w)
       PROVE  Behind(slip'[p][e].status, calc'[slip'[p][e].calc].status)
  <2>1. calc' = calc /\ overwritten' = overwritten
    BY <1>17 DEF convertInsert
  <2>2. slip'[p][e] = slip[p][e] \/ slip'[p][e].status = "Approved"
    <3>1. CASE slip' # slip
      <4>1. PICK id \in CalcIds :
              /\ job[w].period \in Periods /\ Emp(id) \in Employees
              /\ slip' = [slip EXCEPT ![job[w].period][Emp(id)] = SlipRow(id, "Approved")]
        BY <1>17, <3>1, ConvertEffect
      <4> QED BY <4>1 DEF TypeOK, SlipRow
    <3> QED BY <3>1
  <2> QED BY <1>4, <1>6, <2>1, <2>2
<1>18. ASSUME NEW Drafts \in SUBSET DraftIds, forReview(Drafts),
              slip' = slip, overwritten' = overwritten
       PROVE  Behind(slip'[p][e].status, calc'[slip'[p][e].calc].status)
  <2>1. c \in CalcIds
    BY <1>3, <1>18
  <2>2. calc'[c] = calc[c] \/ calc[c].status \notin LockedStatuses
    BY <1>18, <2>1, ForReviewEffect
  <2> QED BY <1>5, <1>7, <1>18, <2>2
<1>20. ASSUME NEW w \in Workers, autoInsert(w)
       PROVE  Behind(slip'[p][e].status, calc'[slip'[p][e].calc].status)
  <2>1. slip' = slip /\ overwritten' = overwritten
    BY <1>20 DEF autoInsert
  <2>2. c \in CalcIds
    BY <1>3, <2>1
  <2>3. ~ Exists(c) \/ calc'[c] = calc[c]
    <3>1. ~ Exists(NextId(job[w].emp))
      BY <1>20, NextIdIsFree DEF autoInsert
    <3> QED BY <1>20, <2>2, <3>1 DEF autoInsert, TypeOK
  <2> QED BY <1>5, <1>7, <1>8, <2>1, <2>3
<1>21. ASSUME NEW w \in Workers, autoPayslip(w)
       PROVE  Behind(slip'[p][e].status, calc'[slip'[p][e].calc].status)
  <2>1. calc' = calc /\ overwritten' = overwritten
    BY <1>21 DEF autoPayslip
  <2>2. slip'[p][e] = slip[p][e] \/ slip'[p][e].status = "For Review"
    BY <1>21, AutoPayslipEffect
  <2> QED BY <1>4, <1>6, <2>1, <2>2
<1> QED BY <1>1, <1>4, <1>9, <1>10, <1>11, <1>12, <1>14, <1>15, <1>16, <1>17, <1>18, <1>20, <1>21
        DEF SlipChange

-----------------------------------------------------------------------------
(* The invariant holds in every reachable state: the base of the theorems  *)
(* below, for any number of employees, periods, sources and requests.      *)
THEOREM Invariance == Spec => []IInv
<1>1. IInv /\ [Next]_vars => IInv'
  BY TypeStep, NamedStep, AgencyStep, MarkedStep, AllOrNothingStep, AheadStep DEF IInv
<1> QED BY InitIInv, <1>1, PTL DEF Spec

(* Every row, status and handler keeps its type (payroll.js, the ENUMs and *)
(* keys of its schema).                                                    *)
THEOREM TypeCorrect == Spec => []TypeOK
<1>1. IInv => TypeOK
  BY DEF IInv
<1> QED BY <1>1, Invariance, PTL

(* No employee is generated in part by the transaction of a generation,    *)
(* however generations, conversions and status changes interleave and      *)
(* wherever the transaction ends (POST /generate).                         *)
THEOREM GeneratedTogether == Spec => []AllOrNothing
<1>1. IInv => AllOrNothing
  BY DEF IInv
<1> QED BY <1>1, Invariance, PTL

(* What is left of OnePaymentPerPeriod, which the code does not keep: the  *)
(* run and employee of a calculation that a transaction generated identify *)
(* it among those.                                                         *)
OneGeneratedPerRun ==
  \A id, other \in CalcIds \ loose :
    (/\ calc[id].run # None /\ calc[other].run = calc[id].run
     /\ Emp(other) = Emp(id) /\ Emp(id) \notin Agency)
      => id = other

(* The transactions of the generations of a run, of any number of requests *)
(* at once, pay no employee by two calculations, agencies aside: a second  *)
(* calculation of the run and employee was generated after a transaction   *)
(* had ended (the UNIQUE key of payslips, POST /generate).                 *)
THEOREM RunsPayOnce == Spec => []OneGeneratedPerRun
<1>1. AllOrNothing => OneGeneratedPerRun
  BY DEF AllOrNothing, OneGeneratedPerRun
<1> QED BY <1>1, GeneratedTogether, PTL

(* A source that a run has consumed is listed by a calculation of that     *)
(* run, transaction or not (mark...Paid).                                  *)
THEOREM SourcesListed == Spec => []MarkedIsListed
<1>1. IInv => MarkedIsListed
  BY DEF IInv
<1> QED BY <1>1, Invariance, PTL

(* A payslip is released or locked only with its calculation (PATCH        *)
(* /salary-calculations/:id/status).                                       *)
THEOREM PayslipsFollow == Spec => []PayslipNotAhead
<1>1. IInv => PayslipNotAhead
  BY DEF IInv
<1> QED BY <1>1, Invariance, PTL
=============================================================================
