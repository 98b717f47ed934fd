----------------------------- MODULE PayrollRun -----------------------------
(***************************************************************************)
(* Generation of payroll: the rows payroll_runs, salary_calculations and   *)
(* payslips of the periods, the source records (attendance days, trips,    *)
(* outputs) they consume, and the payroll.js handlers that write them.     *)
(*                                                                         *)
(* POST /generate begins in one transaction with one savepoint per         *)
(* employee: what it reads is the snapshot of its first read, what it      *)
(* writes is guarded by row locks, unique keys and the predicates of its   *)
(* UPDATEs, and becomes visible at the commit.  It is therefore the step   *)
(* genStart, which reads, and the step genCommit, which writes.  Three     *)
(* things end that transaction early: the schema DDL of the first use in   *)
(* a process and that of the first employee paid by time, which commit     *)
(* it, and a deadlock, which rolls it back.  The loop goes on all the      *)
(* same, one autocommitted statement per step.                             *)
(***************************************************************************)
EXTENDS Naturals

CONSTANTS
  Employees,
  Agency,      (* the employees of an agency, who get no payslip            *)
  TimePaid,    (* the employees who may be daily, hourly or monthly         *)
  WorkPaid,    (* those who may be paid by piece or trip: a wage type can   *)
               (* be edited, so an employee may be among both               *)
  Periods,     (* payroll_runs.month_year: months and weeks may overlap     *)
  Sources,     (* attendance days, delivery trips, piece outputs            *)
  Owners,      (* Owners[s]: the employees a source pays                    *)
  Covers,      (* Covers[p]: the sources dated within a period              *)
  Workers,     (* request handlers that may be active at once               *)
  MaxCalcs,    (* bound: salary calculations per employee                   *)
  None

ASSUME EmployeesAssumption ==
  Agency \subseteq Employees /\ TimePaid \subseteq Employees /\ WorkPaid \subseteq Employees
ASSUME OwnersAssumption == Owners \in [Sources -> SUBSET Employees]
ASSUME CoversAssumption == Covers \in [Periods -> SUBSET Sources]
ASSUME MaxCalcsAssumption == MaxCalcs \in Nat
ASSUME NoneAssumption == None \notin Periods /\ None \notin Employees \X (1..MaxCalcs)

VARIABLES
  runs,        (* the periods that have a payroll_runs row                 *)
  calc,        (* calc[id]: the salary calculation row                     *)
  slip,        (* slip[p][e]: the payslip row (UNIQUE payroll_run, employee) *)
  paid,        (* paid[s]: the run a source was consumed by (payroll_run_id) *)
  warm,        (* pieceRatePayrollSchemaReadyPromise is set in the process *)
  job,         (* job[w]: the handler of w                                 *)
  loose,       (* history: calculations generated outside of a transaction *)
  overwritten  (* history: calculations a stale save took a lock status from *)

vars == <<runs, calc, slip, paid, warm, job, loose, overwritten>>

(* Calculated is merged with Draft, and Finalized, which no handler        *)
(* assigns, is left out.  So is the status of a run, which is displayed    *)
(* and decides whether its dates may still be extended.                    *)
LockedStatuses == {"Approved", "Released", "Locked", "Paid"}
ReviewableStatuses == {"Draft", "For Review"}
CalcStatuses == ReviewableStatuses \cup {"Submitted", "For Approval"} \cup LockedStatuses
SlipStatuses == {"For Review", "For Approval", "Approved", "Released", "Locked"}

CalcIds == Employees \X (1..MaxCalcs)
Emp(id) == id[1]

(* run is payroll_run_id, listed is source_record_ids.                     *)
CalcRow(st, p, r, l) == [status |-> st, period |-> p, run |-> r, listed |-> l]
NoCalc == CalcRow("absent", None, None, {})
SlipRow(id, st) == [calc |-> id, status |-> st]
NoSlip == SlipRow(None, "absent")

Exists(id) == calc[id].status # "absent"
NoPlan == [e \in Employees |-> {}]
Free == [pc |-> "idle", period |-> None, emp |-> None, id |-> None,
         status |-> "absent", plan |-> NoPlan, todo |-> {}]
Idle(w) == job[w].pc = "idle"
Goto(w, j) == job' = [job EXCEPT ![w] = j]
Return(w) == Goto(w, Free)

Init ==
  /\ runs = {}
  /\ calc = [id \in CalcIds |-> NoCalc]
  /\ slip = [p \in Periods |-> [e \in Employees |-> NoSlip]]
  /\ paid = [s \in Sources |-> None]
  /\ warm = FALSE
  /\ job = [w \in Workers |-> Free]
  /\ loose = {}
  /\ overwritten = {}

-----------------------------------------------------------------------------
(* ensurePieceRatePayrollSchema, which every handler awaits and a process  *)
(* runs once: the Draft rows that have a source_type are up for review.    *)
(* The source_type of a row is left out, so which ones is open.            *)

forReview(Drafts) ==
  calc' = [id \in CalcIds |-> IF id \in Drafts THEN [calc[id] EXCEPT !.status = "For Review"]
                                              ELSE calc[id]]

DraftIds == {id \in CalcIds : calc[id].status = "Draft"}

ensureSchema ==
  /\ ~ warm
  /\ warm' = TRUE
  /\ \E Drafts \in SUBSET DraftIds : forReview(Drafts)
  /\ UNCHANGED <<runs, slip, paid, job, loose, overwritten>>

-----------------------------------------------------------------------------
(* What a generation reads *)

(* Pairs and shared outputs pay two employees: the run that consumed one   *)
(* for the first still finds it for the second.                            *)
Shared(s) == \E e, f \in Owners[s] : e # f

Available(e, p) ==
  {s \in Covers[p] : e \in Owners[s] /\ (paid[s] = None \/ (paid[s] = p /\ Shared(s)))}

HasCalc(e, p) == \E id \in CalcIds : Exists(id) /\ Emp(id) = e /\ calc[id].run = p

(* The sources of e a generation of p lists, {} for an employee it skips.  *)
Payable(e, p) == IF HasCalc(e, p) THEN {} ELSE Available(e, p)

FreeIds(e) == {id \in CalcIds : Emp(id) = e /\ ~ Exists(id)}
NextId(e) == CHOOSE id \in FreeIds(e) : TRUE

-----------------------------------------------------------------------------
(* POST /generate, within its transaction, for the employees E, of whom T   *)
(* are paid by time.  The plan is of the others; todo are those of T who   *)
(* are in the run not yet.  Of the run it keeps whether the row was there. *)

genStart(w, p, E, T) ==
  /\ Idle(w) /\ warm
  /\ T \subseteq E \cap TimePaid /\ E \ T \subseteq WorkPaid
  /\ Goto(w, [Free EXCEPT !.pc = "open", !.period = p,
                          !.status = IF p \in runs THEN "Draft" ELSE "absent",
                          !.plan = [e \in Employees |-> IF e \in E \ T THEN Payable(e, p) ELSE {}],
                          !.todo = {e \in T : ~ HasCalc(e, p)}])
  /\ UNCHANGED <<runs, calc, slip, paid, warm, loose, overwritten>>

(* mutant: the calculation is inserted outside of the savepoint            *)
GeneratedUnguarded(j, Failed) ==
  {e \in Employees \ Failed : j.plan[e] # {} /\ FreeIds(e) # {}}

(* The employees of the plan whose savepoint is released: an INSERT of a   *)
(* payslip that exists, or any other error, rolls the employee back.       *)
Generated(j, Failed) ==
  {e \in Employees \ Failed :
     /\ j.plan[e] # {}
     /\ FreeIds(e) # {}
     /\ e \in Agency \/ slip[j.period][e] = NoSlip}

(* What the transaction of j has written for the employees done.  A run    *)
(* that another request has created meanwhile makes findOrCreatePayrollRun *)
(* fail on its UNIQUE key: that generation can only abort.                 *)
committed(j, done) ==
  LET p   == j.period
      new == {NextId(e) : e \in done}
  IN  /\ j.status = "absent" => p \notin runs
      /\ runs' = runs \cup {p}
      /\ calc' = [id \in CalcIds |->
                    IF id \in new THEN CalcRow("For Review", p, p, j.plan[Emp(id)]) ELSE calc[id]]
      /\ slip' = [slip EXCEPT ![p] = [e \in Employees |->
                    IF e \in done \ Agency THEN SlipRow(NextId(e), "For Review") ELSE slip[p][e]]]
      /\ paid' = [s \in Sources |->
                    IF paid[s] = None /\ \E e \in done : s \in j.plan[e] THEN p ELSE paid[s]]

genCommit(w) ==
  /\ job[w].pc = "open" /\ job[w].todo = {}
  /\ \E Failed \in SUBSET Employees : committed(job[w], Generated(job[w], Failed))
  /\ Return(w)
  /\ UNCHANGED <<warm, loose, overwritten>>

(* The first employee who is paid by time and not in the run yet: the      *)
(* policy of validateDailyHourlyPayroll is looked up by way of a CREATE    *)
(* TABLE IF NOT EXISTS on the connection of the transaction.  It commits   *)
(* the employees before; he and those left go on without a transaction.    *)
genSplit(w) ==
  /\ job[w].pc = "open"
  /\ \E e \in job[w].todo, Failed \in SUBSET Employees,
        Later \in SUBSET {f \in Employees : job[w].plan[f] # {}} :
       /\ committed(job[w], Generated(job[w], Failed \cup Later))
       /\ Goto(w, [Free EXCEPT !.pc = "read", !.period = job[w].period, !.emp = e,
                               !.todo = job[w].todo \cup Later])
  /\ UNCHANGED <<warm, loose, overwritten>>

(* The innermost catch swallows the deadlock that has rolled back the      *)
(* whole transaction, and the loop goes on with the employees left.  A     *)
(* generation whose own run row is rolled back too is left out.            *)
genDeadlock(w) ==
  /\ job[w].pc = "open"
  /\ job[w].status # "absent"
  /\ \E left \in SUBSET (job[w].todo \cup {e \in Employees : job[w].plan[e] # {}}) :
       Goto(w, [Free EXCEPT !.pc = "loop", !.period = job[w].period, !.todo = left])
  /\ UNCHANGED <<runs, calc, slip, paid, warm, loose, overwritten>>

-----------------------------------------------------------------------------
(* POST /generate without its transaction *)

(* ensurePieceRatePayrollSchema runs its DDL on the connection of the      *)
(* transaction, which commits it.                                          *)
genStartCold(w, p, E) ==
  /\ Idle(w) /\ ~ warm
  /\ warm' = TRUE
  /\ runs' = runs \cup {p}
  /\ \E Drafts \in SUBSET DraftIds : forReview(Drafts)
  /\ Goto(w, [Free EXCEPT !.pc = "loop", !.period = p, !.todo = E])
  /\ UNCHANGED <<slip, paid, loose, overwritten>>

(* The loop of w is through with employee e.                               *)
Continue(w, e) ==
  Goto(w, [Free EXCEPT !.pc = "loop", !.period = job[w].period, !.todo = job[w].todo \ {e}])

autoCheck(w) ==
  /\ job[w].pc = "loop"
  /\ \E e \in job[w].todo :
       IF HasCalc(e, job[w].period) THEN Continue(w, e)
       ELSE Goto(w, [job[w] EXCEPT !.pc = "read", !.emp = e])
  /\ UNCHANGED <<runs, calc, slip, paid, warm, loose, overwritten>>

(* mutant: the sources are marked when they are selected, before the       *)
(* calculation that lists them is there                                    *)
autoReadMarking(w) ==
  /\ job[w].pc = "read"
  /\ LET e == job[w].emp
         p == job[w].period
     IN  /\ Available(e, p) # {}
         /\ paid' = [s \in Sources |-> IF paid[s] = None /\ s \in Available(e, p)
                                       THEN p ELSE paid[s]]
         /\ Goto(w, [job[w] EXCEPT !.pc = "insert", !.plan[e] = Available(e, p)])
  /\ UNCHANGED <<runs, calc, slip, warm, loose, overwritten>>

autoRead(w) ==
  /\ job[w].pc = "read"
  /\ LET e == job[w].emp
         p == job[w].period
     IN  IF Available(e, p) = {} THEN Continue(w, e)
         ELSE Goto(w, [job[w] EXCEPT !.pc = "insert", !.plan[e] = Available(e, p)])
  /\ UNCHANGED <<runs, calc, slip, paid, warm, loose, overwritten>>

autoInsert(w) ==
  /\ job[w].pc = "insert"
  /\ LET e == job[w].emp
         p == job[w].period
     IN  /\ FreeIds(e) # {}
         /\ calc' = [calc EXCEPT ![NextId(e)] = CalcRow("For Review", p, p, job[w].plan[e])]
         /\ loose' = loose \cup {NextId(e)}
         /\ Goto(w, [job[w] EXCEPT !.pc = IF e \in Agency THEN "mark" ELSE "payslip",
                                   !.id = NextId(e)])
  /\ UNCHANGED <<runs, slip, paid, warm, overwritten>>

autoPayslip(w) ==
  /\ job[w].pc = "payslip"
  /\ slip[job[w].period][job[w].emp] = NoSlip
  /\ slip' = [slip EXCEPT ![job[w].period][job[w].emp] = SlipRow(job[w].id, "For Review")]
  /\ Goto(w, [job[w] EXCEPT !.pc = "mark"])
  /\ UNCHANGED <<runs, calc, paid, warm, loose, overwritten>>

autoMark(w) ==
  /\ job[w].pc = "mark"
  /\ paid' = [s \in Sources |-> IF paid[s] = None /\ s \in job[w].plan[job[w].emp]
                                THEN job[w].period ELSE paid[s]]
  /\ Continue(w, job[w].emp)
  /\ UNCHANGED <<runs, calc, slip, warm, loose, overwritten>>

(* An error of one employee, the duplicate payslip among them: there is no *)
(* savepoint to return to, and what was inserted stays.                    *)
autoError(w) ==
  /\ job[w].pc \in {"read", "insert", "payslip", "mark"}
  /\ Continue(w, job[w].emp)
  /\ UNCHANGED <<runs, calc, slip, paid, warm, loose, overwritten>>

autoEnd(w) ==
  /\ job[w].pc = "loop" /\ job[w].todo = {}
  /\ Return(w)
  /\ UNCHANGED <<runs, calc, slip, paid, warm, loose, overwritten>>

-----------------------------------------------------------------------------
(* PATCH /salary-calculations/:id/status *)

Transitions ==
  ({"Draft", "For Review"} \X {"For Approval"})
    \cup ({"For Review", "Submitted", "For Approval"} \X {"Approved"})
    \cup ({"Approved"} \X {"Released", "Paid", "Locked"})
    \cup ({"Released"} \X {"Locked", "Paid"})

(* WHERE salary_calculation_id = ? OR (payroll_run_id = ? AND employee_id  *)
(* = ?)                                                                    *)
OwnsSlip(id, p, e) == slip[p][e] # NoSlip
  /\ (slip[p][e].calc = id \/ (calc[id].run = p /\ Emp(id) = e))

slipsSet(id, st) == [p \in Periods |-> [e \in Employees |->
                       IF OwnsSlip(id, p, e) THEN [slip[p][e] EXCEPT !.status = st]
                                             ELSE slip[p][e]]]

(* The CREATE TABLE IF NOT EXISTS of queueSubmittedPayrollRecord commits   *)
(* the status; the payslips follow in a statement of their own.            *)
submitForApproval(w, id) ==
  /\ Idle(w) /\ warm
  /\ <<calc[id].status, "For Approval">> \in Transitions
  /\ calc' = [calc EXCEPT ![id].status = "For Approval"]
  /\ Goto(w, [Free EXCEPT !.pc = "submitSlip", !.id = id])
  /\ UNCHANGED <<runs, slip, paid, warm, loose, overwritten>>

submitSlip(w) ==
  /\ job[w].pc = "submitSlip"
  /\ slip' = slipsSet(job[w].id, "For Approval")
  /\ Return(w)
  /\ UNCHANGED <<runs, calc, paid, warm, loose, overwritten>>

payslipStatusRaw(to) == to                                      (* mutant *)
payslipStatus(to) == IF to = "Paid" THEN "Released" ELSE to

(* Approval marks the listed sources no run has consumed.                  *)
changeStatus(id, to) ==
  /\ warm
  /\ <<calc[id].status, to>> \in Transitions /\ to # "For Approval"
  /\ paid' = [s \in Sources |->
                IF to = "Approved" /\ s \in calc[id].listed /\ paid[s] = None
                THEN calc[id].run ELSE paid[s]]
  /\ calc' = [calc EXCEPT ![id].status = to]
  /\ slip' = slipsSet(id, payslipStatus(to))
  /\ UNCHANGED <<runs, job, warm, loose, overwritten>>

(* POST /salary-calculations/:id/recalculate: only the payslip changes     *)
(* beside the figures.                                                     *)
recalculate(id) ==
  /\ warm
  /\ calc[id].status \in ReviewableStatuses
  /\ slip' = slipsSet(id, "For Review")
  /\ UNCHANGED <<runs, calc, paid, job, warm, loose, overwritten>>

-----------------------------------------------------------------------------
(* POST /salary-calculation: a calculation encoded by hand, on the pool.   *)
(* It belongs to a period but to no run, and lists no sources.             *)

Unpaid(e, p) == \E s \in Covers[p] : e \in Owners[s] /\ paid[s] = None

HasSubmitted(e, p) ==
  \E id \in CalcIds : /\ Exists(id) /\ Emp(id) = e /\ calc[id].period = p
                      /\ calc[id].status # "Draft"

saveCheck(w, e, p, st) ==
  /\ Idle(w) /\ warm /\ e \in TimePaid
  /\ st = "Submitted" => Unpaid(e, p) /\ ~ HasSubmitted(e, p)
  /\ Goto(w, [Free EXCEPT !.pc = "save", !.period = p, !.emp = e, !.status = st])
  /\ UNCHANGED <<runs, calc, slip, paid, warm, loose, overwritten>>

saveInsert(w) ==
  /\ job[w].pc = "save"
  /\ FreeIds(job[w].emp) # {}
  /\ calc' = [calc EXCEPT ![NextId(job[w].emp)] =
                CalcRow(job[w].status, job[w].period, None, {})]
  /\ Return(w)
  /\ UNCHANGED <<runs, slip, paid, warm, loose, overwritten>>

(* With the id of a calculation: its status is read, then the row is       *)
(* written by id; its run stays what it was.                               *)
saveRead(w, id, p, st) ==
  /\ Idle(w) /\ warm /\ Exists(id) /\ Emp(id) \in TimePaid
  /\ calc[id].status \notin LockedStatuses
  /\ st = "Submitted" => Unpaid(Emp(id), p)
  /\ Goto(w, [Free EXCEPT !.pc = "overwrite", !.period = p, !.id = id, !.status = st])
  /\ UNCHANGED <<runs, calc, slip, paid, warm, loose, overwritten>>

saveOverwrite(w) ==
  /\ job[w].pc = "overwrite"
  /\ LET id == job[w].id IN
       /\ calc' = [calc EXCEPT ![id].status = job[w].status, ![id].period = job[w].period]
       /\ overwritten' = IF calc[id].status \in LockedStatuses \ {job[w].status}
                         THEN overwritten \cup {id} ELSE overwritten
  /\ Return(w)
  /\ UNCHANGED <<runs, slip, paid, warm, loose>>

-----------------------------------------------------------------------------
(* POST /transactions/production and /transactions/logistics add to the    *)
(* newest calculation of the employee, the month and their wage type, or   *)
(* insert one: reads and writes on the pool.  The wage type of a row is    *)
(* left out, so which row they find, or that they find none, is open.      *)

transactionFound(w, id, st) ==
  /\ Idle(w) /\ warm /\ Exists(id) /\ Emp(id) \in WorkPaid
  /\ calc[id].status \notin {"Released", "Paid"}
  /\ Goto(w, [Free EXCEPT !.pc = "overwrite", !.period = calc[id].period, !.id = id,
                          !.status = IF calc[id].status = "Draft" THEN st ELSE calc[id].status])
  /\ UNCHANGED <<runs, calc, slip, paid, warm, loose, overwritten>>

transactionNew(w, e, p, st) ==
  /\ Idle(w) /\ warm /\ e \in WorkPaid
  /\ Goto(w, [Free EXCEPT !.pc = "save", !.period = p, !.emp = e, !.status = st])
  /\ UNCHANGED <<runs, calc, slip, paid, warm, loose, overwritten>>

(* POST /piece-rate-outputs puts the calculation of its month that is in   *)
(* no run and not locked up for review again, or inserts one, in a         *)
(* transaction that does not lock what it read.                            *)
outputFound(w, id) ==
  /\ Idle(w) /\ warm /\ Exists(id) /\ Emp(id) \in WorkPaid
  /\ calc[id].run = None /\ calc[id].status \notin LockedStatuses
  /\ Goto(w, [Free EXCEPT !.pc = "overwrite", !.period = calc[id].period, !.id = id,
                          !.status = "For Review"])
  /\ UNCHANGED <<runs, calc, slip, paid, warm, loose, overwritten>>

outputNew(w, e, p) ==
  /\ Idle(w) /\ warm /\ e \in WorkPaid /\ Unpaid(e, p)
  /\ Goto(w, [Free EXCEPT !.pc = "save", !.period = p, !.emp = e, !.status = "For Review"])
  /\ UNCHANGED <<runs, calc, slip, paid, warm, loose, overwritten>>

-----------------------------------------------------------------------------
(* POST /convert-calculations-to-payslips *)

Convertible(p) ==
  {id \in CalcIds : /\ calc[id].period = p
                    /\ calc[id].status \in {"Submitted", "Approved", "Released", "Paid"}
                    /\ Emp(id) \notin Agency
                    /\ slip[p][Emp(id)] = NoSlip}

convertRead(w, p) ==
  /\ Idle(w) /\ warm
  /\ runs' = runs \cup {p}
  /\ Goto(w, [Free EXCEPT !.pc = "convert", !.period = p, !.todo = Convertible(p)])
  /\ UNCHANGED <<calc, slip, paid, warm, loose, overwritten>>

(* mutant: a converted payslip is released at once                         *)
convertInsertReleased(w) ==
  /\ job[w].pc = "convert"
  /\ \E id \in job[w].todo :
       /\ slip' = [slip EXCEPT ![job[w].period][Emp(id)] = SlipRow(id, "Released")]
       /\ Goto(w, [job[w] EXCEPT !.todo = @ \ {id}])
  /\ UNCHANGED <<runs, calc, paid, warm, loose, overwritten>>

(* A payslip that has appeared meanwhile makes the INSERT fail.            *)
convertInsert(w) ==
  /\ job[w].pc = "convert"
  /\ \E id \in job[w].todo :
       LET p == job[w].period
           e == Emp(id)
       IN  /\ slip' = IF slip[p][e] = NoSlip
                      THEN [slip EXCEPT ![p][e] = SlipRow(id, "Approved")] ELSE slip
           /\ Goto(w, [job[w] EXCEPT !.todo = @ \ {id}])
  /\ UNCHANGED <<runs, calc, paid, warm, loose, overwritten>>

-----------------------------------------------------------------------------
(* A request that is answered, fails or loses its client; an open          *)
(* transaction is rolled back.                                             *)
leave(w) ==
  /\ ~ Idle(w)
  /\ Return(w)
  /\ UNCHANGED <<runs, calc, slip, paid, warm, loose, overwritten>>

restart ==
  /\ job' = [w \in Workers |-> Free]
  /\ warm' = FALSE
  /\ UNCHANGED <<runs, calc, slip, paid, loose, overwritten>>

Generation(w) ==
  \/ \E p \in Periods, E, T \in SUBSET Employees : genStart(w, p, E, T)
  \/ \E p \in Periods, E \in SUBSET Employees : genStartCold(w, p, E)
  \/ genCommit(w) \/ genSplit(w) \/ genDeadlock(w)
  \/ autoCheck(w) \/ autoRead(w) \/ autoInsert(w) \/ autoPayslip(w) \/ autoMark(w)
  \/ autoError(w) \/ autoEnd(w)

Encoding(w) ==
  \/ \E e \in Employees, p \in Periods, st \in {"Draft", "Submitted"} : saveCheck(w, e, p, st)
  \/ \E id \in CalcIds, p \in Periods, st \in {"Draft", "Submitted"} : saveRead(w, id, p, st)
  \/ \E id \in CalcIds, st \in {"Draft", "Submitted"} : transactionFound(w, id, st)
  \/ \E e \in Employees, p \in Periods, st \in {"Draft", "Submitted"} : transactionNew(w, e, p, st)
  \/ \E id \in CalcIds : outputFound(w, id)
  \/ \E e \in Employees, p \in Periods : outputNew(w, e, p)
  \/ saveInsert(w) \/ saveOverwrite(w)

Conversion(w) == (\E p \in Periods : convertRead(w, p)) \/ convertInsert(w)

Review ==
  \E id \in CalcIds :
    \/ \E to \in CalcStatuses : changeStatus(id, to)
    \/ recalculate(id)

Next ==
  \/ \E w \in Workers :
       \/ Generation(w) \/ Encoding(w) \/ Conversion(w)
       \/ \E id \in CalcIds : submitForApproval(w, id)
       \/ submitSlip(w)
       \/ leave(w)
  \/ Review
  \/ ensureSchema
  \/ restart

Spec == Init /\ [][Next]_vars

-----------------------------------------------------------------------------
(* Properties *)

(* The handlers of a generation that has lost its transaction.             *)
Loop == {"loop", "read", "insert", "payslip", "mark"}

CalcRows == [status : CalcStatuses, period : Periods,
             run : Periods \cup {None}, listed : SUBSET Sources]
SlipRows == [calc : CalcIds, status : SlipStatuses]
Jobs == [pc     : {"idle", "open", "submitSlip", "save", "overwrite", "convert"} \cup Loop,
         period : Periods \cup {None},
         emp    : Employees \cup {None},
         id     : CalcIds \cup {None},
         status : {"absent"} \cup CalcStatuses,
         plan   : [Employees -> SUBSET Sources],
         todo   : SUBSET (Employees \cup CalcIds)]

JobOK(j) ==
  /\ j.pc \in {"open", "save", "overwrite", "convert"} \cup Loop => j.period \in Periods
  /\ j.pc \in {"read", "insert", "payslip", "mark", "save"} => j.emp \in Employees
  /\ j.pc \in {"payslip", "mark", "submitSlip", "overwrite"} => j.id \in CalcIds
  /\ j.pc \in {"save", "overwrite"} => j.status \in CalcStatuses
  /\ j.pc \in Loop \cup {"open"} => j.todo \subseteq Employees
  /\ j.pc = "convert" => j.todo \subseteq {id \in CalcIds : Emp(id) \notin Agency}

(* Rows, statuses and handlers are of the kinds the schema and the code    *)
(* allow; a payslip has a status of its own enumeration, never that of a   *)
(* calculation it lacks (payroll.js, the ENUMs of its schema).             *)
TypeOK ==
  /\ runs \subseteq Periods
  /\ calc \in [CalcIds -> CalcRows \cup {NoCalc}]
  /\ slip \in [Periods -> [Employees -> SlipRows \cup {NoSlip}]]
  /\ paid \in [Sources -> Periods \cup {None}]
  /\ job \in [Workers -> Jobs] /\ \A w \in Workers : JobOK(job[w])
  /\ warm \in BOOLEAN
  /\ loose \subseteq CalcIds /\ overwritten \subseteq CalcIds

(* Generation within a transaction is all or nothing per employee: each     *)
(* calculation it generated for an employee who gets a payslip is the one  *)
(* the payslip of that run and employee was made from, whichever           *)
(* generations, with and without a transaction, and conversions race (the  *)
(* savepoints of POST /generate and the UNIQUE key of payslips).  The      *)
(* employees reached after the transaction has ended have no such promise. *)
AllOrNothing ==
  \A id \in CalcIds \ loose :
    calc[id].run # None /\ Emp(id) \notin Agency
      => slip[calc[id].run][Emp(id)].calc = id

(* A source is never lost: one that is marked as consumed by a run is      *)
(* listed by a calculation of that run, so somebody is paid for it; also   *)
(* when a generation loses its transaction, fails half way or the server   *)
(* restarts (mark...Paid and markSalaryCalculationSourcesPaid).            *)
MarkedIsListed ==
  \A s \in Sources :
    paid[s] # None => \E id \in CalcIds : calc[id].run = paid[s] /\ s \in calc[id].listed

(* Two calculations of one run and employee share the payslip: the second  *)
(* was generated outside of a transaction.                                 *)
SharesSlip(id, p, e) ==
  \E other \in loose \ {id} : calc[other].run = p /\ Emp(other) = e

(* A payslip is not ahead of its calculation: it is Released or Locked     *)
(* only while the calculation is, unless a stale save has taken the status *)
(* of the calculation back, or a generation without a transaction has left *)
(* a second calculation of the run and employee, whose status changes      *)
(* reach the payslip too (PATCH status, recalculate and convert write both *)
(* tables).                                                                *)
PayslipNotAhead ==
  \A p \in Periods, e \in Employees :
    LET s == slip[p][e] IN
      s # NoSlip /\ s.calc \notin overwritten /\ ~ SharesSlip(s.calc, p, e) =>
        /\ s.status = "Released" => calc[s.calc].status \in {"Released", "Paid"}
        /\ s.status = "Locked" => calc[s.calc].status = "Locked"

(* What the duplicate check of POST /salary-calculation is for: an         *)
(* employee is not paid by two approved calculations of one period.        *)
OnePaymentPerPeriod ==
  \A id, other \in CalcIds :
    (/\ calc[id].status \in LockedStatuses /\ calc[other].status \in LockedStatuses
     /\ Emp(id) = Emp(other) /\ calc[id].period = calc[other].period)
      => id = other

=============================================================================
