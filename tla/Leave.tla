------------------------------- MODULE Leave -------------------------------
(***************************************************************************)
(* Leave requests and leave balances (server.js).  An employee or HR files *)
(* a request; somebody of payroll endorses it, somebody of HR approves it, *)
(* and the approval charges the balance of the employee.  Filing is a      *)
(* series of statements on the pool; a decision is one transaction that    *)
(* locks the request, with its leave type, and then the balance.           *)
(*                                                                         *)
(* One leave type and one year: a balance is a row per employee.           *)
(***************************************************************************)
EXTENDS Integers, FiniteSets

CONSTANTS
  Requests,     \* rows of leave_requests
  Legacy,       \* those from before leave types had ids
  Employees,    \* the people who file
  Payroll,      \* users of the roles payroll_officer and payroll_manager
  Hr,           \* users of the roles of ROLES.hr_final_approval
  Nobody,       \* NULL in payroll_approved_by and approved_by
  Handlers,     \* HTTP requests in progress
  LastDay,      \* bound: the days of the year a request may name
  MaxTotal,     \* bound: the days a balance may be given
  AnnualLimit   \* max_allowed_days + max_extension_days of the type

ASSUME LeaveAssumption ==
  /\ Legacy \subseteq Requests
  /\ Payroll \cap Hr = {}
  /\ Nobody \notin Payroll \cup Hr
  /\ LastDay \in Nat /\ MaxTotal \in Nat /\ AnnualLimit \in Nat

VARIABLES
  req,      \* leave_requests
  bal,      \* leave_balances
  op,       \* what each handler is doing
  entered,  \* history: the used days HR last entered for an employee
  charged   \* history: the days charged by approvals since then
vars == <<req, bal, op, entered, charged>>
-----------------------------------------------------------------------------
Days    == 1..LastDay
Users   == Payroll \cup Hr
Open    == {"Pending", "Payroll Approved", "Approved"}
Status  == Open \cup {"Rejected", "Cancelled"}

(* The dates and duration of a request: half a range may be asked for.     *)
Terms   == {t \in [owner : Employees, from : Days, to : Days, days : Days] :
              t.days <= t.to - t.from + 1}

Row     == [terms : Terms, status : Status,
            endorsedBy : Payroll \cup {Nobody}, approvedBy : Hr \cup {Nobody}]
NoRow   == [status |-> "none"]
Filed(t) == [terms |-> t, status |-> "Pending",
             endorsedBy |-> Nobody, approvedBy |-> Nobody]

(* remaining_days is written with every change as total less used.         *)
Balance   == [total : 0..MaxTotal, used : Nat]
Entries   == {b \in [total : 0..MaxTotal, used : 0..MaxTotal] : b.used <= b.total}
NoBalance == [total |-> -1, used |-> 0]
Remaining(b) == b.total - b.used

Exists(r) == req[r].status # "none"
Idle      == [at |-> "idle"]

(* The rows a decision in progress has locked: its request, the leave type *)
(* joined to it unless the request is a legacy one, and then the balance.  *)
Deciding(h) == op[h].at \in {"decided", "deducted"}
HasBalance(h) == op[h].at = "deducted"
Excludes(h, r) ==
  /\ Deciding(h)
  /\ \/ op[h].req = r
     \/ {op[h].req, r} \cap Legacy = {}
MayLockUnlocked(r) == TRUE   \* mutant: a plain SELECT
MayLock(r) == \A h \in Handlers : ~ Excludes(h, r)
BalanceFree(e) ==
  \A h \in Handlers : HasBalance(h) => req[op[h].req].terms.owner # e
-----------------------------------------------------------------------------
Init ==
  /\ req \in {f \in [Requests -> {NoRow} \cup {Filed(t) : t \in Terms}] :
                \A r \in Requests : (r \in Legacy) <=> (f[r] # NoRow)}
  /\ bal \in [Employees -> Entries \cup {NoBalance}]
  /\ op = [h \in Handlers |-> Idle]
  /\ entered = [e \in Employees |-> bal[e].used]
  /\ charged = [e \in Employees |-> 0]

(* POST /api/leave: the requests in the way of these dates are looked for. *)
Overlapping(t) ==
  {r \in Requests : /\ req[r].status \in Open
                    /\ req[r].terms.owner = t.owner
                    /\ req[r].terms.from <= t.to
                    /\ req[r].terms.to >= t.from}

file(h, t, portal) ==
  /\ op[h] = Idle
  /\ Overlapping(t) = {}
  /\ op' = [op EXCEPT ![h] = [at |-> IF portal THEN "balance" ELSE "limit",
                              terms |-> t]]
  /\ UNCHANGED <<req, bal, entered, charged>>

(* A request of the portal must fit the balance; HR's manual ones need not.*)
checkBalance(h) ==
  /\ op[h].at = "balance"
  /\ bal[op[h].terms.owner] # NoBalance
  /\ op[h].terms.days <= Remaining(bal[op[h].terms.owner])
  /\ op' = [op EXCEPT ![h].at = "limit"]
  /\ UNCHANGED <<req, bal, entered, charged>>

(* The days the employee has asked for this year, by the type's id.        *)
YearDays(e) ==
  LET mine == {r \in Requests \ Legacy :
                 req[r].status \in Open /\ req[r].terms.owner = e}
      sum[S \in SUBSET mine] ==
        IF S = {} THEN 0
        ELSE LET r == CHOOSE x \in S : TRUE
             IN req[r].terms.days + sum[S \ {r}]
  IN  sum[mine]

checkLimit(h) ==
  /\ op[h].at = "limit"
  /\ YearDays(op[h].terms.owner) + op[h].terms.days <= AnnualLimit
  /\ op' = [op EXCEPT ![h].at = "insert"]
  /\ UNCHANGED <<req, bal, entered, charged>>

insert(h, r) ==
  /\ op[h].at = "insert"
  /\ ~ Exists(r)
  /\ req' = [req EXCEPT ![r] = Filed(op[h].terms)]
  /\ op' = [op EXCEPT ![h] = Idle]
  /\ UNCHANGED <<bal, entered, charged>>

(* PATCH /api/leave/:id/status: what u may make of row q by asking for     *)
(* status s.  Whoever endorses asks for "Approved" or "Payroll Approved"   *)
(* alike; the role decides which of the two is meant.                      *)
Endorses(u, q) == u \in Payroll /\ q.status = "Pending"
Approves(u, q) == u \in Hr /\ q.status = "Payroll Approved"
DecisionAtTheEnd(u, q, s) ==     \* mutant: the owner may endorse
  /\ s \in {"Approved", "Rejected"} => u # q.terms.owner
  /\ CASE s = "Payroll Approved" -> Endorses(u, q)
       [] s = "Approved"         -> Approves(u, q)
       [] s = "Rejected"         -> q.status \in {"Pending", "Payroll Approved"}
       [] s = "Cancelled"        -> u \in Hr
       [] s = "Pending"          -> TRUE
Decision(u, q, s) ==
  /\ s \in {"Payroll Approved", "Approved", "Rejected"} => u # q.terms.owner
  /\ CASE s = "Payroll Approved" -> Endorses(u, q)
       [] s = "Approved"         -> Approves(u, q)
       [] s = "Rejected"         -> q.status \in {"Pending", "Payroll Approved"}
       [] s = "Cancelled"        -> u \in Hr
       [] s = "Pending"          -> TRUE

(* SELECT ... FOR UPDATE: the row is read when its locks are granted.      *)
decide(h, u, r, s) ==
  /\ op[h] = Idle
  /\ Exists(r)
  /\ MayLock(r)
  /\ Decision(u, req[r], s)
  /\ op' = [op EXCEPT ![h] = [at |-> "decided", req |-> r, user |-> u, to |-> s]]
  /\ UNCHANGED <<req, bal, entered, charged>>

(* An approval locks the balance and charges it with the days it asks for. *)
Owner(h) == req[op[h].req].terms.owner
Fits(h)  == req[op[h].req].terms.days <= Remaining(bal[Owner(h)])
charge(h) ==
  /\ op' = [op EXCEPT ![h] =
       [at |-> "deducted", req |-> @.req, user |-> @.user, to |-> @.to,
        bal |-> [bal[Owner(h)] EXCEPT !.used = @ + req[op[h].req].terms.days]]]
  /\ UNCHANGED <<req, bal, entered, charged>>
MustDeduct(h) ==
  op[h].at = "decided" /\ op[h].to = "Approved" /\ bal[Owner(h)] # NoBalance

\* mutants: the balance is read without FOR UPDATE, or only at filing
deductUnlocked(h)  == MustDeduct(h) /\ Fits(h) /\ charge(h)
deductUnchecked(h) == MustDeduct(h) /\ BalanceFree(Owner(h)) /\ charge(h)
deduct(h) ==
  /\ MustDeduct(h)
  /\ BalanceFree(Owner(h))
  /\ Fits(h)
  /\ charge(h)

(* The update of the row and the commit, which shows it with the balance.  *)
DecidedSwapped(q, u, s) ==       \* mutant: the two columns change places
  [q EXCEPT !.status = s,
            !.endorsedBy = IF s = "Approved" THEN u ELSE @,
            !.approvedBy = IF s = "Payroll Approved" THEN u ELSE @]
Decided(q, u, s) ==
  [q EXCEPT !.status = s,
            !.endorsedBy = IF s = "Payroll Approved" THEN u ELSE @,
            !.approvedBy = IF s = "Approved" THEN u ELSE @]

ReadyUncharged(h) ==             \* mutant: who has no balance is approved without
  \/ op[h].at = "decided" /\ (op[h].to # "Approved" \/ bal[Owner(h)] = NoBalance)
  \/ HasBalance(h)
Ready(h) ==
  \/ op[h].at = "decided" /\ op[h].to # "Approved"
  \/ HasBalance(h)

commit(h) ==
  LET r == op[h].req
      t == req[r].terms
  IN  /\ Ready(h)
      /\ req' = [req EXCEPT ![r] = Decided(@, op[h].user, op[h].to)]
      /\ IF HasBalance(h)
         THEN /\ bal' = [bal EXCEPT ![t.owner] = op[h].bal]
              /\ charged' = [charged EXCEPT ![t.owner] = @ + t.days]
         ELSE UNCHANGED <<bal, charged>>
      /\ op' = [op EXCEPT ![h] = Idle]
      /\ UNCHANGED entered

(* A check refuses, a statement fails or the process dies: MySQL undoes    *)
(* what the transaction wrote.                                             *)
giveUp(h) ==
  /\ op[h] # Idle
  /\ op' = [op EXCEPT ![h] = Idle]
  /\ UNCHANGED <<req, bal, entered, charged>>

(* PUT /api/leave/balances: one upsert of absolute values.                 *)
setBalance(e, b) ==
  /\ BalanceFree(e)
  /\ bal' = [bal EXCEPT ![e] = b]
  /\ entered' = [entered EXCEPT ![e] = b.used]
  /\ charged' = [charged EXCEPT ![e] = 0]
  /\ UNCHANGED <<req, op>>

Next ==
  \/ \E h \in Handlers :
       \/ \E t \in Terms, portal \in BOOLEAN : file(h, t, portal)
       \/ checkBalance(h)
       \/ checkLimit(h)
       \/ \E r \in Requests : insert(h, r)
       \/ \E u \in Users, r \in Requests, s \in Status : decide(h, u, r, s)
       \/ deduct(h)
       \/ commit(h)
       \/ giveUp(h)
  \/ \E e \in Employees, b \in Entries : setBalance(e, b)

Spec == Init /\ [][Next]_vars
-----------------------------------------------------------------------------
Op ==
  {Idle}
    \cup [at : {"balance", "limit", "insert"}, terms : Terms]
    \cup [at : {"decided"}, req : Requests, user : Users, to : Status]
    \cup [at : {"deducted"}, req : Requests, user : Users, to : {"Approved"},
          bal : Balance]

(* The tables, the locals of the handlers and the history have their types.*)
TypeOK ==
  /\ req \in [Requests -> Row \cup {NoRow}]
  /\ bal \in [Employees -> Balance \cup {NoBalance}]
  /\ op \in [Handlers -> Op]
  /\ entered \in [Employees -> Nat]
  /\ charged \in [Employees -> Nat]

(* "Four-eyes workflow": an approved leave was endorsed by one person of   *)
(* payroll and approved by another of HR, neither of them its owner.       *)
ApprovedByFourEyes ==
  \A r \in Requests :
    req[r].status = "Approved" =>
      /\ req[r].endorsedBy \in Payroll \ {req[r].terms.owner}
      /\ req[r].approvedBy \in Hr \ {req[r].terms.owner}

(* No balance has more days used than given: what an approval checked of   *)
(* the balance still holds when its charge is written.                     *)
NeverOverdrawn ==
  \A e \in Employees : bal[e] # NoBalance => bal[e].used <= bal[e].total

(* "Leave balance is deducted only when the request reaches final Approved *)
(* status": the used days are what HR entered plus the days of every       *)
(* approval since; no approval's charge is lost to another one, and no     *)
(* approval that did not happen is charged.                                *)
EveryApprovalCharged ==
  \A e \in Employees : bal[e].used = entered[e] + charged[e]

(* Two decisions on one request never build on the same status: nothing is *)
(* approved that was meanwhile rejected, cancelled or sent back, and       *)
(* nothing is endorsed or rejected that is already approved.               *)
DecisionsFollowWorkflow ==
  [][\A r \in Requests :
       /\ req'[r].status = "Approved" =>
            req[r].status \in {"Approved", "Payroll Approved"}
       /\ req'[r].status = "Payroll Approved" =>
            req[r].status \in {"Payroll Approved", "Pending"}
       /\ req'[r].status = "Rejected" =>
            req[r].status \in {"Rejected", "Pending", "Payroll Approved"}]_vars

(* Decisions are atomic: behind the handlers, their locks and their        *)
(* refusals, requests and balances change as if every filing, decision and *)
(* entry were one event, made on the rows as they are at that moment.      *)
Ledger == INSTANCE LeaveLedger WITH Unfiled <- NoRow, Forms <- {Filed(t) : t \in Terms}
DecisionsAreAtomic == Ledger!Spec
=============================================================================
