----------------------------- MODULE LeaveLedger -----------------------------
(***************************************************************************)
(* What is promised of leave, whatever the handlers read, lock and write   *)
(* in between: a decision is one event.  It is made on the request and the *)
(* balance as they are at that moment, by somebody who may make it, and an *)
(* approval uses up its days, which are there, in the same event.          *)
(***************************************************************************)
EXTENDS Integers

CONSTANTS
  Requests, Employees, Payroll, Hr,
  Unfiled,    \* the row of a request that is not filed
  Forms,      \* the rows of requests as they are filed
  NoBalance,  \* the balance of an employee who has none
  Entries     \* the balances HR may enter

VARIABLES
  req,        \* req[r]: terms, status and signatures of a request
  bal         \* bal[e]: the days given to an employee, and those used

vars == <<req, bal>>

Init ==
  /\ req \in [Requests -> {Unfiled} \cup Forms]
  /\ bal \in [Employees -> Entries \cup {NoBalance}]

Except(r, People) == People \ {req[r].terms.owner}

File(r) ==
  /\ req[r] = Unfiled
  /\ \E q \in Forms : req' = [req EXCEPT ![r] = q]
  /\ UNCHANGED bal

Endorse(r) ==
  /\ req[r].status = "Pending"
  /\ \E u \in Except(r, Payroll) :
       req' = [req EXCEPT ![r] = [@ EXCEPT !.status = "Payroll Approved", !.endorsedBy = u]]
  /\ UNCHANGED bal

Approve(r) ==
  LET t == req[r].terms IN
  /\ req[r].status = "Payroll Approved"
  /\ bal[t.owner] # NoBalance /\ t.days <= bal[t.owner].total - bal[t.owner].used
  /\ \E u \in Except(r, Hr) :
       req' = [req EXCEPT ![r] = [@ EXCEPT !.status = "Approved", !.approvedBy = u]]
  /\ bal' = [bal EXCEPT ![t.owner].used = @ + t.days]

Reject(r) ==
  /\ req[r].status \in {"Pending", "Payroll Approved"}
  /\ req' = [req EXCEPT ![r].status = "Rejected"]
  /\ UNCHANGED bal

CancelOrReopen(r) ==
  /\ req[r] # Unfiled
  /\ \E s \in {"Cancelled", "Pending"} : req' = [req EXCEPT ![r].status = s]
  /\ UNCHANGED bal

Enter(e) ==
  /\ \E b \in Entries : bal' = [bal EXCEPT ![e] = b]
  /\ UNCHANGED req

Next ==
  \/ \E r \in Requests : File(r) \/ Endorse(r) \/ Approve(r) \/ Reject(r) \/ CancelOrReopen(r)
  \/ \E e \in Employees : Enter(e)

Spec == Init /\ [][Next]_vars
=============================================================================
