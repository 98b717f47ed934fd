---------------------------- MODULE LeaveProofs ----------------------------
(***************************************************************************)
(* The safety of leave decisions for any requests, people and handlers.    *)
(* The inductive invariant IInv says what the locks are for: while a       *)
(* decision is in progress its request keeps the status it was made on,    *)
(* and its balance the figures it was computed from.                       *)
(***************************************************************************)
EXTENDS Leave, TLAPS

(* An endorsed request names who endorsed it, an approved one both people. *)
RowOK(q) ==
  /\ q.status \in {"Payroll Approved", "Approved"} =>
       q.endorsedBy \in Payroll \ {q.terms.owner}
  /\ q.status = "Approved" => q.approvedBy \in Hr \ {q.terms.owner}
RowsInv == \A r \in Requests : Exists(r) => RowOK(req[r])

(* What an open transaction has read still stands.                         *)
Charge(b, t) == [b EXCEPT !.used = @ + t.days]
OpOK(o) ==
  /\ o.at \in {"decided", "deducted"} =>
       /\ req[o.req].status # "none"
       /\ Decision(o.user, req[o.req], o.to)
  /\ o.at = "deducted" =>
       LET t == req[o.req].terms IN
       /\ bal[t.owner] # NoBalance
       /\ t.days <= Remaining(bal[t.owner])
       /\ o.bal = Charge(bal[t.owner], t)
OpsInv == \A h \in Handlers : OpOK(op[h])

(* No two of them hold the same row.                                       *)
Apart(o, p) ==
  /\ o.at \in {"decided", "deducted"} /\ p.at \in {"decided", "deducted"} =>
       o.req # p.req
  /\ o.at = "deducted" /\ p.at = "deducted" =>
       req[o.req].terms.owner # req[p.req].terms.owner
LocksInv == \A h, k \in Handlers : h # k => Apart(op[h], op[k])

IInv == TypeOK /\ RowsInv /\ OpsInv /\ LocksInv /\ NeverOverdrawn /\ EveryApprovalCharged

readOnly(h) ==
  \/ \E t \in Terms, portal \in BOOLEAN : file(h, t, portal)
  \/ checkBalance(h)
  \/ checkLimit(h)
  \/ giveUp(h)
-----------------------------------------------------------------------------
LEMMA InitInv == Init => IInv
<1> SUFFICES ASSUME Init PROVE IInv
  OBVIOUS
<1>a. Nobody \notin Users /\ LastDay \in Nat /\ MaxTotal \in Nat
  BY LeaveAssumption DEF Users
<1>1. req \in [Requests -> Row \cup {NoRow}]
  <2>1. \A t \in Terms : Filed(t) \in Row
    BY DEF Filed, Row, Status, Open
  <2> QED BY <2>1 DEF Init
<1>2. bal \in [Employees -> Balance \cup {NoBalance}]
  <2>1. Entries \subseteq Balance
    BY <1>a DEF Entries, Balance
  <2> QED BY <2>1 DEF Init
<1>3. \A e \in Employees : bal[e].used \in Nat
  BY <1>2 DEF Balance, NoBalance
<1>4. TypeOK
  BY <1>1, <1>2, <1>3 DEF Init, TypeOK, Op, Idle
<1>5. RowsInv
  <2>1. \A t \in Terms : RowOK(Filed(t))
    BY DEF RowOK, Filed
  <2>2. \A r \in Requests : req[r] = NoRow \/ \E t \in Terms : req[r] = Filed(t)
    BY DEF Init
  <2> QED BY <2>1, <2>2 DEF RowsInv, Exists, NoRow
<1>6. OpsInv /\ LocksInv
  BY DEF Init, OpsInv, OpOK, LocksInv, Apart, Idle
<1>7. NeverOverdrawn
  BY DEF Init, NeverOverdrawn, Entries
<1>8. EveryApprovalCharged
  BY <1>3 DEF Init, EveryApprovalCharged
<1> QED BY <1>4, <1>5, <1>6, <1>7, <1>8 DEF IInv

(* What the type of a handler's locals says at each of its steps.          *)
LEMMA OpType ==
  ASSUME NEW o \in Op
  PROVE  /\ o.at \in {"idle", "balance", "limit", "insert", "decided", "deducted"}
         /\ o.at \in {"balance", "limit", "insert"} =>
              o.terms \in Terms /\ o = [at |-> o.at, terms |-> o.terms]
         /\ o.at = "decided" =>
              /\ o.req \in Requests /\ o.user \in Users /\ o.to \in Status
              /\ o = [at |-> "decided", req |-> o.req, user |-> o.user, to |-> o.to]
         /\ o.at = "deducted" =>
              /\ o.req \in Requests /\ o.user \in Users /\ o.to = "Approved"
              /\ o.bal \in Balance
<1>1. CASE o \in {Idle}
  BY <1>1 DEF Idle
<1>2. CASE o \in [at : {"balance", "limit", "insert"}, terms : Terms]
  BY <1>2
<1>3. CASE o \in [at : {"decided"}, req : Requests, user : Users, to : Status]
  BY <1>3
<1>4. CASE o \in [at : {"deducted"}, req : Requests, user : Users, to : {"Approved"},
                  bal : Balance]
  BY <1>4
<1> QED BY <1>1, <1>2, <1>3, <1>4 DEF Op

(* Replacing the locals of one handler by some that hold no lock.          *)
LEMMA Released ==
  ASSUME IInv, NEW h \in Handlers, NEW o \in Op,
         o.at \notin {"decided", "deducted"},
         op' = [op EXCEPT ![h] = o],
         UNCHANGED <<req, bal, entered, charged>>
  PROVE  IInv'
<1>1. TypeOK'
  BY DEF IInv, TypeOK
<1>2. RowsInv' /\ NeverOverdrawn' /\ EveryApprovalCharged'
  BY DEF IInv, RowsInv, RowOK, Exists, NeverOverdrawn, EveryApprovalCharged
<1>3. \A k \in Handlers : op'[k] = IF k = h THEN o ELSE op[k]
  BY DEF IInv, TypeOK
<1>4. OpsInv'
  <2> SUFFICES ASSUME NEW k \in Handlers PROVE OpOK(op[k])'
    BY DEF OpsInv
  <2>1. CASE k = h
    BY <1>3, <2>1 DEF OpOK
  <2>2. CASE k # h
    <3>1. OpOK(op[k]) /\ op'[k] = op[k]
      BY <1>3, <2>2 DEF IInv, OpsInv
    <3> QED BY <3>1 DEF OpOK
  <2> QED BY <2>1, <2>2
<1>5. LocksInv'
  BY <1>3 DEF IInv, LocksInv, Apart
<1> QED BY <1>1, <1>2, <1>4, <1>5 DEF IInv

LEMMA ReadOnlyInv ==
  ASSUME IInv, NEW h \in Handlers, readOnly(h)
  PROVE  IInv'
<1>t. op[h] \in Op
  BY DEF IInv, TypeOK
<1>1. ASSUME NEW t \in Terms, NEW portal \in BOOLEAN, file(h, t, portal)
      PROVE  IInv'
  <2> DEFINE o == [at |-> IF portal THEN "balance" ELSE "limit", terms |-> t]
  <2>1. o \in Op /\ o.at \notin {"decided", "deducted"}
    BY DEF Op
  <2> QED BY <1>1, <2>1, Released DEF file
<1>2. ASSUME checkBalance(h) \/ checkLimit(h)
      PROVE  IInv'
  <2>0. op[h].at \in {"balance", "limit"}
    BY <1>2 DEF checkBalance, checkLimit
  <2>1. PICK a \in {"limit", "insert"} : op' = [op EXCEPT ![h] = [op[h] EXCEPT !.at = a]]
    BY <1>2 DEF checkBalance, checkLimit
  <2>2. [op[h] EXCEPT !.at = a] = [at |-> a, terms |-> op[h].terms] /\ op[h].terms \in Terms
    BY <1>t, <2>0, OpType
  <2>3. [at |-> a, terms |-> op[h].terms] \in Op
    BY <2>2 DEF Op
  <2> DEFINE o == [at |-> a, terms |-> op[h].terms]
  <2>4. o.at \notin {"decided", "deducted"}
    OBVIOUS
  <2>5. UNCHANGED <<req, bal, entered, charged>>
    BY <1>2 DEF checkBalance, checkLimit
  <2>6. op' = [op EXCEPT ![h] = o] /\ o \in Op
    BY <2>1, <2>2, <2>3
  <2> QED BY <2>4, <2>5, <2>6, Released
<1>3. ASSUME giveUp(h)
      PROVE  IInv'
  <2>1. Idle \in Op /\ Idle.at \notin {"decided", "deducted"}
    BY DEF Op, Idle
  <2> QED BY <1>3, <2>1, Released DEF giveUp
<1> QED BY <1>1, <1>2, <1>3 DEF readOnly

(* What a row that exists looks like, and what a decision makes of it.     *)
LEMMA RowType ==
  ASSUME TypeOK, NEW r \in Requests, Exists(r)
  PROVE  req[r] \in Row
BY DEF TypeOK, Exists, NoRow

LEMMA DecidedRow ==
  ASSUME NEW q \in Row, RowOK(q), NEW u \in Users, NEW s \in Status, Decision(u, q, s)
  PROVE  /\ Decided(q, u, s) \in Row
         /\ Decided(q, u, s).terms = q.terms
         /\ Decided(q, u, s).status = s
         /\ RowOK(Decided(q, u, s))
<1>1. CASE s = "Payroll Approved"
  <2>1. u \in Payroll \ {q.terms.owner}
    BY <1>1 DEF Decision, Endorses
  <2> QED BY <1>1, <2>1 DEF Decided, Row, RowOK
<1>2. CASE s = "Approved"
  <2>1. u \in Hr \ {q.terms.owner} /\ q.status = "Payroll Approved"
    BY <1>2 DEF Decision, Approves
  <2> QED BY <1>2, <2>1 DEF Decided, Row, RowOK
<1>3. CASE s \notin {"Payroll Approved", "Approved"}
  BY <1>3 DEF Decided, Row, RowOK
<1> QED BY <1>1, <1>2, <1>3

LEMMA InsertInv ==
  ASSUME IInv, NEW h \in Handlers, NEW r \in Requests, insert(h, r)
  PROVE  IInv'
<1>1. op[h] \in Op /\ op[h].terms \in Terms
  <2>1. op[h] \in Op
    BY DEF IInv, TypeOK
  <2> QED BY <2>1, OpType DEF insert
<1> DEFINE new == Filed(op[h].terms)
<1>2. new \in Row /\ RowOK(new)
  BY <1>1 DEF Filed, Row, RowOK, Status, Open
<1>3. \A q \in Requests : req'[q] = IF q = r THEN new ELSE req[q]
  BY DEF insert, IInv, TypeOK
<1>4. \A k \in Handlers : op'[k] = IF k = h THEN Idle ELSE op[k]
  BY DEF insert, IInv, TypeOK
<1>5. TypeOK'
  BY <1>2 DEF insert, IInv, TypeOK, Op
<1>6. RowsInv'
  BY <1>2, <1>3 DEF RowsInv, Exists, IInv
<1>7. \A k \in Handlers : op[k].at \in {"decided", "deducted"} => op[k].req # r
  BY DEF insert, Exists, IInv, OpsInv, OpOK
<1>8. \A k \in Handlers : op'[k].at \in {"decided", "deducted"} =>
        k # h /\ op'[k] = op[k] /\ req'[op[k].req] = req[op[k].req]
  <2> TAKE k \in Handlers
  <2> HAVE op'[k].at \in {"decided", "deducted"}
  <2>1. k # h /\ op'[k] = op[k]
    BY <1>4 DEF Idle
  <2>2. op[k].req \in Requests
    BY <2>1, OpType DEF IInv, TypeOK
  <2> QED BY <2>1, <2>2, <1>3, <1>7
<1>9. OpsInv'
  <2> SUFFICES ASSUME NEW k \in Handlers PROVE OpOK(op[k])'
    BY DEF OpsInv
  <2>1. CASE op'[k].at \notin {"decided", "deducted"}
    BY <2>1 DEF OpOK
  <2>2. CASE op'[k].at \in {"decided", "deducted"}
    <3>1. OpOK(op[k]) /\ bal' = bal
      BY DEF IInv, OpsInv, insert
    <3> QED BY <1>8, <2>2, <3>1 DEF OpOK
  <2> QED BY <2>1, <2>2
<1>10. LocksInv'
  BY <1>8 DEF IInv, LocksInv, Apart
<1>11. NeverOverdrawn' /\ EveryApprovalCharged'
  BY DEF insert, IInv, NeverOverdrawn, EveryApprovalCharged
<1> QED BY <1>5, <1>6, <1>9, <1>10, <1>11 DEF IInv

LEMMA DecideInv ==
  ASSUME IInv, NEW h \in Handlers, NEW u \in Users, NEW r \in Requests, NEW s \in Status,
         decide(h, u, r, s)
  PROVE  IInv'
<1> DEFINE o == [at |-> "decided", req |-> r, user |-> u, to |-> s]
<1>1. \A k \in Handlers : op'[k] = IF k = h THEN o ELSE op[k]
  BY DEF decide, IInv, TypeOK
<1>2. TypeOK'
  BY DEF decide, IInv, TypeOK, Op
<1>3. RowsInv' /\ NeverOverdrawn' /\ EveryApprovalCharged'
  BY DEF decide, IInv, RowsInv, RowOK, Exists, NeverOverdrawn, EveryApprovalCharged
<1>4. OpsInv'
  <2> SUFFICES ASSUME NEW k \in Handlers PROVE OpOK(op[k])'
    BY DEF OpsInv
  <2>1. CASE k = h
    BY <1>1, <2>1 DEF OpOK, decide, Exists
  <2>2. CASE k # h
    <3>1. OpOK(op[k]) /\ op'[k] = op[k] /\ UNCHANGED <<req, bal>>
      BY <1>1, <2>2 DEF IInv, OpsInv, decide
    <3> QED BY <3>1 DEF OpOK
  <2> QED BY <2>1, <2>2
<1>5. \A k \in Handlers : op[k].at \in {"decided", "deducted"} => op[k].req # r
  BY DEF decide, MayLock, Excludes, Deciding
<1>6. LocksInv'
  BY <1>1, <1>5 DEF IInv, LocksInv, Apart, decide
<1> QED BY <1>2, <1>3, <1>4, <1>6 DEF IInv

(* Charging a request to a balance leaves a balance: the entitlement is    *)
(* unchanged, the days used grow by those of the request, and they stay    *)
(* within the entitlement when the remaining days cover them.              *)
LEMMA ChargeType ==
  ASSUME NEW b \in Balance, NEW t, t.days \in Nat
  PROVE  /\ Charge(b, t) \in Balance
         /\ Charge(b, t).used = b.used + t.days
         /\ t.days <= Remaining(b) => Charge(b, t).used <= Charge(b, t).total
<1> DEFINE n == b.used + t.days
<1>1. b.total \in 0..MaxTotal /\ b.used \in Nat /\ b.total \in Nat
  BY LeaveAssumption DEF Balance
<1>2. n \in Nat /\ (t.days <= Remaining(b) => n <= b.total)
  BY <1>1 DEF Remaining
<1>3. b = [total |-> b.total, used |-> b.used]
  BY DEF Balance
<1> HIDE DEF n
<1>4. Charge(b, t) = [total |-> b.total, used |-> n]
  BY <1>3 DEF Charge, n
<1> QED BY <1>1, <1>2, <1>4 DEF Balance, n

LEMMA DeductInv ==
  ASSUME IInv, NEW h \in Handlers, deduct(h)
  PROVE  IInv'
<1> DEFINE r == op[h].req
           t == req[r].terms
           b == bal[t.owner]
           o == [at |-> "deducted", req |-> r, user |-> op[h].user, to |-> op[h].to,
                 bal |-> Charge(b, t)]
<1>0. op[h].at = "decided" /\ op[h].to = "Approved" /\ b # NoBalance
  BY DEF deduct, MustDeduct, Owner
<1>1. op[h] \in Op /\ r \in Requests /\ op[h].user \in Users
  <2>1. op[h] \in Op
    BY DEF IInv, TypeOK
  <2> QED BY <1>0, <2>1, OpType
<1>2. OpOK(op[h]) /\ t \in Terms /\ t.owner \in Employees /\ t.days \in Nat
  <2>1. OpOK(op[h]) /\ Exists(r)
    BY <1>0 DEF IInv, OpsInv, OpOK, Exists
  <2>2. t \in Terms
    BY <1>1, <2>1, RowType DEF IInv, Row
  <2> QED BY <2>1, <2>2, LeaveAssumption DEF Terms, Days
<1>3. b \in Balance
  BY <1>0, <1>2 DEF IInv, TypeOK
<1>4. o.bal \in Balance /\ o \in Op
  <2>1. Charge(b, t) \in Balance
    BY <1>2, <1>3, ChargeType
  <2> QED BY <1>0, <1>1, <2>1 DEF Op
<1>5. op' = [op EXCEPT ![h] = o] /\ UNCHANGED <<req, bal, entered, charged>>
  BY DEF deduct, charge, Owner, Charge
<1>6. \A k \in Handlers : op'[k] = IF k = h THEN o ELSE op[k]
  BY <1>5 DEF IInv, TypeOK
<1>7. TypeOK'
  BY <1>4, <1>5 DEF IInv, TypeOK
<1>8. RowsInv' /\ NeverOverdrawn' /\ EveryApprovalCharged'
  BY <1>5 DEF IInv, RowsInv, RowOK, Exists, NeverOverdrawn, EveryApprovalCharged
<1>9. OpsInv'
  <2> SUFFICES ASSUME NEW k \in Handlers PROVE OpOK(op[k])'
    BY DEF OpsInv
  <2>1. CASE k = h
    <3>1. t.days <= Remaining(b)
      BY DEF deduct, Fits, Owner
    <3>2. req[r].status # "none" /\ Decision(op[h].user, req[r], op[h].to)
      BY <1>0, <1>2 DEF OpOK
    <3> QED BY <1>0, <1>5, <1>6, <2>1, <3>1, <3>2 DEF OpOK
  <2>2. CASE k # h
    <3>1. OpOK(op[k]) /\ op'[k] = op[k]
      BY <1>6, <2>2 DEF IInv, OpsInv
    <3> QED BY <3>1, <1>5 DEF OpOK
  <2> QED BY <2>1, <2>2
<1>10. \A k \in Handlers : op[k].at = "deducted" => req[op[k].req].terms.owner # t.owner
  BY DEF deduct, BalanceFree, HasBalance, Owner
<1>11. LocksInv'
  <2> SUFFICES ASSUME NEW j \in Handlers, NEW k \in Handlers, j # k
               PROVE  Apart(op[j], op[k])'
    BY DEF LocksInv
  <2>1. Apart(op[j], op[k])
    BY DEF IInv, LocksInv
  <2> QED BY <1>0, <1>5, <1>6, <1>10, <2>1 DEF Apart
<1> QED BY <1>7, <1>8, <1>9, <1>11 DEF IInv

LEMMA CommitInv ==
  ASSUME IInv, NEW h \in Handlers, commit(h)
  PROVE  IInv'
<1> DEFINE r == op[h].req
           t == req[r].terms
           d == Decided(req[r], op[h].user, op[h].to)
<1>0. /\ op[h].at \in {"decided", "deducted"}
      /\ req' = [req EXCEPT ![r] = d]
      /\ op' = [op EXCEPT ![h] = Idle]
      /\ entered' = entered
  BY DEF commit, Ready, HasBalance
<1>1. op[h] \in Op /\ r \in Requests /\ op[h].user \in Users /\ op[h].to \in Status
  <2>1. op[h] \in Op
    BY DEF IInv, TypeOK
  <2> QED BY <1>0, <2>1, OpType DEF Status, Open
<1>2. OpOK(op[h]) /\ Exists(r) /\ Decision(op[h].user, req[r], op[h].to)
  BY <1>0 DEF IInv, OpsInv, OpOK, Exists
<1>3. req[r] \in Row /\ RowOK(req[r]) /\ t \in Terms
  <2>1. req[r] \in Row
    BY <1>1, <1>2, RowType DEF IInv
  <2> QED BY <1>1, <1>2, <2>1 DEF IInv, RowsInv, Row
<1>4. d \in Row /\ d.terms = t /\ RowOK(d)
  BY <1>1, <1>2, <1>3, DecidedRow
<1>5. t.owner \in Employees /\ t.days \in Nat
  BY <1>3, LeaveAssumption DEF Terms, Days
<1> HIDE DEF d
<1>6. \A q \in Requests : req'[q] = IF q = r THEN d ELSE req[q]
  BY <1>0 DEF IInv, TypeOK
<1>7. \A k \in Handlers : op'[k] = IF k = h THEN Idle ELSE op[k]
  BY <1>0 DEF IInv, TypeOK
<1>8. ASSUME op[h].at = "decided"
      PROVE  TypeOK' /\ NeverOverdrawn' /\ EveryApprovalCharged'
  <2>1. UNCHANGED <<bal, charged>>
    BY <1>8 DEF commit, Ready, HasBalance
  <2>2. TypeOK'
    BY <1>0, <1>1, <1>4, <2>1 DEF IInv, TypeOK, Op
  <2>3. NeverOverdrawn' /\ EveryApprovalCharged'
    BY <1>0, <2>1 DEF IInv, NeverOverdrawn, EveryApprovalCharged
  <2> QED BY <2>1, <2>2, <2>3
<1>9. ASSUME op[h].at = "deducted"
      PROVE  TypeOK' /\ NeverOverdrawn' /\ EveryApprovalCharged'
  <2>1. /\ bal' = [bal EXCEPT ![t.owner] = op[h].bal]
        /\ charged' = [charged EXCEPT ![t.owner] = @ + t.days]
    BY <1>9 DEF commit, Ready, HasBalance
  <2>2. /\ bal[t.owner] # NoBalance /\ t.days <= Remaining(bal[t.owner])
        /\ op[h].bal = Charge(bal[t.owner], t)
    BY <1>2, <1>9 DEF OpOK
  <2>3. bal[t.owner] \in Balance
    BY <1>5, <2>2 DEF IInv, TypeOK
  <2>4. op[h].bal \in Balance /\ op[h].bal.used = bal[t.owner].used + t.days
        /\ op[h].bal.used <= op[h].bal.total
    BY <1>5, <2>2, <2>3, ChargeType
  <2>5. TypeOK'
    <3>1. charged[t.owner] + t.days \in Nat /\ Idle \in Op
      BY <1>5 DEF IInv, TypeOK, Op, Idle
    <3>2. req' \in [Requests -> Row \cup {NoRow}] /\ op' \in [Handlers -> Op]
      BY <1>0, <1>1, <1>4, <3>1 DEF IInv, TypeOK
    <3>3. /\ bal' \in [Employees -> Balance \cup {NoBalance}]
          /\ charged' \in [Employees -> Nat]
      BY <2>1, <2>4, <3>1 DEF IInv, TypeOK
    <3> QED BY <1>0, <3>2, <3>3 DEF IInv, TypeOK
  <2>6. NeverOverdrawn'
    BY <2>1, <2>4 DEF IInv, TypeOK, NeverOverdrawn
  <2>7. EveryApprovalCharged'
    <3> SUFFICES ASSUME NEW e \in Employees
                 PROVE  bal'[e].used = entered[e] + charged'[e]
      BY <1>0 DEF EveryApprovalCharged
    <3>1. bal[e].used = entered[e] + charged[e] /\ entered[e] \in Nat /\ charged[e] \in Nat
      BY DEF IInv, TypeOK, EveryApprovalCharged
    <3>2. CASE e = t.owner
      <4>1. bal'[e] = op[h].bal /\ charged'[e] = charged[e] + t.days
        BY <2>1, <3>2 DEF IInv, TypeOK
      <4>2. bal'[e].used = bal[e].used + t.days
        BY <2>4, <3>2, <4>1
      <4> QED BY <1>5, <3>1, <4>1, <4>2
    <3>3. CASE e # t.owner
      BY <2>1, <3>1, <3>3 DEF IInv, TypeOK
    <3> QED BY <3>2, <3>3
  <2> QED BY <2>1, <2>5, <2>6, <2>7
<1>10. TypeOK' /\ NeverOverdrawn' /\ EveryApprovalCharged'
  BY <1>0, <1>8, <1>9
<1>11. RowsInv'
  BY <1>4, <1>6 DEF RowsInv, Exists, IInv
\* The other transactions hold other requests, and other balances.
<1>12. ASSUME NEW k \in Handlers, op'[k].at \in {"decided", "deducted"}
       PROVE  /\ k # h /\ op'[k] = op[k] /\ req'[op[k].req] = req[op[k].req]
              /\ op[k].at = "deducted" =>
                   bal'[req[op[k].req].terms.owner] = bal[req[op[k].req].terms.owner]
  <2>1. k # h /\ op'[k] = op[k]
    BY <1>7, <1>12 DEF Idle
  <2>2. op[k].req \in Requests /\ op[k].at \in {"decided", "deducted"}
    BY <1>12, <2>1, OpType DEF IInv, TypeOK
  <2>3. Apart(op[h], op[k])
    BY <2>1 DEF IInv, LocksInv
  <2>4. req'[op[k].req] = req[op[k].req]
    BY <1>0, <1>6, <2>2, <2>3 DEF Apart
  <2>5. ASSUME op[k].at = "deducted"
        PROVE  bal'[req[op[k].req].terms.owner] = bal[req[op[k].req].terms.owner]
    <3> DEFINE e == req[op[k].req].terms.owner
    <3>1. CASE op[h].at = "decided"
      BY <3>1 DEF commit, Ready, HasBalance
    <3>2. CASE op[h].at = "deducted"
      <4>1. e # t.owner
        BY <2>3, <2>5, <3>2 DEF Apart
      <4>2. bal' = [bal EXCEPT ![t.owner] = op[h].bal]
        BY <3>2 DEF commit, Ready, HasBalance
      <4>3. req[op[k].req] \in Row
        <5>1. Exists(op[k].req)
          BY <2>2 DEF IInv, OpsInv, OpOK, Exists
        <5> QED BY <2>2, <5>1, RowType DEF IInv
      <4>4. e \in Employees
        BY <4>3 DEF Row, Terms
      <4> QED BY <4>1, <4>2, <4>4 DEF IInv, TypeOK
    <3> QED BY <1>0, <3>1, <3>2
  <2> QED BY <2>1, <2>4, <2>5
<1>13. OpsInv'
  <2> SUFFICES ASSUME NEW k \in Handlers PROVE OpOK(op[k])'
    BY DEF OpsInv
  <2>1. CASE op'[k].at \notin {"decided", "deducted"}
    BY <2>1 DEF OpOK
  <2>2. CASE op'[k].at \in {"decided", "deducted"}
    <3>1. OpOK(op[k])
      BY DEF IInv, OpsInv
    <3> QED BY <1>12, <2>2, <3>1 DEF OpOK
  <2> QED BY <2>1, <2>2
<1>14. LocksInv'
  <2> SUFFICES ASSUME NEW j \in Handlers, NEW k \in Handlers, j # k
               PROVE  Apart(op[j], op[k])'
    BY DEF LocksInv
  <2>1. Apart(op[j], op[k])
    BY DEF IInv, LocksInv
  <2> QED BY <1>12, <2>1 DEF Apart
<1> QED BY <1>10, <1>11, <1>13, <1>14 DEF IInv

LEMMA SetBalanceInv ==
  ASSUME IInv, NEW e \in Employees, NEW b \in Entries, setBalance(e, b)
  PROVE  IInv'
<1>1. b \in Balance /\ b.used \in Nat /\ b.used <= b.total
  BY LeaveAssumption DEF Entries, Balance
<1>2. TypeOK' /\ RowsInv'
  BY <1>1 DEF setBalance, IInv, TypeOK, RowsInv, RowOK, Exists
<1>3. NeverOverdrawn'
  BY <1>1 DEF setBalance, IInv, TypeOK, NeverOverdrawn
<1>4. EveryApprovalCharged'
  <2> SUFFICES ASSUME NEW f \in Employees
               PROVE  bal'[f].used = entered'[f] + charged'[f]
    BY DEF EveryApprovalCharged
  <2>1. CASE f = e
    <3>1. bal'[f] = b /\ entered'[f] = b.used /\ charged'[f] = 0
      BY <2>1 DEF setBalance, IInv, TypeOK
    <3> QED BY <1>1, <3>1
  <2>2. CASE f # e
    BY <2>2 DEF setBalance, IInv, TypeOK, EveryApprovalCharged
  <2> QED BY <2>1, <2>2
<1>5. OpsInv'
  <2> SUFFICES ASSUME NEW k \in Handlers PROVE OpOK(op[k])'
    BY DEF OpsInv
  <2>1. OpOK(op[k]) /\ UNCHANGED <<req, op>>
    BY DEF IInv, OpsInv, setBalance
  <2>2. CASE op[k].at # "deducted"
    BY <2>1, <2>2 DEF OpOK
  <2>3. CASE op[k].at = "deducted"
    <3>1. req[op[k].req].terms.owner # e
      BY <2>3 DEF setBalance, BalanceFree, HasBalance
    <3>2. bal'[req[op[k].req].terms.owner] = bal[req[op[k].req].terms.owner]
      <4>1. Exists(op[k].req) /\ op[k].req \in Requests
        BY <2>1, <2>3, OpType DEF IInv, TypeOK, OpOK, Exists
      <4>2. req[op[k].req].terms.owner \in Employees
        BY <4>1, RowType DEF IInv, Row, Terms
      <4> QED BY <3>1, <4>2 DEF setBalance, IInv, TypeOK
    <3> QED BY <2>1, <2>3, <3>2 DEF OpOK
  <2> QED BY <2>2, <2>3
<1>6. LocksInv'
  BY DEF IInv, LocksInv, Apart, setBalance
<1> QED BY <1>2, <1>3, <1>4, <1>5, <1>6 DEF IInv
-----------------------------------------------------------------------------
LEMMA NextInv == IInv /\ [Next]_vars => IInv'
<1> SUFFICES ASSUME IInv, [Next]_vars PROVE IInv'
  OBVIOUS
<1>1. CASE UNCHANGED vars
  <2>1. OpsInv' /\ LocksInv' /\ RowsInv'
    BY <1>1 DEF vars, IInv, OpsInv, OpOK, LocksInv, Apart, RowsInv, RowOK, Exists
  <2> QED BY <1>1, <2>1 DEF vars, IInv, TypeOK, NeverOverdrawn, EveryApprovalCharged
<1>2. CASE Next
  <2>1. ASSUME NEW h \in Handlers, readOnly(h) PROVE IInv'
    BY <2>1, ReadOnlyInv
  <2>2. ASSUME NEW h \in Handlers, NEW r \in Requests, insert(h, r) PROVE IInv'
    BY <2>2, InsertInv
  <2>3. ASSUME NEW h \in Handlers, NEW u \in Users, NEW r \in Requests, NEW s \in Status,
               decide(h, u, r, s)
        PROVE  IInv'
    BY <2>3, DecideInv
  <2>4. ASSUME NEW h \in Handlers, deduct(h) \/ commit(h) PROVE IInv'
    BY <2>4, DeductInv, CommitInv
  <2>5. ASSUME NEW e \in Employees, NEW b \in Entries, setBalance(e, b) PROVE IInv'
    BY <2>5, SetBalanceInv
  <2> QED BY <1>2, <2>1, <2>2, <2>3, <2>4, <2>5 DEF Next, readOnly
<1> QED BY <1>1, <1>2

(* IInv is inductive, so it holds in every reachable state.                *)
THEOREM Invariance == Spec => []IInv
<1>1. Init => IInv
  BY InitInv
<1>2. IInv /\ [Next]_vars => IInv'
  BY NextInv
<1> QED BY <1>1, <1>2, PTL DEF Spec

(* The tables and the locals of the handlers keep their types.             *)
THEOREM TypeCorrect == Spec => []TypeOK
<1>1. IInv => TypeOK
  BY DEF IInv
<1> QED BY <1>1, Invariance, PTL

(* Four different eyes, for any staff: an approved leave was endorsed and  *)
(* approved by two people, neither of them its owner.                      *)
THEOREM FourEyes == Spec => []ApprovedByFourEyes
<1>1. IInv => ApprovedByFourEyes
  BY DEF IInv, RowsInv, RowOK, ApprovedByFourEyes, Exists
<1> QED BY <1>1, Invariance, PTL

(* No race of approvals and entries overdraws a balance.                   *)
THEOREM BalancesSuffice == Spec => []NeverOverdrawn
<1>1. IInv => NeverOverdrawn
  BY DEF IInv
<1> QED BY <1>1, Invariance, PTL

(* Every approval is charged, and nothing else.                            *)
THEOREM ApprovalsCharged == Spec => []EveryApprovalCharged
<1>1. IInv => EveryApprovalCharged
  BY DEF IInv
<1> QED BY <1>1, Invariance, PTL

(* A decision is made on the status its request has when it takes effect.  *)
LEMMA StepFollowsWorkflow ==
  ASSUME IInv, [Next]_vars, NEW r \in Requests
  PROVE  /\ req'[r].status = "Approved" =>
              req[r].status \in {"Approved", "Payroll Approved"}
         /\ req'[r].status = "Payroll Approved" =>
              req[r].status \in {"Payroll Approved", "Pending"}
         /\ req'[r].status = "Rejected" =>
              req[r].status \in {"Rejected", "Pending", "Payroll Approved"}
<1>1. CASE req'[r] = req[r]
  BY <1>1
<1>2. ASSUME NEW h \in Handlers, NEW q \in Requests, insert(h, q), req'[r] # req[r]
      PROVE  req'[r].status = "Pending"
  BY <1>2 DEF insert, Filed, IInv, TypeOK
<1>3. ASSUME NEW h \in Handlers, commit(h), req'[r] # req[r]
      PROVE  \E u \in Users, s \in Status :
               req'[r].status = s /\ Decision(u, req[r], s)
  <2>1. op[h].at \in {"decided", "deducted"}
    BY <1>3 DEF commit, Ready, HasBalance
  <2>2. op[h].req = r
    BY <1>3 DEF commit, IInv, TypeOK
  <2>3. op[h].user \in Users /\ op[h].to \in Status
    BY <2>1, OpType DEF IInv, TypeOK, Status, Open
  <2>4. Exists(r) /\ Decision(op[h].user, req[r], op[h].to)
    BY <2>1, <2>2 DEF IInv, OpsInv, OpOK, Exists
  <2>5. req[r] \in Row
    BY <2>4, RowType DEF IInv
  <2>6. req'[r].status = op[h].to
    BY <1>3, <2>2, <2>5 DEF commit, IInv, TypeOK, Decided, Row
  <2> QED BY <2>3, <2>4, <2>6
<1>4. CASE req'[r] # req[r]
  <2>1. \/ \E h \in Handlers, q \in Requests : insert(h, q)
        \/ \E h \in Handlers : commit(h)
    BY <1>4 DEF Next, vars, file, checkBalance, checkLimit, decide, deduct, charge, giveUp,
                setBalance
  <2>2. CASE \E h \in Handlers, q \in Requests : insert(h, q)
    BY <1>2, <1>4, <2>2
  <2>3. CASE \E h \in Handlers : commit(h)
    BY <1>3, <1>4, <2>3 DEF Decision, Endorses, Approves
  <2> QED BY <2>1, <2>2, <2>3
<1> QED BY <1>1, <1>4

(* Every decision takes effect on a status from which it may be made.      *)
THEOREM WorkflowFollowed == Spec => DecisionsFollowWorkflow
<1> DEFINE Step ==
      \A r \in Requests :
        /\ req'[r].status = "Approved" =>
             req[r].status \in {"Approved", "Payroll Approved"}
        /\ req'[r].status = "Payroll Approved" =>
             req[r].status \in {"Payroll Approved", "Pending"}
        /\ req'[r].status = "Rejected" =>
             req[r].status \in {"Rejected", "Pending", "Payroll Approved"}
<1>1. IInv /\ [Next]_vars => [Step]_vars
  BY StepFollowsWorkflow
<1> QED BY <1>1, Invariance, PTL DEF Spec, DecisionsFollowWorkflow
-----------------------------------------------------------------------------
(* --- decisions are atomic -------------------------------------------------- *)
LEMMA StartsAsLedger == Init => Ledger!Init
  BY DEF Init, Ledger!Init

LEMMA FilesAsLedger ==
  ASSUME IInv, NEW h \in Handlers, NEW r \in Requests, insert(h, r)
  PROVE  Ledger!File(r)
<1>1. op[h].terms \in Terms
  BY OpType DEF insert, IInv, TypeOK
<1>2. req[r] = NoRow
  BY DEF insert, Exists, IInv, TypeOK, Row, Status, Open
<1> QED BY <1>1, <1>2 DEF insert, Ledger!File

(* A commit finds what its decision was made on, and is that one event.    *)
LEMMA CommitsAsLedger ==
  ASSUME IInv, NEW h \in Handlers, commit(h)
  PROVE  \E r \in Requests :
           Ledger!Endorse(r) \/ Ledger!Approve(r) \/ Ledger!Reject(r) \/ Ledger!CancelOrReopen(r)
<1> DEFINE r == op[h].req
           u == op[h].user
           s == op[h].to
           t == req[r].terms
<1>1. /\ op[h].at \in {"decided", "deducted"}
      /\ req' = [req EXCEPT ![r] = Decided(req[r], u, s)]
      /\ op[h].at = "decided" => s # "Approved" /\ UNCHANGED bal
      /\ op[h].at = "deducted" => bal' = [bal EXCEPT ![t.owner] = op[h].bal]
  <2>1. op[h].at \in {"decided", "deducted"} /\ (op[h].at = "decided" => s # "Approved")
    BY DEF commit, Ready, HasBalance
  <2>2. req \in [Requests -> Row \cup {NoRow}]
    BY DEF IInv, TypeOK
  <2>3. req' = [req EXCEPT ![r] = Decided(req[r], u, s)]
    BY <2>2 DEF commit
  <2> QED BY <2>1, <2>3 DEF commit, HasBalance
<1>2. /\ op[h] \in Op /\ r \in Requests /\ s \in Status
      /\ op[h].at = "deducted" => s = "Approved"
  <2>1. op[h] \in Op
    BY DEF IInv, TypeOK
  <2> QED BY <1>1, <2>1, OpType DEF Status, Open
<1>3. OpOK(op[h]) /\ Exists(r) /\ Decision(u, req[r], s)
  BY <1>1 DEF IInv, OpsInv, OpOK, Exists
<1>4. req[r] \in Row /\ req[r] # NoRow
  BY <1>2, <1>3, RowType DEF IInv, Exists, NoRow
<1>5. CASE s = "Payroll Approved"
  <2>1. u \in Payroll \ {t.owner} /\ req[r].status = "Pending"
    BY <1>3, <1>5 DEF Decision, Endorses
  <2>2. UNCHANGED bal
    BY <1>1, <1>2, <1>5
  <2>3. Decided(req[r], u, s) = [req[r] EXCEPT !.status = "Payroll Approved", !.endorsedBy = u]
    BY <1>4, <1>5 DEF Decided, Row
  <2>4. Ledger!Endorse(r)
    BY <1>1, <2>1, <2>2, <2>3 DEF Ledger!Endorse, Ledger!Except
  <2> QED BY <1>2, <2>4
<1>6. CASE s = "Approved"
  <2>1. u \in Hr \ {t.owner} /\ req[r].status = "Payroll Approved"
    BY <1>3, <1>6 DEF Decision, Approves
  <2>2. op[h].at = "deducted"
    BY <1>1, <1>6
  <2>3. /\ bal[t.owner] # NoBalance /\ t.days <= Remaining(bal[t.owner])
        /\ op[h].bal = Charge(bal[t.owner], t)
    BY <1>3, <2>2 DEF OpOK
  <2>4. bal' = [bal EXCEPT ![t.owner].used = @ + t.days]
    BY <1>1, <2>2, <2>3 DEF Charge
  <2>5. Decided(req[r], u, s) = [req[r] EXCEPT !.status = "Approved", !.approvedBy = u]
    BY <1>4, <1>6 DEF Decided, Row
  <2>6. Ledger!Approve(r)
    BY <1>1, <2>1, <2>3, <2>4, <2>5 DEF Ledger!Approve, Ledger!Except, Remaining
  <2> QED BY <1>2, <2>6
<1>7. CASE s \notin {"Payroll Approved", "Approved"}
  <2>0. Decided(req[r], u, s) = [req[r] EXCEPT !.status = s] /\ UNCHANGED bal
    BY <1>1, <1>2, <1>4, <1>7 DEF Decided, Row
  <2>1. req' = [req EXCEPT ![r].status = s] /\ UNCHANGED bal
    BY <1>1, <2>0
  <2>2. CASE s = "Rejected"
    <3>1. Ledger!Reject(r)
      BY <1>3, <2>1, <2>2 DEF Decision, Ledger!Reject
    <3> QED BY <1>2, <3>1
  <2>3. CASE s \in {"Cancelled", "Pending"}
    <3>1. Ledger!CancelOrReopen(r)
      BY <1>4, <2>1, <2>3 DEF Ledger!CancelOrReopen
    <3> QED BY <1>2, <3>1
  <2> QED BY <1>2, <1>7, <2>2, <2>3 DEF Status, Open
<1> QED BY <1>5, <1>6, <1>7

(* Filings, decisions and entries step the ledger; the rest stutters.      *)
LEMMA StepsAsLedger ==
  ASSUME IInv, [Next]_vars PROVE [Ledger!Next]_(Ledger!vars)
<1>1. ASSUME NEW h \in Handlers,
             \/ \E t \in Terms, portal \in BOOLEAN : file(h, t, portal)
             \/ checkBalance(h) \/ checkLimit(h) \/ deduct(h) \/ giveUp(h)
             \/ \E u \in Users, r \in Requests, s \in Status : decide(h, u, r, s)
      PROVE  UNCHANGED <<req, bal>>
  BY <1>1 DEF file, checkBalance, checkLimit, deduct, charge, giveUp, decide
<1>2. ASSUME NEW e \in Employees, NEW b \in Entries, setBalance(e, b)
      PROVE  Ledger!Enter(e)
  BY <1>2 DEF setBalance, Ledger!Enter
<1>3. ASSUME UNCHANGED vars PROVE UNCHANGED <<req, bal>>
  BY <1>3 DEF vars
<1> QED BY <1>1, <1>2, <1>3, FilesAsLedger, CommitsAsLedger DEF Next, Ledger!Next, Ledger!vars

(* The handlers implement the ledger, in which a decision is one event.    *)
THEOREM DecisionsAtomic == Spec => DecisionsAreAtomic
<1>1. IInv /\ [Next]_vars => [Ledger!Next]_(Ledger!vars)
  BY StepsAsLedger
<1> QED BY <1>1, StartsAsLedger, Invariance, PTL DEF Spec, DecisionsAreAtomic, Ledger!Spec
=============================================================================
