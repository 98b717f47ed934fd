--------------------------- MODULE AttendanceProofs ---------------------------
(***************************************************************************)
(* The attendance of any days, by any requests, scans and times.  The      *)
(* inductive invariant IInv says what each of the two locks is for.  FOR   *)
(* UPDATE: the row that an open transaction is going to write was computed *)
(* from the row that is still there.  The lock of the integrity chain:     *)
(* there is one refresh in order at a time, and the row it has read is the *)
(* row of the day in everything the summary is made of, until some pushed  *)
(* scan has written the row again and owes a refresh of its own.           *)
(***************************************************************************)
EXTENDS Attendance, TLAPS

Writer(o) == o.pc \in {"written", "marked"}
Refresher(o) == o.pc \in {"status", "summary"} /\ ~ o.again

(* What is in a row is what HR decided and validated.                      *)
DayOK(d) ==
  /\ log[d].status = "PAYROLL_READY" => <<log[d].in, log[d].out>> \in judged[d]
  /\ sum[d].eligible => Complete(sum[d]) /\ <<sum[d].in, sum[d].out>> \in judged[d]
  /\ d \notin torn /\ log[d].ot = "APPROVED" => decided[d] = "APPROVED"
DayInv == \A d \in Days : DayOK(d)

(* What a transaction o that holds row q is about to write.                *)
Punches(o, q) ==
  /\ o.scan \in Scans /\ o.scan.station /\ o.day = o.scan.day
  /\ o.slot = Slot(q, o.scan) /\ o.slot \in {"in", "out"}
  /\ o.row = Punched(q, o.scan)
Decides(o, q) ==
  /\ o.row.status # "none"
  /\ o.op \in {"hr", "validate"} => o.row.ot \in {"NONE", q.ot}
  /\ o.op = "hr" => o.row.status # "PAYROLL_READY"
  /\ o.op = "hours" => o.row.ot # "APPROVED"
  /\ o.op \in {"hours", "review"} =>
       /\ o.row.status = q.status /\ o.row.in = q.in /\ o.row.out = q.out
  /\ o.op = "review" => o.row.ot \in {"APPROVED", "REJECTED"}
Writes(o) ==
  /\ o.day \in Days
  /\ o.op \in {"scan", "hr", "validate", "hours", "review"}
  /\ IF o.op = "scan" THEN Punches(o, log[o.day]) ELSE Decides(o, log[o.day])

(* What a request knows at each point of its way.                          *)
Pushed(o) ==
  o.pc \in {"scan", "read", "written", "marked"} => ~ o.scan.station
Scanning(o) ==
  o.pc \in {"scan", "punch", "read", "written", "marked"} => o.scan \in Scans /\ o.day = o.scan.day
Reading(o) ==
  o.pc = "read" => o.slot = Slot(o.row, o.scan) /\ o.slot \in {"in", "out"}
Rewriting(o) ==
  /\ o.again => o.pc \in {"status", "summary"}
  /\ o.pc \in {"status", "summary"} /\ o.row.status = "PAYROLL_READY" =>
       <<o.row.in, o.row.out>> \in judged[o.day]
  /\ Refresher(o) /\ o.day \notin torn /\ o.row.ot = "APPROVED" => decided[o.day] = "APPROVED"
RequestOK(o) ==
  /\ o.pc # "idle" => o.day \in Days
  /\ Pushed(o) /\ Scanning(o) /\ Reading(o) /\ Rewriting(o)
  /\ o.pc = "locked" => Writes(o)
RequestInv == \A w \in Workers : RequestOK(tx[w])

(* A row that exists is locked for one; the chain is.                      *)
LockInv ==
  \A v, w \in Workers :
    /\ tx[v].pc = "locked" /\ tx[w].pc = "locked" /\ tx[v].day = tx[w].day
    /\ Exists(log[tx[v].day])
    => v = w
ChainInv == \A v, w \in Workers : Refresher(tx[v]) /\ Refresher(tx[w]) => v = w

(* The summary is that of the row, or the refresh that is under way will
   make it so, or a pushed scan owes one.                                  *)
Owed(d) == \E w \in Workers : tx[w].day = d /\ Writer(tx[w])
Followed(d) ==
  /\ \A w \in Workers : tx[w].day = d /\ Refresher(tx[w]) => Refreshed(tx[w].row) = Refreshed(log[d])
  /\ (\A w \in Workers : tx[w].day = d => ~ Refresher(tx[w])) => sum[d] = Summary(log[d])
FollowInv == \A d \in Days : d \notin torn /\ ~ Owed(d) => Followed(d)

(* The scan of a pushing device is handled by one request, until its event
   says what became of it.                                                 *)
Carries(o, s) == o.scan = s /\ o.pc \in {"scan", "punch", "read", "written"}
EventOK(s) ==
  /\ applied[s] <= 1
  /\ event[<<s, "AUTO">>] = "VALIDATED" => applied[s] = 1
  /\ event[<<s, "AUTO">>] \in {"none", "DUPLICATE", "UNMAPPED"} => applied[s] = 0
  /\ \A w \in Workers : Carries(tx[w], s) =>
       /\ event[<<s, "AUTO">>] = "NEEDS_REVIEW"
       /\ applied[s] = IF tx[w].pc = "written" THEN 1 ELSE 0
       /\ \A v \in Workers : Carries(tx[v], s) => v = w
EventInv == \A s \in Scans : ~ s.station => EventOK(s)

IInv == TypeOK /\ DayInv /\ RequestInv /\ LockInv /\ ChainInv /\ FollowInv /\ EventInv
-----------------------------------------------------------------------------
LEMMA AbsentRow == Absent \in Rows /\ Free \in Requests
  BY DEF Absent, Free, Rows, RowStatuses, Requests

LEMMA FreeRequest ==
  /\ Free.pc = "idle" /\ ~ Writer(Free) /\ ~ Refresher(Free)
  /\ RequestOK(Free) /\ \A s : ~ Carries(Free, s)
  BY DEF Free, Writer, Refresher, RequestOK, Pushed, Scanning, Reading, Rewriting, Carries

LEMMA InitInv == Init => IInv
<1> SUFFICES ASSUME Init PROVE IInv
  OBVIOUS
<1>1. TypeOK
  <2>1. log \in [Days -> Rows] /\ tx \in [Workers -> Requests]
    BY AbsentRow DEF Init
  <2>2. event \in [Scans \X Slots -> {"none", "NEEDS_REVIEW", "DUPLICATE", "UNMAPPED", "VALIDATED"}]
    BY DEF Init
  <2> QED BY <2>1, <2>2 DEF Init, TypeOK, NoSummary
<1>2. DayInv
  BY DEF Init, DayInv, DayOK, Absent, NoSummary
<1>3. RequestInv /\ LockInv /\ ChainInv
  BY FreeRequest DEF Init, RequestInv, LockInv, ChainInv
<1>4. FollowInv
  <2>1. ~ Complete(Absent) /\ Detected(Absent) = 0
    BY DEF Absent, Complete, Detected
  <2>2. OvertimeStatus(Absent) = "NONE"
    BY <2>1 DEF OvertimeStatus
  <2>3. Summary(Absent) = NoSummary
    BY <2>1, <2>2 DEF Summary, NoSummary, Absent
  <2> QED BY <2>3, FreeRequest DEF Init, FollowInv, Followed
<1>5. EventInv
  <2> SUFFICES ASSUME NEW s \in Scans PROVE EventOK(s)
    BY DEF EventInv
  <2>1. event[<<s, "AUTO">>] = "none" /\ applied[s] = 0
    BY DEF Init, Slots
  <2>2. \A w \in Workers : ~ Carries(tx[w], s)
    BY FreeRequest DEF Init
  <2> QED BY <2>1, <2>2 DEF EventOK
<1> QED BY <1>1, <1>2, <1>3, <1>4, <1>5 DEF IInv

(* A punch fills its slot, and only that; a day it changes is to be
   validated again.                                                        *)
LEMMA PunchedRow ==
  ASSUME NEW q \in Rows, NEW s \in Scans, Slot(q, s) \in {"in", "out"}
  PROVE  /\ Punched(q, s) \in Rows
         /\ Punched(q, s).status \in {"PENDING_VALIDATION", "NEEDS_REVIEW"}
         /\ Punched(q, s).ot = q.ot
         /\ q.in \in {0, Punched(q, s).in} /\ q.out <= Punched(q, s).out
<1> DEFINE st == IF ~ Exists(q) /\ Slot(q, s) = "out" THEN "NEEDS_REVIEW" ELSE "PENDING_VALIDATION"
<1>1. s.time \in Nat /\ s.time # 0
  BY ScansAssumption, TimesAssumption
<1>2. st \in {"PENDING_VALIDATION", "NEEDS_REVIEW"}
  OBVIOUS
<1>3. CASE Slot(q, s) = "in"
  <2>1. q.in = 0
    BY <1>3 DEF Slot
  <2>2. Punched(q, s) = [q EXCEPT !.in = s.time, !.status = st]
    BY <1>3 DEF Punched
  <2>3. Punched(q, s) = [in |-> s.time, out |-> q.out,
                         status |-> st, hours |-> q.hours, ot |-> q.ot]
    BY <2>2 DEF Rows
  <2> HIDE DEF st
  <2> QED BY <1>1, <1>2, <2>1, <2>3 DEF Rows, RowStatuses
<1>4. CASE Slot(q, s) = "out"
  <2>1. q.out = 0 \/ s.time > q.out
    BY <1>4 DEF Slot
  <2>2. Punched(q, s) = [q EXCEPT !.out = s.time, !.status = st]
    BY <1>4 DEF Punched
  <2>3. Punched(q, s) = [in |-> q.in, out |-> s.time,
                         status |-> st, hours |-> q.hours, ot |-> q.ot]
    BY <2>2 DEF Rows
  <2> HIDE DEF st
  <2> QED BY <1>1, <1>2, <2>1, <2>3 DEF Rows, RowStatuses
<1> QED BY <1>3, <1>4

(* The policy engine only touches the overtime, and approves none itself.  *)
LEMMA RefreshedRow ==
  ASSUME NEW q \in Rows
  PROVE  /\ Refreshed(q) \in Rows
         /\ Refreshed(q).in = q.in /\ Refreshed(q).out = q.out
         /\ Refreshed(q).status = q.status
         /\ Refreshed(q).hours = q.hours /\ Refreshed(q).ot = OvertimeStatus(q)
         /\ OvertimeStatus(q) \in {"NONE", "PENDING", "APPROVED", "REJECTED"}
         /\ OvertimeStatus(q) = "APPROVED" => q.ot = "APPROVED"
         /\ Summary(q) \in [in : Nat, out : Nat, payable : Nat, eligible : BOOLEAN]
         /\ Summary(q).in = q.in /\ Summary(q).out = q.out
         /\ Summary(q).eligible = (q.status = "PAYROLL_READY" /\ Complete(q))
         /\ Summary(q).payable > 0 => q.ot = "APPROVED"
<1>1. OvertimeStatus(q) \in {"NONE", "PENDING", "APPROVED", "REJECTED"}
      /\ (OvertimeStatus(q) = "APPROVED" => q.ot = "APPROVED")
  BY DEF OvertimeStatus, Rows
<1>2. Detected(q) \in Nat
  BY TimesAssumption DEF Detected, Rows
<1>3. (q.status = "PAYROLL_READY" /\ Complete(q)) \in BOOLEAN
  OBVIOUS
<1> HIDE DEF OvertimeStatus, Detected, Complete
<1>4. Refreshed(q) = [q EXCEPT !.ot = OvertimeStatus(q)]
  BY DEF Refreshed
<1>5. Summary(q) = [in |-> q.in, out |-> q.out,
                    payable |-> IF OvertimeStatus(q) = "APPROVED" THEN Detected(q) ELSE 0,
                    eligible |-> (q.status = "PAYROLL_READY" /\ Complete(q))]
  BY DEF Summary
<1>6. /\ Refreshed(q) \in Rows
      /\ Refreshed(q).in = q.in /\ Refreshed(q).out = q.out
      /\ Refreshed(q).status = q.status /\ Refreshed(q).ot = OvertimeStatus(q)
      /\ Refreshed(q).hours = q.hours
  BY <1>1, <1>4 DEF Rows
<1>7. Summary(q) \in [in : Nat, out : Nat, payable : Nat, eligible : BOOLEAN]
  BY <1>2, <1>3, <1>5 DEF Rows
<1> QED BY <1>1, <1>2, <1>5, <1>6, <1>7

(* A summary is made of what a refresh leaves of the row: refreshing twice,
   or from a row that is the same refreshed, changes nothing.              *)
LEMMA SameSummary ==
  ASSUME NEW q \in Rows, NEW r \in Rows, Refreshed(q) = Refreshed(r)
  PROVE  /\ Summary(q) = Summary(r)
         /\ OvertimeStatus(q) = OvertimeStatus(r)
         /\ Refreshed([q EXCEPT !.ot = OvertimeStatus(r)]) = Refreshed(q)
<1>1. /\ q.in = r.in /\ q.out = r.out /\ q.hours = r.hours /\ q.status = r.status
      /\ OvertimeStatus(q) = OvertimeStatus(r)
  BY RefreshedRow
<1>2. Detected(q) = Detected(r) /\ Complete(q) = Complete(r)
  BY <1>1 DEF Detected, Complete
<1>3. Summary(q) = Summary(r)
  BY <1>1, <1>2 DEF Summary
<1> DEFINE p == [q EXCEPT !.ot = OvertimeStatus(q)]
<1>4. /\ p \in Rows /\ p.ot = OvertimeStatus(q)
      /\ p.in = q.in /\ p.out = q.out /\ p.hours = q.hours /\ p.status = q.status
  BY RefreshedRow DEF Rows
<1>5. Detected(p) = Detected(q)
  BY <1>4 DEF Detected, Complete
<1>6. OvertimeStatus(p) = OvertimeStatus(q)
  <2> HIDE DEF p
  <2> QED BY <1>4, <1>5 DEF OvertimeStatus
<1>7. Refreshed(p) = [p EXCEPT !.ot = OvertimeStatus(q)]
  BY <1>6 DEF Refreshed
<1>8. [p EXCEPT !.ot = OvertimeStatus(q)] = p
  BY <1>4 DEF Rows
<1>9. Refreshed(p) = Refreshed(q)
  BY <1>7, <1>8 DEF Refreshed
<1> QED BY <1>1, <1>3, <1>9

LEMMA TxStep ==
  ASSUME IInv, NEW w \in Workers, NEW o \in Requests, tx' = [tx EXCEPT ![w] = o]
  PROVE  /\ tx' \in [Workers -> Requests]
         /\ \A v \in Workers : tx'[v] = IF v = w THEN o ELSE tx[v]
  BY DEF IInv, TypeOK

(* A request that moves on without writing anything but an event, and that
   locks a row only if it may.                                             *)
LEMMA MovesOn ==
  ASSUME IInv, NEW w \in Workers, NEW o \in Requests, RequestOK(o),
         tx' = [tx EXCEPT ![w] = o],
         UNCHANGED <<log, sum, judged, decided, torn>>,
         o.pc = "locked" => MayLock(o.day) /\ tx[w].pc # "locked",
         (Writer(o) <=> Writer(tx[w])) /\ (Writer(o) => o.day = tx[w].day),
         ~ Refresher(o) /\ ~ Refresher(tx[w])
  PROVE  DayInv' /\ RequestInv' /\ LockInv' /\ ChainInv' /\ FollowInv'
<1>1. \A v \in Workers : tx'[v] = IF v = w THEN o ELSE tx[v]
  BY TxStep
<1>2. DayInv'
  BY DEF IInv, DayInv, DayOK
<1>3. RequestInv'
  <2> SUFFICES ASSUME NEW v \in Workers PROVE RequestOK(tx[v])'
    BY DEF RequestInv
  <2>1. RequestOK(tx'[v])
    BY <1>1 DEF IInv, RequestInv
  <2> QED BY <2>1 DEF RequestOK, Pushed, Scanning, Reading, Rewriting, Refresher, Writes
<1>4. LockInv'
  <2> SUFFICES ASSUME NEW u \in Workers, NEW v \in Workers,
                      tx'[u].pc = "locked", tx'[v].pc = "locked",
                      tx'[u].day = tx'[v].day, Exists(log[tx'[u].day])
               PROVE  u = v
    BY DEF LockInv, Exists
  <2>1. CASE u # w /\ v # w
    BY <1>1, <2>1 DEF IInv, LockInv
  <2>2. ASSUME NEW x \in Workers, x # w, tx[x].pc = "locked", o.pc = "locked",
               tx[x].day = o.day, Exists(log[o.day])
        PROVE  FALSE
    BY <2>2 DEF MayLock, Holders, At
  <2> QED BY <1>1, <2>1, <2>2
<1>5. \A v \in Workers : /\ Refresher(tx'[v]) <=> Refresher(tx[v])
                         /\ Refresher(tx[v]) => tx'[v] = tx[v]
                         /\ Writer(tx[v]) => Writer(tx'[v]) /\ tx'[v].day = tx[v].day
  BY <1>1
<1>6. ChainInv'
  BY <1>5 DEF IInv, ChainInv, Refresher
<1>7. FollowInv'
  <2> SUFFICES ASSUME NEW d \in Days, d \notin torn, ~ Owed(d)' PROVE Followed(d)'
    BY DEF FollowInv
  <2>1. ~ Owed(d)
    BY <1>5 DEF Owed, Writer
  <2>2. Followed(d)
    BY <2>1 DEF IInv, FollowInv
  <2>3. /\ \A v \in Workers : tx'[v].day = d /\ Refresher(tx'[v]) =>
             Refreshed(tx'[v].row) = Refreshed(log[d])
        /\ (\A v \in Workers : tx'[v].day = d => ~ Refresher(tx'[v])) => sum[d] = Summary(log[d])
    BY <1>5, <2>2 DEF Followed
  <2> QED BY <2>3 DEF Followed, Refresher, Refreshed, OvertimeStatus, Detected, Complete, Summary
<1> QED BY <1>2, <1>3, <1>4, <1>6, <1>7

(* A step that touches no event, by a request that carries no more scans.  *)
LEMMA EventsStay ==
  ASSUME IInv, NEW w \in Workers, NEW o \in Requests, tx' = [tx EXCEPT ![w] = o],
         UNCHANGED <<event, applied>>,
         \A s \in Scans : ~ s.station /\ Carries(o, s) =>
           Carries(tx[w], s) /\ o.pc # "written" /\ tx[w].pc # "written"
  PROVE  EventInv'
<1> SUFFICES ASSUME NEW s \in Scans, ~ s.station PROVE EventOK(s)'
  BY DEF EventInv
<1>1. \A v \in Workers : Carries(tx'[v], s) =>
        Carries(tx[v], s) /\ (tx'[v].pc = "written" <=> tx[v].pc = "written")
  BY TxStep
<1>2. EventOK(s)
  BY DEF IInv, EventInv
<1>3. /\ applied[s] <= 1
      /\ event[<<s, "AUTO">>] = "VALIDATED" => applied[s] = 1
      /\ event[<<s, "AUTO">>] \in {"none", "DUPLICATE", "UNMAPPED"} => applied[s] = 0
      /\ \A v \in Workers : Carries(tx'[v], s) =>
           /\ event[<<s, "AUTO">>] = "NEEDS_REVIEW"
           /\ applied[s] = IF tx'[v].pc = "written" THEN 1 ELSE 0
           /\ \A u \in Workers : Carries(tx'[u], s) => u = v
  BY <1>1, <1>2 DEF EventOK
<1> QED BY <1>3 DEF EventOK, Carries

(* A request that moves on without writing anything at all.                *)
LEMMA MovesQuietly ==
  ASSUME IInv, NEW w \in Workers, NEW o \in Requests, RequestOK(o),
         tx' = [tx EXCEPT ![w] = o],
         UNCHANGED <<log, sum, event, changes, judged, decided, applied, torn>>,
         o.pc = "locked" => MayLock(o.day) /\ tx[w].pc # "locked",
         ~ Writer(o) /\ ~ Writer(tx[w]) /\ ~ Refresher(o) /\ ~ Refresher(tx[w]),
         \A s \in Scans : ~ s.station /\ Carries(o, s) => Carries(tx[w], s)
  PROVE  IInv'
<1>1. DayInv' /\ RequestInv' /\ LockInv' /\ ChainInv' /\ FollowInv'
  BY MovesOn
<1>2. TypeOK'
  BY TxStep DEF IInv, TypeOK
<1>3. EventInv'
  BY EventsStay DEF Writer
<1> QED BY <1>1, <1>2, <1>3 DEF IInv

(* A request that ends with the event of its scan told.                    *)
LEMMA ClosesEvent ==
  ASSUME IInv, NEW w \in Workers, NEW s \in Scans, Carries(tx[w], s),
         tx[w].pc # "written", ~ s.station,
         tx' = [tx EXCEPT ![w] = Free],
         event' = [event EXCEPT ![<<s, "AUTO">>] = "DUPLICATE"],
         UNCHANGED <<log, sum, changes, judged, decided, applied, torn>>
  PROVE  IInv'
<1>1. ~ Writer(tx[w]) /\ ~ Refresher(tx[w])
  BY DEF Carries, Writer, Refresher
<1>2. DayInv' /\ RequestInv' /\ LockInv' /\ ChainInv' /\ FollowInv'
  BY <1>1, MovesOn, AbsentRow, FreeRequest
<1>3. TypeOK'
  BY TxStep, AbsentRow DEF IInv, TypeOK, Slots
<1>4. ASSUME NEW t \in Scans, ~ t.station PROVE EventOK(t)'
  <2>1. EventOK(t) /\ EventOK(s)
    BY <1>4 DEF IInv, EventInv
  <2>2. \A v \in Workers : Carries(tx'[v], t) => v # w /\ tx'[v] = tx[v]
    BY TxStep, AbsentRow, FreeRequest
  <2>3. event'[<<t, "AUTO">>] = IF t = s THEN "DUPLICATE" ELSE event[<<t, "AUTO">>]
    BY DEF IInv, TypeOK, Slots
  <2>4. t = s => applied[t] = 0 /\ \A v \in Workers : ~ Carries(tx'[v], t)
    BY <2>1, <2>2 DEF EventOK
  <2>5. /\ applied[t] <= 1
        /\ event'[<<t, "AUTO">>] = "VALIDATED" => applied[t] = 1
        /\ event'[<<t, "AUTO">>] \in {"none", "DUPLICATE", "UNMAPPED"} => applied[t] = 0
        /\ \A v \in Workers : Carries(tx'[v], t) =>
             /\ event'[<<t, "AUTO">>] = "NEEDS_REVIEW"
             /\ applied[t] = IF tx'[v].pc = "written" THEN 1 ELSE 0
             /\ \A u \in Workers : Carries(tx'[u], t) => u = v
    BY <2>1, <2>2, <2>3, <2>4 DEF EventOK
  <2> QED BY <2>5 DEF EventOK, Carries
<1> QED BY <1>2, <1>3, <1>4 DEF IInv, EventInv
-----------------------------------------------------------------------------
LEMMA ReceiveScanInv ==
  ASSUME IInv, NEW w \in Workers, NEW s \in Scans, receiveScan(w, s) PROVE IInv'
<1> DEFINE o == [Free EXCEPT !.pc = "punch", !.scan = s, !.day = s.day]
<1>1. /\ o \in Requests /\ o.pc = "punch" /\ o.scan = s /\ o.day = s.day /\ ~ o.again
      /\ ~ Writer(o) /\ ~ Refresher(o)
  BY AbsentRow, ScansAssumption DEF Free, Requests, Writer, Refresher
<1>2. s.station /\ tx[w].pc = "idle" /\ tx' = [tx EXCEPT ![w] = o]
  BY DEF receiveScan, At
<1> HIDE DEF o
<1>3. RequestOK(o) /\ \A t \in Scans : ~ t.station => ~ Carries(o, t)
  BY <1>1, <1>2, ScansAssumption
     DEF RequestOK, Pushed, Scanning, Reading, Rewriting, Refresher, Carries
<1> QED BY <1>1, <1>2, <1>3, MovesQuietly DEF receiveScan, Writer, Refresher

(* The first request with the key of a scan is the only one.               *)
LEMMA OpenEventInv ==
  ASSUME IInv, NEW w \in Workers, NEW s \in Scans, openEvent(w, s) PROVE IInv'
<1>1. /\ Key(s, "AUTO") = <<s, "AUTO">> /\ tx[w].pc = "idle" /\ ~ s.station
      /\ event[<<s, "AUTO">>] = "none" /\ s.day \in Days
      /\ event \in [Scans \X Slots -> {"none", "NEEDS_REVIEW", "DUPLICATE", "UNMAPPED", "VALIDATED"}]
      /\ "AUTO" \in Slots
      /\ UNCHANGED <<log, sum, changes, judged, decided, applied, torn>>
  BY ScansAssumption DEF openEvent, Key, At, IInv, TypeOK, Slots
<1>2. EventOK(s) /\ \A v \in Workers : ~ Carries(tx[v], s)
  BY <1>1 DEF IInv, EventInv, EventOK
<1>3. ASSUME NEW st \in {"NEEDS_REVIEW", "UNMAPPED"}, NEW o \in Requests, RequestOK(o),
             o.pc \in {"idle", "scan"},
             \A t : Carries(o, t) => t = s /\ st = "NEEDS_REVIEW",
             tx' = [tx EXCEPT ![w] = o],
             event' = [event EXCEPT ![<<s, "AUTO">>] = st]
      PROVE  IInv'
  <2>1. DayInv' /\ RequestInv' /\ LockInv' /\ ChainInv' /\ FollowInv'
    BY <1>1, <1>3, MovesOn DEF Writer, Refresher
  <2>2. TypeOK'
    BY <1>1, <1>3, TxStep DEF IInv, TypeOK
  <2>3. ASSUME NEW t \in Scans, ~ t.station PROVE EventOK(t)'
    <3>1. EventOK(t)
      BY <2>3 DEF IInv, EventInv
    <3>2. event'[<<t, "AUTO">>] = IF t = s THEN st ELSE event[<<t, "AUTO">>]
      BY <1>1, <1>3
    <3>3. applied[s] = 0
      BY <1>1, <1>2 DEF EventOK
    <3>4. CASE t = s
      <4>1. \A v \in Workers : Carries(tx'[v], t) => v = w /\ st = "NEEDS_REVIEW" /\ tx'[v].pc # "written"
        BY <1>2, <1>3, <3>4, TxStep
      <4> QED BY <1>1, <3>2, <3>3, <3>4, <4>1 DEF EventOK, Carries
    <3>5. CASE t # s
      <4>1. \A v \in Workers : Carries(tx'[v], t) => v # w /\ tx'[v] = tx[v]
        BY <1>3, <3>5, TxStep
      <4>2. /\ applied[t] <= 1
            /\ event'[<<t, "AUTO">>] = "VALIDATED" => applied[t] = 1
            /\ event'[<<t, "AUTO">>] \in {"none", "DUPLICATE", "UNMAPPED"} => applied[t] = 0
            /\ \A v \in Workers : Carries(tx'[v], t) =>
                 /\ event'[<<t, "AUTO">>] = "NEEDS_REVIEW"
                 /\ applied[t] = IF tx'[v].pc = "written" THEN 1 ELSE 0
                 /\ \A u \in Workers : Carries(tx'[u], t) => u = v
        BY <3>1, <3>2, <3>5, <4>1 DEF EventOK
      <4> QED BY <1>1, <4>2 DEF EventOK, Carries
    <3> QED BY <3>4, <3>5
  <2> QED BY <2>1, <2>2, <2>3 DEF IInv, EventInv
<1> DEFINE o == [Free EXCEPT !.pc = "scan", !.scan = s, !.day = s.day]
<1>4. o \in Requests /\ o.pc = "scan" /\ o.scan = s /\ o.day = s.day /\ ~ o.again
  BY <1>1, AbsentRow DEF Free, Requests
<1> HIDE DEF o
<1>5. RequestOK(o) /\ \A t : Carries(o, t) => t = s
  BY <1>1, <1>4 DEF RequestOK, Pushed, Scanning, Reading, Rewriting, Refresher, Carries
<1>6. CASE tx' = [tx EXCEPT ![w] = o] /\ event' = [event EXCEPT ![<<s, "AUTO">>] = "NEEDS_REVIEW"]
  BY <1>3, <1>4, <1>5, <1>6
<1>7. CASE tx' = tx /\ event' = [event EXCEPT ![<<s, "AUTO">>] = "UNMAPPED"]
  <2>1. tx' = [tx EXCEPT ![w] = tx[w]] /\ tx[w] \in Requests /\ RequestOK(tx[w])
    BY <1>7 DEF IInv, TypeOK, RequestInv
  <2>2. \A t : ~ Carries(tx[w], t)
    BY <1>1 DEF Carries
  <2> QED BY <1>1, <1>3, <1>7, <2>1, <2>2
<1> QED BY <1>1, <1>6, <1>7 DEF openEvent, o

LEMMA CheckRecentInv == ASSUME IInv, NEW w \in Workers, checkRecent(w) PROVE IInv'
<1> DEFINE s == tx[w].scan
<1>1. /\ s \in Scans /\ ~ s.station /\ tx[w].pc = "scan" /\ tx[w] \in Requests
      /\ RequestOK(tx[w]) /\ Carries(tx[w], s) /\ Key(s, "AUTO") = <<s, "AUTO">>
      /\ UNCHANGED <<log, sum, changes, judged, decided, applied, torn>>
  BY DEF checkRecent, At, IInv, TypeOK, RequestInv, RequestOK, Pushed, Scanning, Carries, Key
<1>2. CASE Recent(s)
  BY <1>1, <1>2, ClosesEvent DEF checkRecent
<1>3. CASE ~ Recent(s)
  <2> DEFINE o == [tx[w] EXCEPT !.pc = "punch"]
  <2>1. tx' = [tx EXCEPT ![w] = o] /\ event' = event
    BY <1>3 DEF checkRecent
  <2>2. /\ o \in Requests /\ o.pc = "punch" /\ o.day = tx[w].day /\ o.scan = s
        /\ o.again = tx[w].again
    BY <1>1 DEF Requests
  <2> HIDE DEF o
  <2>3. RequestOK(o) /\ ~ Writer(o) /\ ~ Refresher(o) /\ ~ Writer(tx[w]) /\ ~ Refresher(tx[w])
    BY <1>1, <2>2 DEF RequestOK, Pushed, Scanning, Reading, Rewriting, Refresher, Writer
  <2>4. \A t : Carries(o, t) => Carries(tx[w], t)
    BY <1>1, <2>2 DEF Carries
  <2> HIDE DEF s
  <2> QED BY <1>1, <2>1, <2>2, <2>3, <2>4, MovesQuietly
<1> QED BY <1>2, <1>3

LEMMA PunchInv == ASSUME IInv, NEW w \in Workers, punch(w) PROVE IInv'
<1> DEFINE s == tx[w].scan
           slot == Slot(log[s.day], s)
<1>1. /\ s \in Scans /\ s.day \in Days /\ log[s.day] \in Rows /\ s.station
      /\ tx[w].pc = "punch" /\ MayLock(s.day) /\ ~ Writer(tx[w]) /\ ~ Refresher(tx[w])
      /\ UNCHANGED <<log, sum, event, changes, judged, decided, applied, torn>>
  BY ScansAssumption
     DEF punch, At, IInv, RequestInv, RequestOK, Scanning, TypeOK, Writer, Refresher
<1>2. CASE slot # "duplicate"
  <2> DEFINE o == [Free EXCEPT !.pc = "locked", !.op = "scan", !.day = s.day,
                               !.scan = s, !.slot = slot, !.row = Punched(log[s.day], s)]
  <2>1. tx' = [tx EXCEPT ![w] = o]
    BY <1>2 DEF punch, Lock
  <2>2. slot \in {"in", "out"}
    BY <1>2 DEF Slot
  <2>3. Punched(log[s.day], s) \in Rows
    BY <1>1, <2>2, PunchedRow
  <2>4. /\ o \in Requests /\ o.pc = "locked" /\ o.day = s.day /\ o.scan = s
        /\ o.op = "scan" /\ o.slot = slot /\ o.row = Punched(log[s.day], s) /\ ~ o.again
    BY <1>1, <2>2, <2>3, AbsentRow DEF Requests, Free
  <2> HIDE DEF o
  <2>5. Writes(o)
    BY <1>1, <2>2, <2>4 DEF Writes, Punches
  <2>6. RequestOK(o) /\ ~ Writer(o) /\ ~ Refresher(o) /\ \A t : ~ Carries(o, t)
    BY <1>1, <2>4, <2>5 DEF RequestOK, Pushed, Scanning, Reading, Rewriting, Refresher, Writer, Carries
  <2> HIDE DEF s, slot
  <2> QED BY <1>1, <2>1, <2>4, <2>6, MovesQuietly
<1>3. CASE slot = "duplicate"
  <2>1. tx' = [tx EXCEPT ![w] = Free]
    BY <1>3 DEF punch
  <2> HIDE DEF s, slot
  <2> QED BY <1>1, <2>1, MovesQuietly, AbsentRow, FreeRequest
<1> QED BY <1>2, <1>3

LEMMA ReadRowInv == ASSUME IInv, NEW w \in Workers, readRow(w) PROVE IInv'
<1> DEFINE s == tx[w].scan
           slot == Slot(log[s.day], s)
<1>1. /\ s \in Scans /\ s.day \in Days /\ log[s.day] \in Rows /\ ~ s.station
      /\ tx[w].pc = "punch" /\ tx[w].day = s.day /\ Carries(tx[w], s)
      /\ ~ Writer(tx[w]) /\ ~ Refresher(tx[w]) /\ tx[w] \in Requests /\ ~ tx[w].again
      /\ Key(s, "AUTO") = <<s, "AUTO">>
      /\ UNCHANGED <<log, sum, changes, judged, decided, applied, torn>>
  BY ScansAssumption
     DEF readRow, At, IInv, RequestInv, RequestOK, Scanning, Rewriting, TypeOK, Writer, Refresher, Carries, Key
<1>2. CASE slot # "duplicate"
  <2> DEFINE o == [tx[w] EXCEPT !.pc = "read", !.op = "scan", !.slot = slot, !.row = log[s.day]]
  <2>1. tx' = [tx EXCEPT ![w] = o] /\ event' = event
    BY <1>1, <1>2 DEF readRow, IInv, TypeOK, Requests
  <2>2. slot \in {"in", "out"}
    BY <1>2 DEF Slot
  <2>3. /\ o \in Requests /\ o.pc = "read" /\ o.day = s.day /\ o.scan = s
        /\ o.slot = slot /\ o.row = log[s.day] /\ o.again = tx[w].again
    BY <1>1, <2>2 DEF Requests
  <2> HIDE DEF o
  <2>4. RequestOK(o) /\ ~ Writer(o) /\ ~ Refresher(o)
    BY <1>1, <2>2, <2>3 DEF RequestOK, Pushed, Scanning, Reading, Rewriting, Refresher, Writer
  <2>5. \A t : Carries(o, t) => Carries(tx[w], t)
    BY <1>1, <2>3 DEF Carries
  <2> HIDE DEF s, slot
  <2> QED BY <1>1, <2>1, <2>3, <2>4, <2>5, MovesQuietly
<1>3. CASE slot = "duplicate"
  <2>1. /\ tx' = [tx EXCEPT ![w] = Free]
        /\ event' = [event EXCEPT ![<<s, "AUTO">>] = "DUPLICATE"]
    BY <1>1, <1>3 DEF readRow
  <2> QED BY <1>1, <2>1, ClosesEvent
<1> QED BY <1>2, <1>3

(* HR's handlers lock the row of a day and compute another from it.        *)
LEMMA HrLocksInv ==
  ASSUME IInv, NEW w \in Workers, NEW d \in Days, NEW q \in Rows,
         NEW x \in {"hr", "validate", "hours", "review"},
         \A o : o.op = x /\ o.row = q => Decides(o, log[d]),
         HrLocks(w, x, d, q)
  PROVE  IInv'
<1> DEFINE o == [Free EXCEPT !.pc = "locked", !.op = x, !.day = d,
                             !.scan = None, !.slot = None, !.row = q]
<1>1. /\ o \in Requests
      /\ o.pc = "locked" /\ o.op = x /\ o.day = d /\ o.row = q /\ ~ o.again
  BY AbsentRow DEF Requests, Free
<1>2. tx' = [tx EXCEPT ![w] = o]
  BY DEF HrLocks, Lock
<1> HIDE DEF o
<1>3. Decides(o, log[d])
  BY <1>1
<1>4. Writes(o)
  BY <1>1, <1>3 DEF Writes
<1>5. RequestOK(o) /\ ~ Writer(o) /\ ~ Refresher(o) /\ \A t : ~ Carries(o, t)
  BY <1>1, <1>4 DEF RequestOK, Pushed, Scanning, Reading, Rewriting, Refresher, Writer, Carries
<1>6. ~ Writer(tx[w]) /\ ~ Refresher(tx[w]) /\ tx[w].pc # "locked"
  BY DEF HrLocks, At, Writer, Refresher
<1> QED BY <1>1, <1>2, <1>5, <1>6, MovesQuietly DEF HrLocks

LEMMA EnterManuallyInv ==
  ASSUME IInv, NEW w \in Workers, NEW d \in Days,
         NEW in \in Entered \cup {0}, NEW out \in Entered \cup {0}, enterManually(w, d, in, out)
  PROVE  IInv'
<1> DEFINE st == IF in # 0 /\ out # 0 THEN "PENDING_VALIDATION" ELSE "NEEDS_REVIEW"
           q == [Absent EXCEPT !.in = in, !.out = out, !.status = st]
<1>1. st \in {"PENDING_VALIDATION", "NEEDS_REVIEW"} /\ in \in Nat /\ out \in Nat
  BY TimesAssumption
<1>2. HrLocks(w, "hr", d, q)
  BY DEF enterManually
<1> HIDE DEF st
<1>3. q \in Rows /\ q.status = st /\ q.ot = "NONE"
  BY <1>1, AbsentRow DEF Absent, Rows, RowStatuses
<1> HIDE DEF q
<1> QED BY <1>1, <1>2, <1>3, HrLocksInv DEF Decides

LEMMA OverrideInv ==
  ASSUME IInv, NEW w \in Workers, NEW d \in Days,
         NEW in \in Entered \cup {0}, NEW out \in Entered \cup {0}, override(w, d, in, out)
  PROVE  IInv'
<1> DEFINE r == log[d]
           corrected == [r EXCEPT !.in = IF in = 0 THEN @ ELSE in, !.out = IF out = 0 THEN @ ELSE out]
           st == IF Complete(corrected) THEN "CORRECTED_BY_HR" ELSE "NEEDS_REVIEW"
           q == [corrected EXCEPT !.status = st]
<1>1. st \in {"CORRECTED_BY_HR", "NEEDS_REVIEW"} /\ in \in Nat /\ out \in Nat /\ r \in Rows
  BY TimesAssumption DEF IInv, TypeOK
<1>2. HrLocks(w, "hr", d, q)
  BY DEF override
<1> HIDE DEF st, r
<1>3. corrected \in Rows /\ corrected.ot = r.ot
  BY <1>1 DEF Rows
<1> HIDE DEF corrected
<1>4. q \in Rows /\ q.status = st /\ q.ot = r.ot
  BY <1>1, <1>3 DEF Rows, RowStatuses
<1> HIDE DEF q
<1> QED BY <1>1, <1>2, <1>4, HrLocksInv DEF Decides, r

LEMMA VerifyInv ==
  ASSUME IInv, NEW w \in Workers, NEW d \in Days,
         NEW status \in {"PAYROLL_READY", "REJECTED", "NEEDS_REVIEW"}, verify(w, d, status)
  PROVE  IInv'
<1> DEFINE q == [log[d] EXCEPT !.status = status]
           x == IF status = "PAYROLL_READY" THEN "validate" ELSE "hr"
<1>1. log[d] \in Rows
  BY DEF IInv, TypeOK
<1>2. q \in Rows /\ q.status = status /\ q.ot = log[d].ot
  BY <1>1 DEF Rows, RowStatuses
<1>3. x \in {"hr", "validate", "hours", "review"} /\ x \in {"hr", "validate"}
      /\ (x = "hr" => status # "PAYROLL_READY")
  OBVIOUS
<1>4. HrLocks(w, x, d, q)
  BY DEF verify
<1> HIDE DEF q, x
<1> QED BY <1>2, <1>3, <1>4, HrLocksInv DEF Decides

LEMMA EnterOvertimeInv ==
  ASSUME IInv, NEW w \in Workers, NEW d \in Days, NEW hours \in Hours, enterOvertime(w, d, hours)
  PROVE  IInv'
<1> DEFINE new == IF hours = 0 THEN "NONE" ELSE "PENDING"
           q == [log[d] EXCEPT !.hours = hours, !.ot = new]
<1>1. log[d] \in Rows /\ hours \in Nat /\ new \in {"NONE", "PENDING"} /\ log[d].status # "none"
  BY TimesAssumption DEF IInv, TypeOK, enterOvertime, Exists
<1>2. HrLocks(w, "hours", d, q)
  BY DEF enterOvertime
<1> HIDE DEF new
<1>3. /\ q \in Rows /\ q.ot = new
      /\ q.status = log[d].status /\ q.in = log[d].in /\ q.out = log[d].out
  BY <1>1 DEF Rows
<1> HIDE DEF q
<1> QED BY <1>1, <1>2, <1>3, HrLocksInv DEF Decides

LEMMA ReviewOvertimeInv ==
  ASSUME IInv, NEW w \in Workers, NEW d \in Days,
         NEW decision \in {"APPROVED", "REJECTED"}, reviewOvertime(w, d, decision)
  PROVE  IInv'
<1> DEFINE q == [log[d] EXCEPT !.ot = decision]
<1>1. log[d] \in Rows /\ log[d].status # "none"
  BY DEF IInv, TypeOK, reviewOvertime, Exists
<1>2. HrLocks(w, "review", d, q)
  BY DEF reviewOvertime
<1>3. /\ q \in Rows /\ q.ot = decision
      /\ q.status = log[d].status /\ q.in = log[d].in /\ q.out = log[d].out
  BY <1>1 DEF Rows
<1> HIDE DEF q
<1> QED BY <1>1, <1>2, <1>3, HrLocksInv DEF Decides

(* The second refresh of a station reads the row, and nothing depends on it. *)
LEMMA RefreshAgainInv == ASSUME IInv, NEW w \in Workers, refreshAgain(w) PROVE IInv'
<1> DEFINE d == tx[w].day
           o == [tx[w] EXCEPT !.pc = "status", !.again = TRUE, !.row = log[d]]
<1>1. /\ tx[w].pc = "again" /\ tx[w] \in Requests /\ d \in Days /\ log[d] \in Rows
      /\ ~ Writer(tx[w]) /\ ~ Refresher(tx[w])
  BY DEF refreshAgain, At, IInv, TypeOK, RequestInv, RequestOK, Writer, Refresher
<1>2. tx' = [tx EXCEPT ![w] = o]
  BY DEF refreshAgain, IInv, TypeOK, Requests
<1>3. /\ o \in Requests /\ o.pc = "status" /\ o.day = d /\ o.again /\ o.row = log[d]
  BY <1>1 DEF Requests
<1>4. log[d].status = "PAYROLL_READY" => <<log[d].in, log[d].out>> \in judged[d]
  BY <1>1 DEF IInv, DayInv, DayOK
<1> HIDE DEF o, d
<1>5. RequestOK(o) /\ ~ Writer(o) /\ ~ Refresher(o) /\ \A t : ~ Carries(o, t)
  BY <1>1, <1>3, <1>4 DEF RequestOK, Pushed, Scanning, Reading, Rewriting, Refresher, Writer, Carries
<1> QED BY <1>1, <1>2, <1>3, <1>5, MovesQuietly DEF refreshAgain

(* The event of a scan that made its punch is told so.                     *)
LEMMA MarkEventInv == ASSUME IInv, NEW w \in Workers, markEvent(w) PROVE IInv'
<1> DEFINE s == tx[w].scan
           o == [tx[w] EXCEPT !.pc = "marked"]
<1>1. /\ s \in Scans /\ ~ s.station /\ tx[w].pc = "written" /\ tx[w] \in Requests
      /\ RequestOK(tx[w]) /\ Carries(tx[w], s) /\ Key(s, "AUTO") = <<s, "AUTO">>
      /\ UNCHANGED <<log, sum, changes, judged, decided, applied, torn>>
  BY DEF markEvent, At, IInv, TypeOK, RequestInv, RequestOK, Pushed, Scanning, Carries, Key
<1>2. /\ tx' = [tx EXCEPT ![w] = o]
      /\ event' = [event EXCEPT ![<<s, "AUTO">>] = "VALIDATED"]
  BY <1>1 DEF markEvent, IInv, TypeOK, Requests
<1>3. o \in Requests /\ o.pc = "marked" /\ o.day = tx[w].day /\ o.scan = s /\ o.again = tx[w].again
  BY <1>1 DEF Requests
<1> HIDE DEF o
<1>4. RequestOK(o) /\ Writer(o) /\ ~ Refresher(o) /\ Writer(tx[w]) /\ ~ Refresher(tx[w])
      /\ \A t : ~ Carries(o, t)
  BY <1>1, <1>3 DEF RequestOK, Pushed, Scanning, Reading, Rewriting, Refresher, Writer, Carries
<1>5. DayInv' /\ RequestInv' /\ LockInv' /\ ChainInv' /\ FollowInv'
  BY <1>1, <1>2, <1>3, <1>4, MovesOn
<1>6. TypeOK'
  BY <1>1, <1>2, <1>3, TxStep DEF IInv, TypeOK, Slots
<1>7. ASSUME NEW t \in Scans, ~ t.station PROVE EventOK(t)'
  <2>1. EventOK(t) /\ EventOK(s)
    BY <1>1, <1>7 DEF IInv, EventInv
  <2>2. \A v \in Workers : Carries(tx'[v], t) => v # w /\ tx'[v] = tx[v]
    BY <1>2, <1>3, <1>4, TxStep
  <2>3. event'[<<t, "AUTO">>] = IF t = s THEN "VALIDATED" ELSE event[<<t, "AUTO">>]
    BY <1>1, <1>2 DEF IInv, TypeOK, Slots
  <2>4. t = s => applied[t] = 1 /\ \A v \in Workers : ~ Carries(tx'[v], t)
    BY <1>1, <2>1, <2>2 DEF EventOK
  <2>5. /\ applied[t] <= 1
        /\ event'[<<t, "AUTO">>] = "VALIDATED" => applied[t] = 1
        /\ event'[<<t, "AUTO">>] \in {"none", "DUPLICATE", "UNMAPPED"} => applied[t] = 0
        /\ \A v \in Workers : Carries(tx'[v], t) =>
             /\ event'[<<t, "AUTO">>] = "NEEDS_REVIEW"
             /\ applied[t] = IF tx'[v].pc = "written" THEN 1 ELSE 0
             /\ \A u \in Workers : Carries(tx'[u], t) => u = v
    BY <2>1, <2>2, <2>3, <2>4 DEF EventOK
  <2> QED BY <1>1, <2>5 DEF EventOK, Carries
<1> QED BY <1>5, <1>6, <1>7 DEF IInv, EventInv
-----------------------------------------------------------------------------
(* A request that changes its day leaves what the others know of it alone,
   if none of them holds the row and no refresh but its own is in order
   when it decides anything.                                               *)
LEMMA OthersStay ==
  ASSUME IInv, NEW w \in Workers, NEW o \in Requests, o.pc \notin {"locked", "read"},
         Pushed(o) /\ Scanning(o), o.again => o.pc \in {"status", "summary"},
         o.pc # "idle" => o.day \in Days,
         o.pc \in {"status", "summary"} /\ o.row.status = "PAYROLL_READY" =>
           <<o.row.in, o.row.out>> \in judged'[o.day],
         Refresher(o) /\ o.day \notin torn' /\ o.row.ot = "APPROVED" => decided'[o.day] = "APPROVED",
         tx' = [tx EXCEPT ![w] = o], tx[w].day \in Days,
         \A v \in Workers : v # w /\ tx[v].pc = "locked" => tx[v].day # tx[w].day,
         \A c \in Days : /\ c # tx[w].day => log'[c] = log[c]
                         /\ judged[c] \subseteq judged'[c],
         decided' = decided \/ ChainFree,
         torn \subseteq torn'
  PROVE  RequestInv' /\ LockInv'
<1>1. \A v \in Workers : tx'[v] = IF v = w THEN o ELSE tx[v]
  BY TxStep
<1>2. ASSUME NEW v \in Workers, v # w, tx[v].pc = "locked"
      PROVE  Writes(tx[v])' /\ log'[tx[v].day] = log[tx[v].day]
  <2>1. Writes(tx[v]) /\ tx[v].day # tx[w].day /\ tx'[v] = tx[v]
    BY <1>1, <1>2 DEF IInv, RequestInv, RequestOK
  <2>2. log'[tx[v].day] = log[tx[v].day]
    BY <2>1 DEF Writes
  <2> QED BY <2>1, <2>2 DEF Writes
<1>3. ASSUME NEW v \in Workers, v # w PROVE RequestOK(tx[v])'
  <2>1. RequestOK(tx[v]) /\ tx'[v] = tx[v]
    BY <1>1, <1>3 DEF IInv, RequestInv
  <2>2. Rewriting(tx[v])'
    <3>1. Rewriting(tx[v]) /\ (tx[v].pc # "idle" => tx[v].day \in Days)
      BY <2>1 DEF RequestOK
    <3>2. Refresher(tx[v]) => decided' = decided
      BY DEF ChainFree, Refreshing, Refresher
    <3> QED BY <2>1, <3>1, <3>2 DEF Rewriting, Refresher
  <2> QED BY <1>2, <1>3, <2>1, <2>2 DEF RequestOK, Pushed, Scanning, Reading
<1>4. RequestOK(o)'
  BY DEF RequestOK, Pushed, Scanning, Reading, Rewriting, Refresher
<1>5. RequestInv'
  BY <1>1, <1>3, <1>4 DEF RequestInv, RequestOK, Pushed, Scanning, Reading, Rewriting, Refresher, Writes
<1>6. LockInv'
  BY <1>1, <1>2 DEF IInv, LockInv, Exists
<1> QED BY <1>5, <1>6

LEMMA NobodyHolds ==
  ASSUME NEW d, Holders(d) = {} PROVE \A v \in Workers : tx[v].pc = "locked" => tx[v].day # d
  BY DEF Holders, At

(* What the summary of another day follows is as before.                   *)
LEMMA FollowElsewhere ==
  ASSUME IInv, NEW w \in Workers, NEW o \in Requests, tx' = [tx EXCEPT ![w] = o],
         o.day = tx[w].day \/ (~ Writer(o) /\ ~ Refresher(o)),
         torn \subseteq torn',
         NEW d \in Days, d # tx[w].day, log'[d] = log[d], sum'[d] = sum[d],
         d \notin torn', ~ Owed(d)'
  PROVE  Followed(d)'
<1>1. \A v \in Workers : tx'[v] = IF v = w THEN o ELSE tx[v]
  BY TxStep
<1>2. ~ Owed(d)
  BY <1>1 DEF Owed, Writer
<1>3. Followed(d)
  BY <1>2 DEF IInv, FollowInv
<1>4. /\ \A v \in Workers : tx'[v].day = d /\ Refresher(tx'[v]) =>
           Refreshed(tx'[v].row) = Refreshed(log[d])
      /\ (\A v \in Workers : tx'[v].day = d => ~ Refresher(tx'[v])) => sum[d] = Summary(log[d])
  BY <1>1, <1>3 DEF Followed
<1> QED BY <1>4 DEF Followed, Refresher, Refreshed, OvertimeStatus, Detected, Complete, Summary

(* A refresh that is cut short, or a punch without one, tears the day.     *)
LEMMA FailInv == ASSUME IInv, NEW w \in Workers, fail(w) PROVE IInv'
<1>1. /\ tx' = [tx EXCEPT ![w] = Free] /\ tx[w].day \in Days
      /\ UNCHANGED <<log, sum, event, changes, judged, decided, applied>>
  BY DEF fail, At, IInv, RequestInv, RequestOK
<1>2. CASE ~ Behind(w)
  <2>1. ~ Writer(tx[w]) /\ ~ Refresher(tx[w])
    BY <1>2 DEF Behind, Refreshing, Writer, Refresher
  <2>2. torn' = torn
    BY <1>2 DEF fail
  <2> QED BY <1>1, <2>1, <2>2, MovesQuietly, AbsentRow, FreeRequest
<1>3. CASE Behind(w)
  <2>1. torn' = torn \cup {tx[w].day}
    BY <1>3 DEF fail
  <2>2. \A v \in Workers : tx'[v] = IF v = w THEN Free ELSE tx[v]
    BY <1>1, TxStep, AbsentRow
  <2>3. TypeOK'
    BY <1>1, <2>1, TxStep, AbsentRow DEF IInv, TypeOK
  <2>4. DayInv'
    BY <1>1, <2>1 DEF IInv, DayInv, DayOK
  <2>5. RequestInv' /\ LockInv'
    <3>1. tx[w].pc # "locked"
      BY <1>3 DEF Behind, Refreshing
    <3>2. \A v \in Workers : RequestOK(tx'[v])
      BY <2>2, FreeRequest DEF IInv, RequestInv
    <3>3. RequestInv'
      BY <1>1, <2>1, <3>2
         DEF RequestInv, RequestOK, Pushed, Scanning, Reading, Rewriting, Refresher, Writes
    <3>4. LockInv'
      BY <1>1, <2>2, FreeRequest DEF IInv, LockInv, Exists
    <3> QED BY <3>3, <3>4
  <2>6. ChainInv'
    BY <2>2, FreeRequest DEF IInv, ChainInv, Refresher
  <2>7. FollowInv'
    BY <1>1, <2>1, FollowElsewhere, AbsentRow, FreeRequest DEF FollowInv
  <2>8. EventInv'
    BY <1>1, EventsStay, AbsentRow, FreeRequest
  <2> QED BY <2>3, <2>4, <2>5, <2>6, <2>7, <2>8 DEF IInv
<1> QED BY <1>2, <1>3

(* A pushed scan writes the row without holding it, and owes a refresh.    *)
LEMMA WriteRowInv == ASSUME IInv, NEW w \in Workers, writeRow(w) PROVE IInv'
<1> DEFINE d == tx[w].day
           s == tx[w].scan
           r == Punched(tx[w].row, s)
           o == [tx[w] EXCEPT !.pc = "written"]
           q == [log[d] EXCEPT !.in = r.in, !.out = r.out, !.status = r.status]
<1>1. /\ tx[w].pc = "read" /\ s \in Scans /\ ~ s.station /\ d \in Days /\ d = s.day
      /\ tx[w] \in Requests /\ tx[w].row \in Rows /\ log[d] \in Rows
      /\ Slot(tx[w].row, s) \in {"in", "out"} /\ Carries(tx[w], s)
      /\ UNCHANGED <<sum, event, changes, judged, decided, torn>>
  BY DEF writeRow, At, IInv, TypeOK, Requests, RequestInv, RequestOK, Pushed, Scanning, Reading, Carries
<1>2. r \in Rows /\ r.status \in {"PENDING_VALIDATION", "NEEDS_REVIEW"}
  BY <1>1, PunchedRow
<1>3. /\ tx' = [tx EXCEPT ![w] = o]
      /\ applied' = [applied EXCEPT ![s] = @ + 1]
  BY <1>1 DEF writeRow, IInv, TypeOK, Requests
<1>4. log' = [log EXCEPT ![d] = q]
  <2> HIDE DEF r
  <2> QED BY <1>1 DEF writeRow, r, IInv, TypeOK
<1>5. o \in Requests /\ o.pc = "written" /\ o.day = d /\ o.scan = s /\ ~ o.again
  <2>1. ~ tx[w].again
    BY <1>1 DEF IInv, RequestInv, RequestOK, Rewriting
  <2> QED BY <1>1, <2>1 DEF Requests
<1>6. q \in Rows /\ q.status = r.status /\ q.ot = log[d].ot
  <2> HIDE DEF r
  <2> QED BY <1>1, <1>2 DEF Rows
<1>7. \A c \in Days : log'[c] = IF c = d THEN q ELSE log[c]
  BY <1>4 DEF IInv, TypeOK
<1> HIDE DEF o, q, r
<1>8. /\ Writer(o) /\ ~ Refresher(o) /\ \A t : Carries(o, t) => t = s
      /\ ~ Writer(tx[w]) /\ ~ Refresher(tx[w])
  BY <1>1, <1>5 DEF Refresher, Writer, Carries
<1>9. Pushed(o) /\ Scanning(o)
  BY <1>1, <1>5 DEF Pushed, Scanning
<1>10. TypeOK'
  BY <1>1, <1>3, <1>4, <1>5, <1>6, TxStep DEF IInv, TypeOK
<1>11. DayInv'
  <2> SUFFICES ASSUME NEW c \in Days PROVE DayOK(c)'
    BY DEF DayInv
  <2>1. DayOK(c)
    BY DEF IInv, DayInv
  <2>2. c = d => log'[c].status # "PAYROLL_READY" /\ log'[c].ot = log[c].ot
    BY <1>2, <1>6, <1>7
  <2> QED BY <1>1, <1>7, <2>1, <2>2 DEF DayOK, Complete
<1>12. RequestInv' /\ LockInv'
  <2>1. Holders(d) = {}
    BY DEF writeRow
  <2>2. \A v \in Workers : tx[v].pc = "locked" => tx[v].day # d
    BY <2>1, NobodyHolds
  <2> QED BY <1>1, <1>3, <1>5, <1>7, <1>8, <1>9, <2>2, OthersStay
<1>13. ChainInv'
  BY <1>3, <1>5, <1>8, TxStep DEF IInv, ChainInv, Refresher
<1>14. FollowInv'
  <2> SUFFICES ASSUME NEW c \in Days, c \notin torn', ~ Owed(c)' PROVE Followed(c)'
    BY DEF FollowInv
  <2>1. c # d
    BY <1>3, <1>5, <1>8, TxStep DEF Owed, Writer
  <2> QED BY <1>1, <1>3, <1>5, <1>7, <2>1, FollowElsewhere
<1>15. ASSUME NEW t \in Scans, ~ t.station PROVE EventOK(t)'
  <2>1. EventOK(t) /\ EventOK(s)
    BY <1>1, <1>15 DEF IInv, EventInv
  <2>2. \A v \in Workers : Carries(tx'[v], t) => Carries(tx[v], t)
    BY <1>1, <1>3, <1>5, <1>8, TxStep
  <2>3. /\ event[<<s, "AUTO">>] = "NEEDS_REVIEW" /\ applied[s] = 0
        /\ \A v \in Workers : Carries(tx[v], s) => v = w
    BY <1>1, <2>1 DEF EventOK
  <2>4. applied'[t] = IF t = s THEN 1 ELSE applied[t]
    BY <1>1, <1>3, <2>3 DEF IInv, TypeOK
  <2>5. \A v \in Workers : v # w => tx'[v] = tx[v]
    BY <1>3, <1>5, TxStep
  <2>6. tx'[w] = o
    BY <1>3, <1>5, TxStep
  <2>7. CASE t = s
    <3>1. /\ applied'[t] = 1 /\ event[<<t, "AUTO">>] = "NEEDS_REVIEW"
          /\ \A v \in Workers : Carries(tx'[v], t) => v = w /\ tx'[v].pc = "written"
      BY <1>5, <2>2, <2>3, <2>4, <2>6, <2>7
    <3> QED BY <1>1, <3>1 DEF EventOK, Carries
  <2>8. CASE t # s
    <3>1. \A v \in Workers : Carries(tx'[v], t) => v # w /\ tx'[v] = tx[v]
      BY <1>8, <2>5, <2>6, <2>8
    <3>2. /\ applied'[t] <= 1
          /\ event[<<t, "AUTO">>] = "VALIDATED" => applied'[t] = 1
          /\ event[<<t, "AUTO">>] \in {"none", "DUPLICATE", "UNMAPPED"} => applied'[t] = 0
          /\ \A v \in Workers : Carries(tx'[v], t) =>
               /\ event[<<t, "AUTO">>] = "NEEDS_REVIEW"
               /\ applied'[t] = IF tx'[v].pc = "written" THEN 1 ELSE 0
               /\ \A u \in Workers : Carries(tx'[u], t) => u = v
      BY <2>1, <2>4, <2>8, <3>1 DEF EventOK
    <3> QED BY <1>1, <3>2 DEF EventOK, Carries
  <2> QED BY <2>7, <2>8
<1> QED BY <1>10, <1>11, <1>12, <1>13, <1>14, <1>15 DEF IInv, EventInv
-----------------------------------------------------------------------------
(* What is published was computed from the row it replaces, nobody else
   holds that row, and no other refresh is under way.                      *)
LEMMA Publishing ==
  ASSUME IInv, NEW w \in Workers, publish(w)
  PROVE  /\ tx[w] \in Requests /\ tx[w].day \in Days /\ tx[w].row \in Rows
         /\ log[tx[w].day] \in Rows /\ tx[w].pc = "locked" /\ ~ tx[w].again
         /\ Writes(tx[w]) /\ ChainFree
         /\ \A v \in Workers : v # w /\ tx[v].pc = "locked" => tx[v].day # tx[w].day
<1>1. tx[w].pc = "locked" /\ Writes(tx[w]) /\ ~ tx[w].again /\ ChainFree
  BY DEF publish, At, IInv, RequestInv, RequestOK, Rewriting
<1>2. tx[w] \in Requests /\ tx[w].day \in Days /\ tx[w].row \in Rows /\ log[tx[w].day] \in Rows
  BY <1>1 DEF IInv, TypeOK, Requests, Writes
<1>3. ASSUME NEW v \in Workers, v # w, tx[v].pc = "locked", tx[v].day = tx[w].day
      PROVE  FALSE
  <2>1. CASE Exists(log[tx[w].day])
    BY <1>1, <1>3, <2>1 DEF IInv, LockInv
  <2>2. CASE ~ Exists(log[tx[w].day])
    <3>1. Holders(tx[w].day) = {w}
      BY <2>2 DEF publish
    <3> QED BY <1>3, <3>1 DEF Holders, At
  <2> QED BY <2>1, <2>2
<1> QED BY <1>1, <1>2, <1>3

(* What it says of the day it writes.                                      *)
LEMMA WrittenRow ==
  ASSUME IInv, NEW w \in Workers, publish(w)
  PROVE  LET L == log[tx[w].day]  r == tx[w].row  x == tx[w].op IN
         /\ r.status # "none"
         /\ x \in {"scan", "hr"} => r.status # "PAYROLL_READY"
         /\ x \in {"hours", "review"} => r.status = L.status /\ r.in = L.in /\ r.out = L.out
         /\ x \in {"scan", "hr", "validate"} => r.ot \in {"NONE", L.ot}
         /\ x = "hours" => r.ot # "APPROVED"
         /\ x = "review" => r.ot \in {"APPROVED", "REJECTED"}
         /\ x \in {"scan", "hr", "validate", "hours", "review"}
         /\ x = "scan" => L.in \in {0, r.in} /\ L.out <= r.out
<1> DEFINE L == log[tx[w].day]
           r == tx[w].row
           x == tx[w].op
<1>1. Writes(tx[w]) /\ L \in Rows
  BY Publishing
<1>2. CASE x = "scan"
  <2>1. Punches(tx[w], L)
    BY <1>1, <1>2 DEF Writes
  <2> QED BY <1>1, <1>2, <2>1, PunchedRow DEF Punches
<1>3. CASE x # "scan"
  <2>1. Decides(tx[w], L) /\ x \in {"hr", "validate", "hours", "review"}
    BY <1>1, <1>3 DEF Writes
  <2> QED BY <2>1 DEF Decides
<1> QED BY <1>2, <1>3

LEMMA PublishInv == ASSUME IInv, NEW w \in Workers, publish(w) PROVE IInv'
<1> DEFINE d == tx[w].day
           s == tx[w].scan
           r == tx[w].row
           x == tx[w].op
           o == [tx[w] EXCEPT !.pc = "status"]
<1>1. /\ tx[w] \in Requests /\ d \in Days /\ r \in Rows /\ log[d] \in Rows
      /\ tx[w].pc = "locked" /\ ~ tx[w].again /\ Writes(tx[w]) /\ ChainFree
      /\ \A v \in Workers : v # w /\ tx[v].pc = "locked" => tx[v].day # d
  BY Publishing
<1>2. /\ r.status # "none"
      /\ x \in {"scan", "hr"} => r.status # "PAYROLL_READY"
      /\ x \in {"hours", "review"} => r.status = log[d].status /\ r.in = log[d].in /\ r.out = log[d].out
      /\ x \in {"scan", "hr", "validate"} => r.ot \in {"NONE", log[d].ot}
      /\ x = "hours" => r.ot # "APPROVED"
      /\ x = "review" => r.ot \in {"APPROVED", "REJECTED"}
      /\ x \in {"scan", "hr", "validate", "hours", "review"}
  BY WrittenRow
<1>3. tx' = [tx EXCEPT ![w] = o] /\ UNCHANGED <<sum, torn>>
  BY <1>1 DEF publish, IInv, TypeOK, Requests
<1>4. /\ o \in Requests /\ o.pc = "status" /\ o.day = d /\ o.scan = s /\ ~ o.again /\ o.row = r
  BY <1>1 DEF Requests
<1>5. \A c \in Days :
        /\ log'[c] = IF c = d THEN r ELSE log[c]
        /\ judged'[c] = IF c = d /\ x = "validate" THEN judged[c] \cup {<<r.in, r.out>>} ELSE judged[c]
        /\ decided'[c] = IF c = d THEN IF x = "review" THEN r.ot
                                       ELSE IF x = "hours" THEN "none" ELSE decided[c]
                         ELSE decided[c]
        /\ changes'[c] = IF c = d THEN changes[c] + 1 ELSE changes[c]
  BY <1>1 DEF publish, IInv, TypeOK
<1> HIDE DEF o
<1>6. TypeOK'
  <2>1. log' \in [Days -> Rows] /\ tx' \in [Workers -> Requests]
    BY <1>1, <1>3, <1>4, TxStep DEF publish, IInv, TypeOK
  <2>2. judged' \in [Days -> SUBSET (Nat \X Nat)] /\ changes' \in [Days -> Nat]
    BY <1>1 DEF publish, IInv, TypeOK, Rows
  <2>3. decided' \in [Days -> {"none", "APPROVED", "REJECTED"}]
    <3> DEFINE new == IF x = "review" THEN r.ot ELSE IF x = "hours" THEN "none" ELSE decided[d]
    <3>1. new \in {"none", "APPROVED", "REJECTED"}
      BY <1>1, <1>2 DEF IInv, TypeOK
    <3>2. decided' = [decided EXCEPT ![d] = new]
      BY DEF publish
    <3> HIDE DEF new
    <3> QED BY <3>1, <3>2 DEF IInv, TypeOK
  <2>4. /\ event' \in [Scans \X Slots -> {"none", "NEEDS_REVIEW", "DUPLICATE", "UNMAPPED", "VALIDATED"}]
        /\ applied' \in [Scans -> Nat]
    <3>1. CASE x # "scan"
      BY <3>1 DEF publish, IInv, TypeOK
    <3>2. CASE x = "scan"
      <4> DEFINE key == Key(s, tx[w].slot)
      <4>1. s \in Scans
        BY <1>1, <3>2 DEF Writes, Punches
      <4>2. event' = [event EXCEPT ![key] = "VALIDATED"] /\ applied' = [applied EXCEPT ![s] = @ + 1]
        BY <3>2 DEF publish
      <4>3. event \in [Scans \X Slots -> {"none", "NEEDS_REVIEW", "DUPLICATE", "UNMAPPED", "VALIDATED"}]
            /\ applied \in [Scans -> Nat]
        BY DEF IInv, TypeOK
      <4> HIDE DEF key
      <4>4. event' \in [Scans \X Slots -> {"none", "NEEDS_REVIEW", "DUPLICATE", "UNMAPPED", "VALIDATED"}]
        BY <4>2, <4>3
      <4>5. applied' \in [Scans -> Nat]
        <5>1. applied[s] \in Nat
          BY <4>1, <4>3
        <5> QED BY <4>1, <4>2, <4>3, <5>1
      <4> QED BY <4>4, <4>5
    <3> QED BY <3>1, <3>2
  <2> QED BY <1>3, <2>1, <2>2, <2>3, <2>4 DEF IInv, TypeOK
<1>7. ASSUME r.status = "PAYROLL_READY" PROVE <<r.in, r.out>> \in judged'[d]
  <2>1. CASE x = "validate"
    BY <1>1, <1>5, <2>1
  <2>2. CASE x \in {"hours", "review"}
    BY <1>1, <1>2, <1>5, <1>7, <2>2 DEF IInv, DayInv, DayOK
  <2> QED BY <1>2, <1>7, <2>1, <2>2
<1>8. ASSUME d \notin torn, r.ot = "APPROVED" PROVE decided'[d] = "APPROVED"
  <2>1. CASE x \in {"scan", "hr", "validate"}
    BY <1>1, <1>2, <1>5, <1>8, <2>1 DEF IInv, DayInv, DayOK
  <2> QED BY <1>1, <1>2, <1>5, <1>8, <2>1
<1>9. DayInv'
  <2> SUFFICES ASSUME NEW c \in Days PROVE DayOK(c)'
    BY DEF DayInv
  <2>1. DayOK(c)
    BY DEF IInv, DayInv
  <2>2. CASE c = d
    BY <1>1, <1>2, <1>3, <1>5, <1>7, <1>8, <2>1, <2>2 DEF DayOK, Complete
  <2>3. CASE c # d
    BY <1>3, <1>5, <2>1, <2>3 DEF DayOK, Complete
  <2> QED BY <2>2, <2>3
<1>10. RequestInv' /\ LockInv'
  <2>1. Pushed(o) /\ Scanning(o)
    BY <1>4 DEF Pushed, Scanning
  <2>2. \A c \in Days : (c # d => log'[c] = log[c]) /\ judged[c] \subseteq judged'[c]
    BY <1>5
  <2> QED BY <1>1, <1>3, <1>4, <1>7, <1>8, <2>1, <2>2, OthersStay
<1>11. \A v \in Workers : v # w => tx'[v] = tx[v] /\ ~ Refresher(tx[v])
  BY <1>1, <1>3, <1>4, TxStep DEF ChainFree, Refreshing, Refresher
<1>12. ChainInv'
  BY <1>11 DEF ChainInv, Refresher
<1>13. FollowInv'
  <2> SUFFICES ASSUME NEW c \in Days, c \notin torn', ~ Owed(c)' PROVE Followed(c)'
    BY DEF FollowInv
  <2>1. CASE c = d
    <3>1. tx'[w] = o /\ Refresher(o)
      BY <1>3, <1>4, TxStep DEF Refresher
    <3>2. log'[c] = r
      BY <1>5, <2>1
    <3>3. /\ \A v \in Workers : tx'[v].day = c /\ Refresher(tx'[v]) =>
               Refreshed(tx'[v].row) = Refreshed(log'[c])
          /\ ~ \A v \in Workers : tx'[v].day = c => ~ Refresher(tx'[v])
      BY <1>4, <1>11, <2>1, <3>1, <3>2
    <3> QED BY <3>3 DEF Followed, Refresher, Refreshed, OvertimeStatus, Detected, Complete
  <2>2. CASE c # d
    BY <1>3, <1>4, <1>5, <2>2, FollowElsewhere
  <2> QED BY <2>1, <2>2
<1>14. ASSUME NEW t \in Scans, ~ t.station PROVE EventOK(t)'
  <2>1. EventOK(t)
    BY <1>14 DEF IInv, EventInv
  <2>2. event'[<<t, "AUTO">>] = event[<<t, "AUTO">>] /\ applied'[t] = applied[t]
    <3>1. CASE x # "scan"
      BY <3>1 DEF publish
    <3>2. CASE x = "scan"
      <4>1. s \in Scans /\ s.station
        BY <1>1, <3>2 DEF Writes, Punches
      <4>2. s # t /\ Key(s, tx[w].slot) # <<t, "AUTO">>
        BY <1>14, <4>1 DEF Key
      <4> QED BY <3>2, <4>1, <4>2 DEF publish, IInv, TypeOK, Slots
    <3> QED BY <3>1, <3>2
  <2>3. \A v \in Workers : Carries(tx'[v], t) => v # w /\ tx'[v] = tx[v]
    BY <1>3, <1>4, TxStep DEF Carries
  <2>4. /\ applied[t] <= 1
        /\ event[<<t, "AUTO">>] = "VALIDATED" => applied[t] = 1
        /\ event[<<t, "AUTO">>] \in {"none", "DUPLICATE", "UNMAPPED"} => applied[t] = 0
        /\ \A v \in Workers : Carries(tx'[v], t) =>
             /\ event[<<t, "AUTO">>] = "NEEDS_REVIEW"
             /\ applied[t] = IF tx'[v].pc = "written" THEN 1 ELSE 0
             /\ \A u \in Workers : Carries(tx'[u], t) => u = v
    BY <2>1, <2>3 DEF EventOK
  <2> QED BY <2>2, <2>4 DEF EventOK, Carries
<1> QED BY <1>6, <1>9, <1>10, <1>12, <1>13, <1>14 DEF IInv, EventInv

(* A pushed scan joins the chain, and reads the row it is to refresh.      *)
LEMMA ChainEventInv == ASSUME IInv, NEW w \in Workers, chainEvent(w) PROVE IInv'
<1> DEFINE d == tx[w].day
           o == [tx[w] EXCEPT !.pc = "status", !.row = log[d]]
<1>1. /\ tx[w].pc = "marked" /\ ChainFree /\ d \in Days /\ log[d] \in Rows
      /\ tx[w] \in Requests /\ ~ tx[w].again
      /\ UNCHANGED <<log, sum, event, judged, decided, applied, torn>>
  BY DEF chainEvent, At, IInv, TypeOK, RequestInv, RequestOK, Rewriting
<1>2. tx' = [tx EXCEPT ![w] = o] /\ changes' = [changes EXCEPT ![d] = @ + 1]
  BY <1>1 DEF chainEvent, IInv, TypeOK, Requests
<1>3. o \in Requests /\ o.pc = "status" /\ o.day = d /\ ~ o.again /\ o.row = log[d]
  BY <1>1 DEF Requests
<1> HIDE DEF o
<1>4. /\ Pushed(o) /\ Scanning(o) /\ Refresher(o) /\ ~ Writer(o) /\ \A t : ~ Carries(o, t)
      /\ log[d].status = "PAYROLL_READY" => <<log[d].in, log[d].out>> \in judged[d]
      /\ d \notin torn /\ log[d].ot = "APPROVED" => decided[d] = "APPROVED"
  BY <1>1, <1>3 DEF Pushed, Scanning, Refresher, Writer, Carries, IInv, DayInv, DayOK
<1>5. TypeOK' /\ DayInv'
  <2>1. TypeOK'
    BY <1>1, <1>2, <1>3, TxStep DEF IInv, TypeOK
  <2> QED BY <1>1, <2>1 DEF IInv, DayInv, DayOK
<1>6. \A v \in Workers : tx'[v] = IF v = w THEN o ELSE tx[v]
  BY <1>2, <1>3, TxStep
<1>7. RequestInv'
  <2> SUFFICES ASSUME NEW v \in Workers PROVE RequestOK(tx[v])'
    BY DEF RequestInv
  <2>1. CASE v = w
    BY <1>1, <1>3, <1>4, <1>6, <2>1 DEF RequestOK, Pushed, Scanning, Reading, Rewriting, Refresher
  <2>2. CASE v # w
    BY <1>1, <1>6, <2>2
       DEF IInv, RequestInv, RequestOK, Pushed, Scanning, Reading, Rewriting, Refresher, Writes
  <2> QED BY <2>1, <2>2
<1>8. LockInv'
  BY <1>1, <1>3, <1>6 DEF IInv, LockInv, Exists
<1>9. \A v \in Workers : v # w => tx'[v] = tx[v] /\ ~ Refresher(tx[v])
  BY <1>1, <1>6 DEF ChainFree, Refreshing, Refresher
<1>10. ChainInv'
  BY <1>9 DEF ChainInv, Refresher
<1>11. FollowInv'
  <2> SUFFICES ASSUME NEW c \in Days, c \notin torn', ~ Owed(c)' PROVE Followed(c)'
    BY DEF FollowInv
  <2>1. CASE c = d
    <3>1. /\ \A v \in Workers : tx'[v].day = c /\ Refresher(tx'[v]) =>
               Refreshed(tx'[v].row) = Refreshed(log[c])
          /\ ~ \A v \in Workers : tx'[v].day = c => ~ Refresher(tx'[v])
      BY <1>3, <1>4, <1>6, <1>9, <2>1
    <3> QED BY <1>1, <3>1 DEF Followed, Refresher, Refreshed, OvertimeStatus, Detected, Complete
  <2>2. CASE c # d
    BY <1>1, <1>2, <1>3, <2>2, FollowElsewhere
  <2> QED BY <2>1, <2>2
<1>12. EventInv'
  BY <1>1, <1>2, <1>3, <1>4, EventsStay
<1> QED BY <1>5, <1>7, <1>8, <1>10, <1>11, <1>12 DEF IInv

(* The overtime status goes back to a row that nobody holds.               *)
LEMMA RefreshStatusInv == ASSUME IInv, NEW w \in Workers, refreshStatus(w) PROVE IInv'
<1> DEFINE d == tx[w].day
           r == tx[w].row
           q == [log[d] EXCEPT !.ot = OvertimeStatus(r)]
           o == [tx[w] EXCEPT !.pc = "summary"]
<1>1. /\ tx[w].pc = "status" /\ d \in Days /\ log[d] \in Rows /\ r \in Rows
      /\ tx[w] \in Requests /\ RequestOK(tx[w])
      /\ \A v \in Workers : tx[v].pc = "locked" => tx[v].day # d
      /\ UNCHANGED <<sum, event, changes, judged, decided, applied>>
  <2>1. Holders(d) = {}
    BY DEF refreshStatus
  <2> QED BY <2>1, NobodyHolds
       DEF refreshStatus, At, IInv, TypeOK, Requests, RequestInv, RequestOK
<1>2. /\ tx' = [tx EXCEPT ![w] = o] /\ log' = [log EXCEPT ![d] = q]
      /\ torn' = IF tx[w].again /\ Refreshed(log[d]) # Refreshed(r) THEN torn \cup {d} ELSE torn
  <2>1. tx' = [tx EXCEPT ![w] = o]
    BY <1>1 DEF refreshStatus, IInv, TypeOK, Requests
  <2>2. log' = [log EXCEPT ![d] = q]
    <3> HIDE DEF r
    <3> QED BY <1>1 DEF refreshStatus, r, IInv, TypeOK
  <2>3. torn' = IF tx[w].again /\ Refreshed(log[d]) # Refreshed(r) THEN torn \cup {d} ELSE torn
    BY DEF refreshStatus, TornBy, Overtaken
  <2> QED BY <2>1, <2>2, <2>3
<1>3. /\ o \in Requests /\ o.pc = "summary" /\ o.day = d /\ o.row = r /\ o.again = tx[w].again
  BY <1>1 DEF Requests
<1>4. /\ q \in Rows /\ q.status = log[d].status /\ q.in = log[d].in /\ q.out = log[d].out
      /\ q.ot = OvertimeStatus(r)
  BY <1>1, RefreshedRow DEF Rows
<1>5. /\ Refreshed(r) = Refreshed(log[d]) =>
           Refreshed(q) = Refreshed(log[d]) /\ Summary(q) = Summary(log[d])
                          /\ OvertimeStatus(r) = OvertimeStatus(log[d])
  <2>1. Refreshed(r) = Refreshed(log[d]) =>
           Refreshed(q) = Refreshed(log[d]) /\ OvertimeStatus(r) = OvertimeStatus(log[d])
    BY <1>1, SameSummary
  <2>2. Refreshed(q) = Refreshed(log[d]) => Summary(q) = Summary(log[d])
    BY <1>1, <1>4, SameSummary
  <2> QED BY <2>1, <2>2
<1>6. \A c \in Days : log'[c] = IF c = d THEN q ELSE log[c]
  BY <1>2 DEF IInv, TypeOK
<1>7. OvertimeStatus(r) = "APPROVED" => r.ot = "APPROVED"
  BY <1>1, RefreshedRow
<1>8. OvertimeStatus(log[d]) = "APPROVED" => log[d].ot = "APPROVED"
  BY <1>1, RefreshedRow
<1> HIDE DEF q, o
<1>9. \A v \in Workers : tx'[v] = IF v = w THEN o ELSE tx[v]
  BY <1>2, <1>3, TxStep
<1>10. TypeOK'
  <2>1. torn' \in SUBSET Days
    BY <1>1, <1>2 DEF IInv, TypeOK
  <2> QED BY <1>1, <1>2, <1>3, <1>4, <2>1, TxStep DEF IInv, TypeOK
<1>11. DayInv'
  <2> SUFFICES ASSUME NEW c \in Days PROVE DayOK(c)'
    BY DEF DayInv
  <2>1. DayOK(c)
    BY DEF IInv, DayInv
  <2>2. CASE c # d
    BY <1>1, <1>2, <1>6, <2>1, <2>2 DEF DayOK, Complete
  <2>3. CASE c = d
    <3>1. c \notin torn' /\ log'[c].ot = "APPROVED" => decided[c] = "APPROVED"
      <4> SUFFICES ASSUME c \notin torn', OvertimeStatus(r) = "APPROVED" PROVE decided[c] = "APPROVED"
        BY <1>4, <1>6, <2>3
      <4>1. CASE tx[w].again
        <5>1. Refreshed(r) = Refreshed(log[d]) /\ c \notin torn
          BY <1>2, <2>3, <4>1
        <5>2. log[d].ot = "APPROVED"
          BY <1>5, <1>8, <5>1
        <5> QED BY <2>1, <2>3, <5>1, <5>2 DEF DayOK
      <4>2. CASE ~ tx[w].again
        <5>1. Refresher(tx[w]) /\ c \notin torn /\ r.ot = "APPROVED"
          BY <1>1, <1>2, <1>7, <4>2 DEF Refresher
        <5> QED BY <1>1, <2>3, <5>1 DEF RequestOK, Rewriting
      <4> QED BY <4>1, <4>2
    <3> QED BY <1>1, <1>4, <1>6, <2>1, <2>3, <3>1 DEF DayOK, Complete
  <2> QED BY <2>2, <2>3
<1>12. RequestInv' /\ LockInv'
  <2>1. /\ Pushed(o) /\ Scanning(o)
        /\ o.row.status = "PAYROLL_READY" => <<o.row.in, o.row.out>> \in judged[d]
        /\ Refresher(o) /\ d \notin torn' /\ o.row.ot = "APPROVED" => decided[d] = "APPROVED"
    BY <1>1, <1>2, <1>3 DEF Pushed, Scanning, RequestOK, Rewriting, Refresher
  <2>2. torn \subseteq torn'
    BY <1>2
  <2> QED BY <1>1, <1>2, <1>3, <1>6, <2>1, <2>2, OthersStay
<1>13. \A v \in Workers : /\ Refresher(tx'[v]) <=> Refresher(tx[v])
                          /\ tx'[v].row = tx[v].row /\ tx'[v].day = tx[v].day
                          /\ Writer(tx'[v]) <=> Writer(tx[v])
  BY <1>1, <1>3, <1>9 DEF Refresher, Writer
<1>14. ChainInv'
  BY <1>13 DEF IInv, ChainInv, Refresher
<1>15. FollowInv'
  <2> SUFFICES ASSUME NEW c \in Days, c \notin torn', ~ Owed(c)' PROVE Followed(c)'
    BY DEF FollowInv
  <2>1. CASE c # d
    <3>1. torn \subseteq torn'
      BY <1>2
    <3> QED BY <1>1, <1>2, <1>3, <1>6, <2>1, <3>1, FollowElsewhere
  <2>2. CASE c = d
    <3>1. ~ Owed(c) /\ c \notin torn
      BY <1>2, <1>13 DEF Owed, Writer
    <3>2. Followed(c)
      BY <3>1 DEF IInv, FollowInv
    <3>3. Refreshed(r) = Refreshed(log[d])
      <4>1. CASE tx[w].again
        BY <1>2, <2>2, <4>1
      <4>2. CASE ~ tx[w].again
        <5>1. Refresher(tx[w])
          BY <1>1, <4>2 DEF Refresher
        <5> QED BY <2>2, <3>2, <5>1 DEF Followed
      <4> QED BY <4>1, <4>2
    <3>4. /\ \A v \in Workers : tx'[v].day = c /\ Refresher(tx'[v]) =>
               Refreshed(tx'[v].row) = Refreshed(log'[c])
          /\ (\A v \in Workers : tx'[v].day = c => ~ Refresher(tx'[v])) => sum[c] = Summary(log'[c])
      BY <1>5, <1>6, <1>13, <2>2, <3>2, <3>3 DEF Followed
    <3> QED BY <1>1, <3>4 DEF Followed, Refresher, Refreshed, OvertimeStatus, Detected, Complete, Summary
  <2> QED BY <2>1, <2>2
<1>16. EventInv'
  <2>1. \A t : ~ Carries(o, t)
    BY <1>3 DEF Carries
  <2> QED BY <1>1, <1>2, <1>3, <2>1, EventsStay
<1> QED BY <1>10, <1>11, <1>12, <1>14, <1>15, <1>16 DEF IInv

(* The summary is written from the row that was read.                      *)
LEMMA WriteSummaryInv == ASSUME IInv, NEW w \in Workers, writeSummary(w) PROVE IInv'
<1> DEFINE d == tx[w].day
           r == tx[w].row
           o == IF tx[w].op = "scan" /\ tx[w].scan.station /\ ~ tx[w].again
                THEN [tx[w] EXCEPT !.pc = "again"] ELSE Free
<1>1. /\ tx[w].pc = "summary" /\ d \in Days /\ log[d] \in Rows /\ r \in Rows
      /\ tx[w] \in Requests /\ RequestOK(tx[w])
      /\ tx' = [tx EXCEPT ![w] = o] /\ sum' = [sum EXCEPT ![d] = Summary(r)]
      /\ torn' = IF tx[w].again /\ Refreshed(log[d]) # Refreshed(r) THEN torn \cup {d} ELSE torn
      /\ UNCHANGED <<log, event, changes, judged, decided, applied>>
  BY DEF writeSummary, At, TornBy, Overtaken, IInv, TypeOK, Requests, RequestInv, RequestOK
<1>2. /\ o \in Requests /\ o.pc \in {"idle", "again"} /\ ~ o.again
      /\ o.pc # "idle" => o.day = d
  <2>1. CASE o = Free
    BY <2>1, AbsentRow DEF Free
  <2>2. CASE o = [tx[w] EXCEPT !.pc = "again"] /\ ~ tx[w].again
    BY <1>1, <2>2 DEF Requests
  <2> QED BY <2>1, <2>2
<1>3. \A c \in Days : sum'[c] = IF c = d THEN Summary(r) ELSE sum[c]
  BY <1>1 DEF IInv, TypeOK
<1>4. /\ Summary(r) \in [in : Nat, out : Nat, payable : Nat, eligible : BOOLEAN]
      /\ Summary(r).in = r.in /\ Summary(r).out = r.out
      /\ Summary(r).eligible = (r.status = "PAYROLL_READY" /\ Complete(r))
  BY <1>1, RefreshedRow
<1> HIDE DEF o
<1>5. \A v \in Workers : tx'[v] = IF v = w THEN o ELSE tx[v]
  BY <1>1, <1>2, TxStep
<1>6. ~ Refresher(o) /\ ~ Writer(o) /\ (\A t : ~ Carries(o, t)) /\ Pushed(o) /\ Scanning(o)
  BY <1>2 DEF Refresher, Writer, Carries, Pushed, Scanning
<1>7. TypeOK'
  <2>1. torn' \in SUBSET Days
    BY <1>1 DEF IInv, TypeOK
  <2> QED BY <1>1, <1>2, <1>4, <2>1, TxStep DEF IInv, TypeOK
<1>8. DayInv'
  <2> SUFFICES ASSUME NEW c \in Days PROVE DayOK(c)'
    BY DEF DayInv
  <2>1. DayOK(c)
    BY DEF IInv, DayInv
  <2>2. CASE c # d
    BY <1>1, <1>3, <2>1, <2>2 DEF DayOK, Complete
  <2>3. CASE c = d
    <3>1. Summary(r).eligible => Complete(Summary(r)) /\ <<r.in, r.out>> \in judged[d]
      BY <1>1, <1>4 DEF Complete, RequestOK, Rewriting
    <3>2. torn \subseteq torn'
      BY <1>1
    <3> QED BY <1>1, <1>3, <1>4, <2>1, <2>3, <3>1, <3>2 DEF DayOK, Complete
  <2> QED BY <2>2, <2>3
<1>9. RequestInv' /\ LockInv'
  <2> SUFFICES RequestInv' /\ LockInv'
    OBVIOUS
  <2>1. torn \subseteq torn'
    BY <1>1
  <2>2. ASSUME NEW v \in Workers PROVE RequestOK(tx[v])'
    <3>1. CASE v = w
      BY <1>1, <1>2, <1>5, <1>6, <3>1 DEF RequestOK, Pushed, Scanning, Reading, Rewriting, Refresher
    <3>2. CASE v # w
      BY <1>1, <1>5, <2>1, <3>2
         DEF IInv, RequestInv, RequestOK, Pushed, Scanning, Reading, Rewriting, Refresher, Writes
    <3> QED BY <3>1, <3>2
  <2>3. LockInv'
    BY <1>1, <1>2, <1>5 DEF IInv, LockInv, Exists
  <2> QED BY <2>2, <2>3 DEF RequestInv
<1>10. ChainInv'
  BY <1>5, <1>6 DEF IInv, ChainInv, Refresher
<1>11. FollowInv'
  <2> SUFFICES ASSUME NEW c \in Days, c \notin torn', ~ Owed(c)' PROVE Followed(c)'
    BY DEF FollowInv
  <2>1. torn \subseteq torn'
    BY <1>1
  <2>2. CASE c # d
    BY <1>1, <1>2, <1>3, <1>6, <2>1, <2>2, FollowElsewhere
  <2>3. CASE c = d
    <3>1. ~ Owed(c) /\ c \notin torn
      <4>1. \A v \in Workers : Writer(tx[v]) => tx'[v] = tx[v]
        BY <1>1, <1>5 DEF Writer
      <4> QED BY <2>1, <4>1 DEF Owed, Writer
    <3>2. Followed(c)
      BY <3>1 DEF IInv, FollowInv
    <3>3. Refreshed(r) = Refreshed(log[d])
      <4>1. CASE tx[w].again
        BY <1>1, <2>3, <4>1
      <4>2. CASE ~ tx[w].again
        <5>1. Refresher(tx[w])
          BY <1>1, <4>2 DEF Refresher
        <5> QED BY <2>3, <3>2, <5>1 DEF Followed
      <4> QED BY <4>1, <4>2
    <3>4. Summary(r) = Summary(log[d])
      BY <1>1, <3>3, SameSummary
    <3>5. /\ \A v \in Workers : tx'[v].day = c /\ Refresher(tx'[v]) =>
               Refreshed(tx'[v].row) = Refreshed(log[c])
          /\ sum'[c] = Summary(log[c])
      BY <1>3, <1>5, <1>6, <2>3, <3>2, <3>4 DEF Followed
    <3> QED BY <1>1, <3>5 DEF Followed, Refresher, Refreshed, OvertimeStatus, Detected, Complete, Summary
  <2> QED BY <2>2, <2>3
<1>12. EventInv'
  BY <1>1, <1>2, <1>6, EventsStay
<1> QED BY <1>7, <1>8, <1>9, <1>10, <1>11, <1>12 DEF IInv
-----------------------------------------------------------------------------
LEMMA StutterInv == ASSUME IInv, UNCHANGED vars PROVE IInv'
<1>1. TypeOK' /\ DayInv'
  BY DEF vars, IInv, TypeOK, DayInv, DayOK
<1>2. RequestInv'
  BY DEF vars, IInv, RequestInv, RequestOK, Pushed, Scanning, Reading, Rewriting, Refresher, Writes
<1>3. LockInv' /\ ChainInv'
  BY DEF vars, IInv, LockInv, ChainInv, Refresher
<1>4. FollowInv'
  BY DEF vars, IInv, FollowInv, Owed, Writer, Followed, Refresher, Refreshed, OvertimeStatus,
         Detected, Complete, Summary
<1>5. EventInv'
  BY DEF vars, IInv, EventInv, EventOK, Carries
<1> QED BY <1>1, <1>2, <1>3, <1>4, <1>5 DEF IInv

LEMMA StepInv == ASSUME IInv, Next PROVE IInv'
<1> PICK w \in Workers :
      \/ fail(w) \/ checkRecent(w) \/ punch(w) \/ readRow(w) \/ writeRow(w) \/ markEvent(w)
      \/ publish(w) \/ chainEvent(w) \/ refreshStatus(w) \/ writeSummary(w) \/ refreshAgain(w)
      \/ \E s \in Scans : openEvent(w, s) \/ receiveScan(w, s)
      \/ \E d \in Days :
           \/ \E in, out \in Entered \cup {0} : enterManually(w, d, in, out) \/ override(w, d, in, out)
           \/ \E status \in {"PAYROLL_READY", "REJECTED", "NEEDS_REVIEW"} : verify(w, d, status)
           \/ \E hours \in Hours : enterOvertime(w, d, hours)
           \/ \E decision \in {"APPROVED", "REJECTED"} : reviewOvertime(w, d, decision)
  BY DEF Next
<1>1. CASE fail(w) \/ checkRecent(w) \/ punch(w) \/ readRow(w) \/ writeRow(w) \/ markEvent(w)
  BY <1>1, FailInv, CheckRecentInv, PunchInv, ReadRowInv, WriteRowInv, MarkEventInv
<1>2. CASE publish(w) \/ chainEvent(w) \/ refreshStatus(w) \/ writeSummary(w) \/ refreshAgain(w)
  BY <1>2, PublishInv, ChainEventInv, RefreshStatusInv, WriteSummaryInv, RefreshAgainInv
<1>3. CASE \E s \in Scans : openEvent(w, s) \/ receiveScan(w, s)
  BY <1>3, OpenEventInv, ReceiveScanInv
<1>4. ASSUME NEW d \in Days,
             \/ \E in, out \in Entered \cup {0} : enterManually(w, d, in, out) \/ override(w, d, in, out)
             \/ \E status \in {"PAYROLL_READY", "REJECTED", "NEEDS_REVIEW"} : verify(w, d, status)
             \/ \E hours \in Hours : enterOvertime(w, d, hours)
             \/ \E decision \in {"APPROVED", "REJECTED"} : reviewOvertime(w, d, decision)
      PROVE  IInv'
  BY <1>4, EnterManuallyInv, OverrideInv, VerifyInv, EnterOvertimeInv, ReviewOvertimeInv
<1> QED BY <1>1, <1>2, <1>3, <1>4

(* The inductive invariant holds in every state.                           *)
THEOREM Invariance == Spec => []IInv
<1>1. Init => IInv
  BY InitInv
<1>2. IInv /\ [Next]_vars => IInv'
  BY StepInv, StutterInv
<1> QED BY <1>1, <1>2, PTL DEF Spec

(* Every variable has its type, in a system of any size.                   *)
THEOREM TypeCorrect == Spec => []TypeOK
<1>1. IInv => TypeOK
  BY DEF IInv
<1> QED BY <1>1, Invariance, PTL

(* What payroll is shown as eligible is a pair of punches HR validated,
   however many statements of it all failed or overtook each other.        *)
THEOREM OnlyValidatedIsPaid == Spec => []EligibleWasValidated
<1>1. IInv => EligibleWasValidated
  BY DEF IInv, DayInv, DayOK, EligibleWasValidated
<1> QED BY <1>1, Invariance, PTL

LEMMA SettledDay ==
  ASSUME IInv, NEW d \in Days, Settled(d)
  PROVE  d \notin torn /\ sum[d] = Summary(log[d])
<1>1. d \notin torn /\ \A w \in Workers : tx[w].day = d => ~ Writer(tx[w]) /\ ~ Refresher(tx[w])
  BY DEF Settled, Behind, Refreshing, Writer, Refresher
<1>2. ~ Owed(d)
  BY <1>1 DEF Owed
<1>3. Followed(d)
  BY <1>1, <1>2 DEF IInv, FollowInv
<1> QED BY <1>1, <1>3 DEF Followed

(* The lock of the integrity chain is enough to keep the summary of a day
   with its row, although the row is not locked when it is refreshed.      *)
THEOREM SummaryKept == Spec => []SummaryFollowsRow
<1>1. IInv => SummaryFollowsRow
  BY SettledDay DEF SummaryFollowsRow
<1> QED BY <1>1, Invariance, PTL

(* Overtime is payable only while HR's last decision on it is an approval. *)
THEOREM OnlyApprovedIsPayable == Spec => []PayableWasApproved
<1>1. ASSUME IInv, NEW d \in Days, Settled(d), sum[d].payable > 0
      PROVE  decided[d] = "APPROVED"
  <2>1. d \notin torn /\ sum[d] = Summary(log[d]) /\ log[d] \in Rows
    BY <1>1, SettledDay DEF IInv, TypeOK
  <2>2. log[d].ot = "APPROVED"
    BY <1>1, <2>1, RefreshedRow
  <2> QED BY <1>1, <2>1, <2>2 DEF IInv, DayInv, DayOK
<1>2. IInv => PayableWasApproved
  BY <1>1 DEF PayableWasApproved
<1> QED BY <1>2, Invariance, PTL

(* However often a device delivers a scan, it punches once at most, and its
   event says whether it did.                                              *)
THEOREM DeliveredOnce == Spec => []EventTellsPunch
<1>1. IInv => EventTellsPunch
  BY DEF IInv, EventInv, EventOK, EventTellsPunch
<1> QED BY <1>1, Invariance, PTL

LEMMA ScanStep ==
  ASSUME IInv, [Next]_vars, NEW s \in Scans, s.station, applied'[s] # applied[s]
  PROVE  log[s.day].in \in {0, log'[s.day].in} /\ log[s.day].out <= log'[s.day].out
<1>a. /\ \A w \in Workers :
           fail(w) \/ checkRecent(w) \/ punch(w) \/ readRow(w) \/ markEvent(w)
           \/ chainEvent(w) \/ refreshStatus(w) \/ writeSummary(w) \/ refreshAgain(w) => applied' = applied
      /\ \A w \in Workers, t \in Scans :
           openEvent(w, t) \/ receiveScan(w, t) => applied' = applied
      /\ \A w, x, c, row : HrLocks(w, x, c, row) => applied' = applied
  BY DEF fail, checkRecent, punch, readRow, markEvent, chainEvent, refreshStatus, writeSummary,
         refreshAgain, openEvent, receiveScan, HrLocks
<1>b. \A w \in Workers, c \in Days, in, out \in Entered \cup {0} :
         /\ enterManually(w, c, in, out) => applied' = applied
         /\ override(w, c, in, out) => applied' = applied
  BY <1>a, SMT DEF enterManually, override
<1>c. \A w \in Workers, c \in Days :
         /\ \A status \in {"PAYROLL_READY", "REJECTED", "NEEDS_REVIEW"} :
              verify(w, c, status) => applied' = applied
         /\ \A hours \in Hours : enterOvertime(w, c, hours) => applied' = applied
         /\ \A decision \in {"APPROVED", "REJECTED"} :
              reviewOvertime(w, c, decision) => applied' = applied
  BY <1>a DEF verify, enterOvertime, reviewOvertime
<1>d. \A w \in Workers : writeRow(w) => applied'[s] = applied[s]
  <2> SUFFICES ASSUME NEW w \in Workers, writeRow(w) PROVE applied'[s] = applied[s]
    OBVIOUS
  <2>1. tx[w].scan # s /\ tx[w].scan \in Scans
    BY DEF writeRow, At, IInv, RequestInv, RequestOK, Pushed, Scanning
  <2> QED BY <2>1 DEF writeRow, IInv, TypeOK
<1>1. PICK w \in Workers : publish(w)
  BY <1>a, <1>b, <1>c, <1>d DEF Next, vars
<1>2. tx[w].op = "scan" /\ tx[w].scan = s
  BY <1>1 DEF publish, IInv, TypeOK
<1>3. tx[w].day = s.day
  BY <1>1, <1>2, Publishing DEF Writes, Punches
<1>4. log'[s.day] = tx[w].row
  BY <1>1, <1>3, Publishing DEF publish, IInv, TypeOK
<1> QED BY <1>1, <1>2, <1>3, <1>4, WrittenRow

(* A station's scan adds to what is recorded and takes nothing away.       *)
THEOREM ScansAdd == Spec => StationScansAdd
<1>1. IInv /\ [Next]_vars =>
        [\A s \in Scans : s.station /\ applied'[s] # applied[s] =>
           /\ log[s.day].in \in {0, log'[s.day].in}
           /\ log[s.day].out <= log'[s.day].out]_vars
  BY ScanStep
<1> QED BY <1>1, Invariance, PTL DEF Spec, StationScansAdd
=============================================================================
