------------------------------ MODULE Attendance ------------------------------
(***************************************************************************)
(* The attendance of employees, day by day: fingerprint scans that devices *)
(* push and stations send, possibly more than once, and the entries,       *)
(* corrections, validations and overtime decisions of HR.                  *)
(*                                                                         *)
(* A handler means to do all of this in one transaction, but reading the   *)
(* attendance policy of an employee runs a CREATE TABLE on the connection  *)
(* of the caller, and that commits.  So a pushed event is committed before *)
(* the day is read, and all that follows is committed statement by         *)
(* statement, with no row locked; and HR's entries and a station's scans,  *)
(* which do lock the row, publish it before its overtime status and the    *)
(* summary that payroll reads are rewritten from it.  What keeps those     *)
(* rewrites in order is the named lock of the integrity chain, and the     *)
(* second refresh of a station goes without it.  A handler may fail at     *)
(* every step; only what is not yet published is rolled back.              *)
(***************************************************************************)
EXTENDS Naturals, FiniteSets

CONSTANTS
  Days,        \* a day of an employee: a row of attendance_log
  Workers,     \* requests in progress
  Scans,       \* scans: [day, time, type, station]
  Times,       \* times of a day; 0 stands for NULL
  EndOfWork,   \* work_end_time
  Window,      \* duplicate_scan_window_seconds, in units of time
  Entered,     \* the times that HR may enter
  Hours,       \* what HR may enter as overtime_hours, in units of time
  MaxChanges,  \* bound: entries of a day in the integrity chain
  None

ASSUME TimesAssumption ==
  /\ Times \subseteq Nat \ {0} /\ Entered \subseteq Times /\ Hours \subseteq Nat /\ EndOfWork \in Nat /\ Window \in Nat
ASSUME ScansAssumption ==
  /\ Scans \subseteq [day : Days, time : Times, type : {"AUTO", "TIME_IN", "TIME_OUT"}, station : BOOLEAN]
ASSUME WorkersAssumption == None \notin Workers /\ MaxChanges \in Nat

VARIABLES
  log,      \* log[d]: the row of attendance_log, as committed
  sum,      \* sum[d]: the row of attendance_summary
  event,    \* event[s, slot]: the status of the biometric_scan_event with that key
  tx,       \* tx[w]: how far a request has come, and the row it has read or will write
  changes,  \* changes[d]: entries of attendance_integrity_chain
  judged,   \* history: judged[d], the punches of the day that HR has validated
  decided,  \* history: decided[d], HR's decision on the overtime since it was entered
  applied,  \* history: applied[s], how many punches a scan has made
  torn      \* history: days whose refresh was cut short, or overtaken by a station's second one

vars == <<log, sum, event, tx, changes, judged, decided, applied, torn>>

Absent == [in |-> 0, out |-> 0, status |-> "none", hours |-> 0, ot |-> "NONE"]
NoSummary == [in |-> 0, out |-> 0, payable |-> 0, eligible |-> FALSE]
Free == [pc |-> "idle", op |-> None, day |-> None, scan |-> None, slot |-> None,
         row |-> Absent, again |-> FALSE]

Slots == {"AUTO", "in", "out"}

Init ==
  /\ log = [d \in Days |-> Absent] /\ sum = [d \in Days |-> NoSummary]
  /\ event = [k \in Scans \X Slots |-> "none"]
  /\ tx = [w \in Workers |-> Free]
  /\ changes = [d \in Days |-> 0]
  /\ judged = [d \in Days |-> {}] /\ decided = [d \in Days |-> "none"]
  /\ applied = [s \in Scans |-> 0]
  /\ torn = {}

Exists(r) == r.status # "none"
Complete(r) == r.in # 0 /\ r.out # 0

(* --- the policy engine ------------------------------------------------------ *)
\* what is worked past the end of work, or what HR entered, if that is more
Detected(r) ==
  IF ~ Complete(r) THEN 0
  ELSE IF r.out > EndOfWork + r.hours THEN r.out - EndOfWork ELSE r.hours

\* refreshSummary: the overtime status of the row, and the summary of the day
OvertimeStatus(r) ==
  IF Detected(r) = 0 THEN "NONE" ELSE IF r.ot = "NONE" THEN "PENDING" ELSE r.ot
Refreshed(r) == [r EXCEPT !.ot = OvertimeStatus(r)]
Summary(r) ==
  [in |-> r.in, out |-> r.out,
   payable |-> IF OvertimeStatus(r) = "APPROVED" THEN Detected(r) ELSE 0,
   eligible |-> r.status = "PAYROLL_READY" /\ Complete(r)]

\* classifyDtrPunch: the slot a scan fills, or that it is a duplicate
Slot(r, s) ==
  IF s.type # "TIME_OUT" /\ r.in = 0 THEN "in"
  ELSE IF s.type # "TIME_IN" /\ (r.out = 0 \/ s.time > r.out) THEN "out"
  ELSE "duplicate"

PunchedKeeping(r, s) ==             \* mutant: what was validated stays validated
  [r EXCEPT ![Slot(r, s)] = s.time,
            !.status = IF Exists(r) THEN @ ELSE "PENDING_VALIDATION"]

Punched(r, s) ==
  [r EXCEPT ![Slot(r, s)] = s.time,
            !.status = IF ~ Exists(r) /\ Slot(r, s) = "out" THEN "NEEDS_REVIEW" ELSE "PENDING_VALIDATION"]

\* two scans of one device (a station, or one that pushes) within the window
Near(s, t) == /\ s.day = t.day /\ s.station = t.station
              /\ s.time <= t.time + Window /\ t.time <= s.time + Window

(* --- requests ---------------------------------------------------------------- *)
At(w, pc) == tx[w].pc = pc
Holders(d) == {w \in Workers : At(w, "locked") /\ tx[w].day = d}

\* SELECT ... FOR UPDATE: a row is locked for one; the place of a row that does
\* not exist may be locked by several, of which one can insert it in the end
MayLock(d) == Exists(log[d]) => Holders(d) = {}
Lock(w, op, s, d, slot, row) ==
  tx' = [tx EXCEPT ![w] = [Free EXCEPT !.pc = "locked", !.op = op, !.day = d,
                                       !.scan = s, !.slot = slot, !.row = row]]

\* the request that holds GET_LOCK('attendance_integrity_chain'), if any
Refreshing(w) == tx[w].pc \in {"status", "summary"} /\ ~ tx[w].again
ChainIgnored == TRUE                (* mutant: the chain is not locked *)
ChainFree == \A w \in Workers : ~ Refreshing(w)

\* the row of the day is newer than its summary, and this request knows
Behind(w) == tx[w].pc \in {"written", "marked"} \/ Refreshing(w)

\* An error, a timeout or a lost connection: the rollback undoes what only an
\* open transaction holds; what is published stays, refreshed or not.
fail(w) ==
  /\ ~ At(w, "idle")
  /\ torn' = IF Behind(w) THEN torn \cup {tx[w].day} ELSE torn
  /\ tx' = [tx EXCEPT ![w] = Free]
  /\ UNCHANGED <<log, sum, event, changes, judged, decided, applied>>

(* --- scans -------------------------------------------------------------------- *)
\* A device's event carries its own key, a station's names the slot as well.
Key(s, slot) == <<s, IF s.station THEN slot ELSE "AUTO">>
Recent(s) == \E t \in Scans, slot \in Slots :
  event[<<t, slot>>] \in {"DUPLICATE", "VALIDATED"} /\ Near(t, s)

openUnkeyed(w, s) ==                \* mutant: no idempotency key
  /\ At(w, "idle") /\ ~ s.station
  /\ \/ /\ tx' = [tx EXCEPT ![w] = [Free EXCEPT !.pc = "scan", !.scan = s, !.day = s.day]]
        /\ event' = [event EXCEPT ![Key(s, "AUTO")] = "NEEDS_REVIEW"]
     \/ event' = [event EXCEPT ![Key(s, "AUTO")] = "UNMAPPED"] /\ UNCHANGED tx
  /\ UNCHANGED <<log, sum, changes, judged, decided, applied, torn>>

\* ingestBiometricEvent inserts the event first: one whose key is there is
\* ignored.  Without an employee it is committed as it is, otherwise by reading
\* the policy of the employee.
openEvent(w, s) ==
  /\ At(w, "idle") /\ ~ s.station /\ event[Key(s, "AUTO")] = "none"
  /\ \/ /\ tx' = [tx EXCEPT ![w] = [Free EXCEPT !.pc = "scan", !.scan = s, !.day = s.day]]
        /\ event' = [event EXCEPT ![Key(s, "AUTO")] = "NEEDS_REVIEW"]
     \/ event' = [event EXCEPT ![Key(s, "AUTO")] = "UNMAPPED"] /\ UNCHANGED tx
  /\ UNCHANGED <<log, sum, changes, judged, decided, applied, torn>>

\* Scans of the device within the window are looked for: those whose event
\* names the employee by now.
checkRecent(w) ==
  /\ At(w, "scan")
  /\ IF Recent(tx[w].scan)
     THEN /\ event' = [event EXCEPT ![Key(tx[w].scan, "AUTO")] = "DUPLICATE"]
          /\ tx' = [tx EXCEPT ![w] = Free]
     ELSE tx' = [tx EXCEPT ![w].pc = "punch"] /\ UNCHANGED event
  /\ UNCHANGED <<log, sum, changes, judged, decided, applied, torn>>

\* recordBiometricAttendance looks for scans within the window before its
\* transaction begins.
receiveScan(w, s) ==
  /\ At(w, "idle") /\ s.station
  /\ ~ Recent(s)
  /\ tx' = [tx EXCEPT ![w] = [Free EXCEPT !.pc = "punch", !.scan = s, !.day = s.day]]
  /\ UNCHANGED <<log, sum, event, changes, judged, decided, applied, torn>>

punchUnlocked(w) ==                 (* mutant: a station reads the row without FOR UPDATE *)
  LET s == tx[w].scan  r == log[s.day]  slot == Slot(r, s) IN
  /\ At(w, "punch") /\ s.station
  /\ IF slot = "duplicate" THEN tx' = [tx EXCEPT ![w] = Free]
     ELSE Lock(w, "scan", s, s.day, slot, Punched(r, s))
  /\ UNCHANGED <<log, sum, event, changes, judged, decided, applied, torn>>

\* A station locks the row of the day and punches it.
punch(w) ==
  LET s == tx[w].scan  r == log[s.day]  slot == Slot(r, s) IN
  /\ At(w, "punch") /\ s.station /\ MayLock(s.day)
  /\ IF slot = "duplicate" THEN tx' = [tx EXCEPT ![w] = Free]
     ELSE Lock(w, "scan", s, s.day, slot, Punched(r, s))
  /\ UNCHANGED <<log, sum, event, changes, judged, decided, applied, torn>>

\* For a pushed event FOR UPDATE waits for who holds the row, and holds nothing.
readRow(w) ==
  LET s == tx[w].scan  r == log[s.day]  slot == Slot(r, s) IN
  /\ At(w, "punch") /\ ~ s.station /\ MayLock(s.day)
  /\ IF slot = "duplicate"
     THEN /\ event' = [event EXCEPT ![Key(s, "AUTO")] = "DUPLICATE"]
          /\ tx' = [tx EXCEPT ![w] = Free]
     ELSE /\ tx' = [tx EXCEPT ![w].pc = "read", ![w].op = "scan", ![w].slot = slot, ![w].row = r]
          /\ UNCHANGED event
  /\ UNCHANGED <<log, sum, changes, judged, decided, applied, torn>>

\* The times and the status that the scan makes of the row as it was read; an
\* INSERT fails if the row is there by now.
writeRow(w) ==
  LET d == tx[w].day  s == tx[w].scan  r == Punched(tx[w].row, s) IN
  /\ At(w, "read") /\ Holders(d) = {}
  /\ Exists(log[d]) => Exists(tx[w].row)
  /\ log' = [log EXCEPT ![d].in = r.in, ![d].out = r.out, ![d].status = r.status]
  /\ applied' = [applied EXCEPT ![s] = @ + 1]
  /\ tx' = [tx EXCEPT ![w].pc = "written"]
  /\ UNCHANGED <<sum, event, changes, judged, decided, torn>>

markEvent(w) ==
  /\ At(w, "written")
  /\ event' = [event EXCEPT ![Key(tx[w].scan, "AUTO")] = "VALIDATED"]
  /\ tx' = [tx EXCEPT ![w].pc = "marked"]
  /\ UNCHANGED <<log, sum, changes, judged, decided, applied, torn>>

(* --- HR ------------------------------------------------------------------------- *)
HrLocks(w, op, d, row) ==
  /\ At(w, "idle") /\ MayLock(d)
  /\ Lock(w, op, None, d, None, row)
  /\ UNCHANGED <<log, sum, event, changes, judged, decided, applied, torn>>

enterManually(w, d, in, out) ==
  /\ ~ Exists(log[d]) /\ (in # 0 \/ out # 0)
  /\ HrLocks(w, "hr", d,
       [Absent EXCEPT !.in = in, !.out = out,
                      !.status = IF in # 0 /\ out # 0 THEN "PENDING_VALIDATION" ELSE "NEEDS_REVIEW"])

\* times that are not given stay as they are
override(w, d, in, out) ==
  LET r == log[d]
      corrected == [r EXCEPT !.in = IF in = 0 THEN @ ELSE in, !.out = IF out = 0 THEN @ ELSE out]
  IN
  /\ Exists(r)
  /\ HrLocks(w, "hr", d, [corrected EXCEPT !.status =
       IF Complete(corrected) THEN "CORRECTED_BY_HR" ELSE "NEEDS_REVIEW"])

verifyVerbatim(w, d, status) ==     \* mutant: stores the word of the request
  /\ Exists(log[d]) /\ (status = "PAYROLL_READY" => Complete(log[d]))
  /\ HrLocks(w, "validate", d,
             [log[d] EXCEPT !.status = IF status = "PAYROLL_READY" THEN "VALIDATED" ELSE status])

verify(w, d, status) ==
  /\ Exists(log[d]) /\ (status = "PAYROLL_READY" => Complete(log[d]))
  /\ HrLocks(w, IF status = "PAYROLL_READY" THEN "validate" ELSE "hr", d,
             [log[d] EXCEPT !.status = status])

enterDecided(w, d, hours) ==        \* mutant: the decision on other hours stands
  /\ Exists(log[d]) /\ HrLocks(w, "hours", d, [log[d] EXCEPT !.hours = hours])

\* hours that change need a new decision
enterOvertime(w, d, hours) ==
  /\ Exists(log[d])
  /\ HrLocks(w, "hours", d, [log[d] EXCEPT !.hours = hours, !.ot = IF hours = 0 THEN "NONE" ELSE "PENDING"])

reviewOvertime(w, d, decision) ==
  /\ Exists(log[d]) /\ Detected(log[d]) > 0
  /\ HrLocks(w, "review", d, [log[d] EXCEPT !.ot = decision])

(* --- the integrity chain and the summary --------------------------------------- *)
\* appendIntegrityEntry takes the lock of the chain and adds an entry;
\* refreshSummary reads the row, then the policy, and that publishes what the
\* transaction holds: the row, the event of a station, the entry.  A station's
\* event with the key of another one fails instead.
publish(w) ==
  LET d == tx[w].day  r == tx[w].row  s == tx[w].scan  key == Key(s, tx[w].slot) IN
  /\ At(w, "locked") /\ ChainFree /\ changes[d] < MaxChanges
  /\ ~ Exists(log[d]) => Holders(d) = {w}
  /\ IF tx[w].op = "scan"
     THEN /\ event[key] = "none"
          /\ event' = [event EXCEPT ![key] = "VALIDATED"]
          /\ applied' = [applied EXCEPT ![s] = @ + 1]
     ELSE UNCHANGED <<event, applied>>
  /\ log' = [log EXCEPT ![d] = r]
  /\ judged' = IF tx[w].op = "validate" THEN [judged EXCEPT ![d] = @ \cup {<<r.in, r.out>>}] ELSE judged
  /\ decided' = [decided EXCEPT ![d] = IF tx[w].op = "review" THEN r.ot
                                       ELSE IF tx[w].op = "hours" THEN "none" ELSE @]
  /\ changes' = [changes EXCEPT ![d] = @ + 1]
  /\ tx' = [tx EXCEPT ![w].pc = "status"]
  /\ UNCHANGED <<sum, torn>>

\* the same for a pushed event, which is published already; the hash of the
\* entry is written to the row, and waits for who holds it
chainEvent(w) ==
  LET d == tx[w].day IN
  /\ At(w, "marked") /\ ChainFree /\ Holders(d) = {} /\ changes[d] < MaxChanges
  /\ changes' = [changes EXCEPT ![d] = @ + 1]
  /\ tx' = [tx EXCEPT ![w].pc = "status", ![w].row = log[d]]
  /\ UNCHANGED <<log, sum, event, judged, decided, applied, torn>>

\* The row was changed after this request read it, in what the summary is about.
Overtaken(w) == Refreshed(log[tx[w].day]) # Refreshed(tx[w].row)
TornBy(w) == torn' = IF tx[w].again /\ Overtaken(w) THEN torn \cup {tx[w].day} ELSE torn

\* the overtime status goes back to the row, which is no longer locked
refreshStatus(w) ==
  LET d == tx[w].day IN
  /\ At(w, "status") /\ Holders(d) = {}
  /\ log' = [log EXCEPT ![d].ot = OvertimeStatus(tx[w].row)]
  /\ tx' = [tx EXCEPT ![w].pc = "summary"]
  /\ TornBy(w)
  /\ UNCHANGED <<sum, event, changes, judged, decided, applied>>

\* then the summary is written and the chain unlocked; a station goes again
writeSummary(w) ==
  LET d == tx[w].day IN
  /\ At(w, "summary")
  /\ sum' = [sum EXCEPT ![d] = Summary(tx[w].row)]
  /\ tx' = [tx EXCEPT ![w] = IF tx[w].op = "scan" /\ tx[w].scan.station /\ ~ tx[w].again
                             THEN [@ EXCEPT !.pc = "again"] ELSE Free]
  /\ TornBy(w)
  /\ UNCHANGED <<log, event, changes, judged, decided, applied>>

\* the second refreshSummary of recordBiometricAttendance: neither the chain nor
\* the row is locked
refreshAgain(w) ==
  /\ At(w, "again")
  /\ tx' = [tx EXCEPT ![w].pc = "status", ![w].again = TRUE, ![w].row = log[tx[w].day]]
  /\ UNCHANGED <<log, sum, event, changes, judged, decided, applied, torn>>

Next == \E w \in Workers :
  \/ fail(w) \/ checkRecent(w) \/ punch(w) \/ readRow(w) \/ writeRow(w) \/ markEvent(w)
  \/ publish(w) \/ chainEvent(w) \/ refreshStatus(w) \/ writeSummary(w) \/ refreshAgain(w)
  \/ \E s \in Scans : openEvent(w, s) \/ receiveScan(w, s)
  \/ \E d \in Days :
       \/ \E in, out \in Entered \cup {0} : enterManually(w, d, in, out) \/ override(w, d, in, out)
       \/ \E status \in {"PAYROLL_READY", "REJECTED", "NEEDS_REVIEW"} : verify(w, d, status)
       \/ \E hours \in Hours : enterOvertime(w, d, hours)
       \/ \E decision \in {"APPROVED", "REJECTED"} : reviewOvertime(w, d, decision)

Spec == Init /\ [][Next]_vars

(* --- properties -------------------------------------------------------------------- *)
RowStatuses == {"none", "PENDING_VALIDATION", "NEEDS_REVIEW", "PAYROLL_READY", "CORRECTED_BY_HR", "REJECTED"}
Rows == [in : Nat, out : Nat, status : RowStatuses, hours : Nat,
         ot : {"NONE", "PENDING", "APPROVED", "REJECTED"}]
Requests ==
  [pc : {"idle", "scan", "punch", "read", "written", "marked", "locked", "status", "summary", "again"},
   op : {None, "scan", "hr", "validate", "hours", "review"},
   day : Days \cup {None}, scan : Scans \cup {None},
   slot : {None, "in", "out"}, row : Rows, again : BOOLEAN]

\* Every variable has its type.
TypeOK ==
  /\ log \in [Days -> Rows]
  /\ sum \in [Days -> [in : Nat, out : Nat, payable : Nat, eligible : BOOLEAN]]
  /\ event \in [Scans \X Slots -> {"none", "NEEDS_REVIEW", "DUPLICATE", "UNMAPPED", "VALIDATED"}]
  /\ tx \in [Workers -> Requests]
  /\ changes \in [Days -> Nat]
  /\ judged \in [Days -> SUBSET (Nat \X Nat)]
  /\ decided \in [Days -> {"none", "APPROVED", "REJECTED"}]
  /\ applied \in [Scans -> Nat] /\ torn \in SUBSET Days

\* src/README.md: only validated attendance with both a time in and a time out
\* is payroll eligible.  In every state, whatever was cut short or overtaken, the
\* punches that payroll is shown as eligible are a pair that HR has validated.
EligibleWasValidated ==
  \A d \in Days : sum[d].eligible =>
    Complete(sum[d]) /\ <<sum[d].in, sum[d].out>> \in judged[d]

\* The summary is that of the row whenever no request is behind with it, however
\* scans, HR's entries and their refreshes interleave: a scan, a correction or a
\* rejection takes an eligible day back.  The exceptions are the days in torn:
\* a request failed between the row and its summary, or the second refresh of a
\* station wrote what it had read of a row that was changed since.
Settled(d) == d \notin torn /\ \A w \in Workers : tx[w].day = d => ~ Behind(w)
SummaryFollowsRow == \A d \in Days : Settled(d) => sum[d] = Summary(log[d])

\* Overtime is payable on a settled day only while HR's last decision on it
\* stands, whatever is entered, scanned or corrected meanwhile.
PayableWasApproved ==
  \A d \in Days : Settled(d) /\ sum[d].payable > 0 => decided[d] = "APPROVED"

\* The event of a pushed scan tells what became of it: one that is VALIDATED
\* made one punch, one refused or unmapped none, and no redelivery adds any.
\* Only an event that stays in NEEDS_REVIEW leaves it open.
EventTellsPunch ==
  \A s \in Scans : ~ s.station =>
    /\ applied[s] <= 1
    /\ event[<<s, "AUTO">>] = "VALIDATED" => applied[s] = 1
    /\ event[<<s, "AUTO">>] \in {"none", "DUPLICATE", "UNMAPPED"} => applied[s] = 0

\* A station's scan, which does lock the row, never takes away what is recorded:
\* a time in stays, and a time out only gives way to a later one.
StationScansAdd ==
  [][\A s \in Scans : s.station /\ applied'[s] # applied[s] =>
       /\ log[s.day].in \in {0, log'[s.day].in}
       /\ log[s.day].out <= log'[s.day].out]_vars

\* docs/evidence/biometric-production-integration.md: of the scans of a station
\* within the window one is recorded, the others are refused as duplicates.
DuplicateIsRefused ==
  \A s, t \in Scans : s.station /\ Near(s, t) =>
    applied[s] <= 1 /\ (applied[s] = 0 \/ applied[t] = 0 \/ s = t)
=============================================================================
