----------------------------- MODULE MCAttendance -----------------------------
\* Instances of Attendance for TLC.
EXTENDS Attendance, TLC

CONSTANTS d1, w1, w2

Scan(time, type, station) == [day |-> d1, time |-> time, type |-> type, station |-> station]
mcScans == {Scan(1, "AUTO", FALSE), Scan(2, "TIME_OUT", FALSE), Scan(2, "AUTO", TRUE)}
mcStationScans == {Scan(1, "AUTO", TRUE), Scan(2, "AUTO", TRUE)}
mcSymmetry == Permutations({w1, w2})
=============================================================================
