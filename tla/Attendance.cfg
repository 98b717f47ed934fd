SPECIFICATION Spec
CONSTANTS
  None = None
  d1 = d1
  w1 = w1
  w2 = w2
  Days = {d1}
  Workers = {w1, w2}
  Scans <- mcScans
  Times = {1, 2}
  Entered = {2}
  EndOfWork = 1
  Window = 1
  Hours = {0, 1}
  MaxChanges = 3
SYMMETRY mcSymmetry
INVARIANTS TypeOK EligibleWasValidated SummaryFollowsRow PayableWasApproved EventTellsPunch
PROPERTIES StationScansAdd
