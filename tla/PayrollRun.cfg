SPECIFICATION Spec
CONSTANTS
  ana = ana
  day = day
  week = week
  month = month
  ben = ben
  None = None
  Employees = {ana}
  Agency = {}
  TimePaid = {ana}
  WorkPaid = {ana}
  Periods = {month}
  Sources = {day}
  Owners <- MCOwners
  Covers <- MCCovers
  Workers = {w1, w2}
  MaxCalcs = 2
SYMMETRY Symmetry
INVARIANTS TypeOK AllOrNothing MarkedIsListed PayslipNotAhead
