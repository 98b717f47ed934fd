SPECIFICATION Spec
CONSTANTS
  ana = ana
  day = day
  week = week
  month = month
  ben = ben
  None = None
  Employees = {ana}
  Agency = {}
  TimePaid = {ana}
  WorkPaid = {}
  Periods = {month}
  Sources = {day}
  Owners <- MCOwners
  Covers <- MCCovers
  Workers = {w1}
  MaxCalcs = 2

INVARIANT OnePaymentPerPeriod
