SPECIFICATION Spec
CONSTANTS
  Requests = {r1, r2}
  Legacy = {r1}
  Employees = {ann}
  Payroll = {ann, bob}
  Hr = {hal}
  Nobody = Nobody
  Handlers = {h1, h2}
  LastDay = 2
  MaxTotal = 2
  AnnualLimit = 1
SYMMETRY Symmetry
INVARIANTS
  TypeOK
  ApprovedByFourEyes
  NeverOverdrawn
  EveryApprovalCharged
PROPERTIES
  DecisionsFollowWorkflow
  DecisionsAreAtomic
