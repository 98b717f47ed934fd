SPECIFICATION Spec
CONSTANTS
  None = None
  b1 = b1
  b2 = b2
  f1 = f1
  f2 = f2
  w1 = w1
  w2 = w2
  v0 = v0
  r1 = r1
  r2 = r2
  k1 = k1
  k2 = k2
  payroll = payroll
  Backups = {b1, b2}
  Rds = {b2}
  Versions = {b1}
  Base = v0
  Files = {}
  Carries <- mcNoFiles
  Workers = {w1, w2}
  Restores = {r1, r2}
  Rollbacks = {}
  Modules = {payroll}
  Included <- mcIncluded
  DrillScope = {b1}
  KeepLast = 1
SYMMETRY mcSymmetry
INVARIANTS TypeOK OpenRequestHasBytes NewestBackupKept OneOpenRequest
PROPERTIES KeepsPromise
