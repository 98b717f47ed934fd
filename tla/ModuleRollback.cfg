SPECIFICATION Spec
CONSTANTS
  None = None
  b1 = b1
  b2 = b2
  f1 = f1
  f2 = f2
  w1 = w1
  w2 = w2
  v0 = v0
  r1 = r1
  r2 = r2
  k1 = k1
  k2 = k2
  payroll = payroll
  Backups = {b1, b2}
  Rds = {}
  Versions = {b1, b2}
  Base = v0
  Files = {f1, f2}
  Carries <- mcCarries
  Workers = {w1, w2}
  Restores = {}
  Modules = {}
  Included <- mcIncluded
  Rollbacks = {k1, k2}
  DrillScope = {}
  KeepLast = 1
SYMMETRY mcSymmetry
INVARIANTS ModuleIsWhole
PROPERTIES CutoverIsAtomic
