SPECIFICATION Spec
CONSTANTS
  Cycles = {c1, c2}
  Handlers = {h1, h2}
  Manuals = {}
  MaxTime = 1
  FirstRun = 1
  Corruptible = {1}
  None = None
SYMMETRY Symmetry
INVARIANTS
  TypeOK
  ClaimedOccurrenceHasSet
  RowNamesStoredArtifact
  RunningIsRecoverable
PROPERTY OnlyVerdictsLeaveLifecycle
