SPECIFICATION FairSpec
CONSTANTS
  Cycles = {c1}
  Handlers = {h1}
  Manuals = {m1}
  MaxTime = 1
  FirstRun = 1
  Corruptible = {}
  None = None
PROPERTY DueOccurrenceIsAttempted
