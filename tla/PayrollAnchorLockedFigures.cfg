SPECIFICATION Spec
CONSTANTS
  Payrolls = {p1}
  Workers = {w1, w2}
  TxIds = {t1, t2}
  NoTx = NoTx
  MaxEdits = 1
  MaxApprovals = 1
PROPERTY LockedFiguresFrozen
