SPECIFICATION FairSpec
CONSTANTS
  Payrolls = {p1}
  Workers = {w1}
  TxIds = {t1}
  NoTx = NoTx
  MaxEdits = 0
  MaxApprovals = 1
PROPERTY EventuallyOnLedger
