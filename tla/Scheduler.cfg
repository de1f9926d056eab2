SPECIFICATION FairSpec
CONSTANTS
  t1 = t1
  t2 = t2
  t3 = t3
  c1 = c1
  c2 = c2
  Tasklets = {t1, t2, t3}
  Main = main
  Null = null
  Channels = {c1, c2}
  Programs <- AllPrograms
  Limited = {1, 2}
INVARIANTS QueueWellFormed BlockedIsListed NoneLost WokenByTransfer UnfinishedIsAlive LimitHonoured
PROPERTIES NoTransferOverwrite ControlReturns
