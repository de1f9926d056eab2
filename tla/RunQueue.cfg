SPECIFICATION Spec
CONSTANTS
  Tasklets = {t1, t2, t3, t4}
  Main = main
  Null = null
  SelfRemove = FALSE
INVARIANTS QueueOK
PROPERTIES OrderKept
