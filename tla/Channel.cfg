SPECIFICATION Spec
CONSTANTS
  Blockers = {t1, t2, t3, t4}
  Channels = {c1, c2}
  Null = null
INVARIANTS ListsOK
PROPERTIES FirstComeFirstServed
SYMMETRY Alike
