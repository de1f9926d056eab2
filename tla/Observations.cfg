SPECIFICATION Spec
CONSTANTS
  laws = laws
  tests = tests
  a = a
  broken = broken
  external = external
  summary = summary
  r1 = r1
  r2 = r2
  Files = {laws, tests}
  Contents = {a, broken, missing}
  Missing = missing
  MaxEdits = 2
  Definition = laws
  Test = tests
  LawsIn <- SmallLaws
  Good = {a}
  Recorders = {r1, r2}
  Records <- OneKeyEach
  Path = laws
  Dependency = tests
  External = external
  Summary = summary
  None = none
  Tries = 2
INVARIANTS NoSilentChange PassIsEarned FreshWasCurrent
PROPERTIES NoEntryLost
CHECK_DEADLOCK FALSE
