CONSTANTS
    a = a
    b = b
    f1 = f1
    f2 = f2
    g1 = g1
    Names = {a, b}
    Targets <- MCTargets
    Contents = {0, 1}
    Foreign = {9}
    MaxCalls = 3
    MaxCrashes = 2
    MaxEdits = 1
SPECIFICATION MCSpec
INVARIANTS JournalTells RestsWhole
PROPERTIES AllOrNothing
CHECK_DEADLOCK FALSE
