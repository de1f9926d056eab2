CONSTANTS
    p1 = p1
    p2 = p2
    p3 = p3
    t1 = t1
    t2 = t2
    Procs = {p1, p2, p3}
    Tasks = {t1, t2}
    NoFile = NoFile
    NoLease = NoLease
    NoChild = NoChild
    Nobody = Nobody
    MaxCommands = 4
    MaxCrashes = 1
SPECIFICATION Spec
INVARIANTS OneHolder NoChildInAudit HandoffAgrees
SYMMETRY Perms
CHECK_DEADLOCK FALSE
