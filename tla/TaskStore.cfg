CONSTANTS
    t1 = t1
    t2 = t2
    Tasks = {t1, t2}
    NoAnchor = NoAnchor
    NoJournal = NoJournal
    Nobody = Nobody
    MaxCommands = 3
    MaxFaults = 3
SPECIFICATION Spec
INVARIANTS AckedStays FailureLeavesNoTrace HeadIsRecord MarkNamesRecord
SYMMETRY Perms
CHECK_DEADLOCK FALSE
