CONSTANTS
    t1 = t1
    t2 = t2
    Tasks = {t1, t2}
    NoAnchor = NoAnchor
    NoJournal = NoJournal
    Nobody = Nobody
    MaxCommands = 4
    MaxFaults = 2
SPECIFICATION Spec
INVARIANT RecoversCoherently
SYMMETRY Perms
CHECK_DEADLOCK FALSE
