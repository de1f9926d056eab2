CONSTANTS
    None = None
    Profiles <- MCProfiles
    Uses <- MCUses
    MaxEpoch = 2
    MaxEdits = 1
    MaxCycles = 1
    MaxEvidence = 2
    MaxDrafts = 1
SPECIFICATION Spec
INVARIANTS FinalizedIsProven StaleReceiptsNeverBlock ProofsAreCurrent
PROPERTIES CyclesOnlyGrow
CHECK_DEADLOCK FALSE
