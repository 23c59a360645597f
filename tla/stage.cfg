SPECIFICATION Spec
CONSTANTS
    NumFolders = 2
    InitialCounts <- MCInitialCounts
    Plans = {meta, bodies}
    BodyPlans = {bodies}
    MaxUid = 2
    PageSize = 1
    StabilityAttempts = 2
    MaxReconnects = 1
    MaxAttempts = 2
    MaxChanges = 2
    NoPlan = NoPlan
    NoCursor = NoCursor
INVARIANTS
    TypeOK
    EvidenceWasHeld
PROPERTIES
    CompletesTruthfully
    AttemptEnds
