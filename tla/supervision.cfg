SPECIFICATION Spec
CONSTANTS
    Pids = {p1, p2}
    MaxStarts = 4
    MaxCrashes = 2
    QueueBound = 2
    NoPid = NoPid
INVARIANTS
    TypeOK
    EngineOnRecord
    ForeignUntouched
    RecordHasRun
PROPERTY CancelEndsGroup
