SPECIFICATION Spec
CONSTANTS
    Workers = {w1, w2}
    Assignments = {a1}
    Lease = 3
    RenewEvery = 1
    HttpTimeout = 2
    Grace = 4
    StopTime = 1
    Retries = 0
    MaxToken = 2
    MaxRevision = 2
    MaxLate = 1
    NoWorker = NoWorker
    NoAssignment = NoAssignment
INVARIANTS
    TypeOK
    BelievedLeaseIsHeld
    EngineEndsInGrace
SYMMETRY WorkerSymmetry
PROPERTIES
    ImplementsFencedExecution
