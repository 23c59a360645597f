SPECIFICATION Spec
CONSTANTS
    Project = p1
    Mailboxes = {m1, m2}
    StartStates = {"ready"}
    LiveModes = {TRUE}
    Concurrency = 2
    RetryCount = 1
    Faults = {"cancel", "hold", "cleanup", "panic", "loader", "crash"}
    NoRun = NoRun
    NoJob = NoJob
    NoProject = NoProject
SYMMETRY MailboxSymmetry
INVARIANTS
    TypeOK
    EngineHasRunningChild
    CommitsLastAttempt
    NothingLeftRunning
