SPECIFICATION Spec
CONSTANTS
    a1 = a1
    a2 = a2
    a3 = a3
    a4 = a4
    a5 = a5
    b1 = b1
    Tasks = {a1, a2, b1}
    SourceOrder <- ThreeMailboxes
    Lineage <- TwoProviders
    DomainCeiling <- LimitedProvider
    Concurrency = 2
    VerificationWorkers = 1
    Verifies = {a1, a2}
    RetryCount = 1
    BaseDelay = 1
    MaxCooldown = 2
    MaxStrikes = 1
    MaxFaults = 2
    MaxOvertaken = 0
    Resumed = {b1}
    Faults = {"throttle", "transient", "panic", "cancel"}
INVARIANTS
    TypeOK
    CeilingHeld
    NeverUnschedulable
    NoLostWakeup
PROPERTY ScheduleCompletes
CHECK_DEADLOCK FALSE
