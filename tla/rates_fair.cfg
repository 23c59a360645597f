SPECIFICATION Spec
CONSTANTS
    a1 = a1
    a2 = a2
    a3 = a3
    a4 = a4
    a5 = a5
    b1 = b1
    Tasks = {a1, a2, a3, a4, a5, b1}
    SourceOrder <- SixMailboxes
    Lineage <- OneProvider
    DomainCeiling <- Unlimited
    Concurrency = 1
    VerificationWorkers = 1
    Verifies = {a1, a2, a3, a4, a5, b1}
    RetryCount = 0
    BaseDelay = 1
    MaxCooldown = 2
    MaxStrikes = 1
    MaxFaults = 0
    MaxOvertaken = 4
    Resumed = {}
    Faults = {}
INVARIANT TenantsTakeTurns
CHECK_DEADLOCK FALSE
