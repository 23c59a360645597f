SPECIFICATION Spec
CONSTANTS
    Events = {e1}
    Statuses = {s1}
    Endpoints = {u, v}
    Deliverers = {d1, d2}
    MaxAttempts = 2
    Lease = 2
    PostBudget = 1
    MaxBackoff = 1
    MaxFaults = 2
    None = None
INVARIANTS
    TypeOK
    OnePostAtATime
    StraysOnlyByRotation
    PostsBounded
PROPERTY OutboxDrains
