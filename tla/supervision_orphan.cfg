SPECIFICATION Spec
CONSTANTS
    Pids = {p1, p2}
    MaxStarts = 3
    MaxCrashes = 1
    QueueBound = 2
    NoPid = NoPid
PROPERTY RetryableIsQuiet
