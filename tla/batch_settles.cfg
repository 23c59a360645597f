SPECIFICATION Spec
CONSTANTS
    Project = p1
    Mailboxes = {m1, m2}
    StartStates = {"ready", "delta_required"}
    LiveModes = {TRUE, FALSE}
    Concurrency = 1
    RetryCount = 1
    Faults = {"cancel", "ack"}
    NoRun = NoRun
    NoJob = NoJob
    NoProject = NoProject
PROPERTIES
    BatchSettles
