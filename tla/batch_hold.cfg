SPECIFICATION Spec
CONSTANTS
    Project = p1
    Mailboxes = {m1, m2}
    StartStates = {"ready"}
    LiveModes = {TRUE}
    Concurrency = 1
    RetryCount = 0
    Faults = {"hold"}
    NoRun = NoRun
    NoJob = NoJob
    NoProject = NoProject
PROPERTIES
    BatchSettles
