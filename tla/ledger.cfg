SPECIFICATION Spec
CONSTANTS
    p1 = p1
    m1 = m1
    m2 = m2
    Projects = {p1}
    Mailboxes = {m1, m2}
    RunIds = {r1, r2, r3}
    ProjectOf <- OneProject
    Identity <- DistinctAccounts
    Account <- SameAccount
    SharedPlan = {}
    NoRun = NoRun
    NoJob = NoJob
    NoProject = NoProject
SYMMETRY RunSymmetry
INVARIANTS
    TypeOK
    OneOwner
    NoOrphanChild
    VerifiedIsProven
    CompleteIsVerified
    ProcessHasOwner
    DestinationExclusive
PROPERTY TerminalIsFinal
