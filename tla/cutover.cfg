SPECIFICATION FairSpec
CONSTANTS
    Mailboxes = {m1, m2}
    Window = 1
INVARIANTS
    TypeOK
    ReadyMeansProven
    CompletedIsProven
PROPERTY CutoverCompletes
CHECK_DEADLOCK FALSE
