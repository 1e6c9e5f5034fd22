SPECIFICATION Spec
CONSTANTS
    Validator = {1, 2, 3, 4, 5}
    Faulty = {1}
    View = {1, 2}
    Hash = {"a", "b"}
    CorrectBlock <- MCCorrect
    Epoch = {0, 1}
    SetOf <- MCSets
    LedViews = {1}
    Voter = {1, 2}
    Foreign <- MCForeign
    Signers = {{1, 2, 3}, {2, 3, 4}, {3, 4, 5}}
    MaxCommits = 2
    MaxCrashes = 1
INVARIANTS
    TypeOK
    NoFalseAccusation
    OffenceIsKept
    ReportedIsDone
    SignersAreOnline
CHECK_DEADLOCK FALSE
