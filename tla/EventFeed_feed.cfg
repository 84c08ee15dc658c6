SPECIFICATION Spec
CONSTANTS
    MaxRuns = 2
    Assertions = 1
    Outcomes = {"passed"}
    Cancellable = {2}
    MaxStreams = 2
    Capacity = 2
INVARIANTS
    TypeOK
    StreamInOrder
    FinalStateIsLast
    VerdictsAreTheRuns
    NothingSkipped
PROPERTIES
    VerdictKept
CHECK_DEADLOCK FALSE
