SPECIFICATION FairSpec
CONSTANTS
    Requests = {q1, q2}
    Shutdown = Shutdown
    Nothing = Nothing
    Failure = Failure
INVARIANTS
    TypeOK
    MismatchMeansRace
PROPERTIES
    ImplementsRemoteExecution
    CallsReturn
    WorkerEnds
CHECK_DEADLOCK FALSE
