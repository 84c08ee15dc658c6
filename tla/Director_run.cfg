SPECIFICATION FairSpec
CONSTANTS
    Playbook <- SmallPlaybook
    Unset = Unset
    NoAssertion = NoAssertion
INVARIANTS
    TypeOK
    TraceComplete
    SnapshotAgrees
    OutcomeIsSound
    TaintIsLast
    TotalsAddUp
PROPERTIES
    ImplementsDirectedRun
    CancellationEndsRun
