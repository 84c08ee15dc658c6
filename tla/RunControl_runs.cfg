SPECIFICATION Spec
CONSTANTS
    None = None
    CustomEndpoint = CustomEndpoint
    Runs = {r1, r2}
    Playbooks = {remote, bad}
    Invalid = {bad}
    Elevated = {remote}
    HasEndpoint = {}
    SelectsHttps = {remote}
    FolderLocked = TRUE
    Loaders = {l1}
    Cancellers = {c1}
    Submitters = {s1}
SYMMETRY RunSymmetry
VIEW WithoutHistory
INVARIANTS
    TypeOK
    ActiveStatusHasRun
    CancelReachesRun
    WorkersReleased
    NoPartialReportReleased
    OnlyValidPlaybooksRun
PROPERTY ImplementsReportRelease
