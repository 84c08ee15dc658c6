SPECIFICATION QuietFairSpec
CONSTANTS
    None = None
    CustomEndpoint = CustomEndpoint
    Runs = {r1, r2}
    Playbooks = {local, remote}
    Invalid = {}
    Elevated = {local}
    HasEndpoint = {remote}
    SelectsHttps = {remote}
    FolderLocked = TRUE
    Loaders = {l1}
    Cancellers = {c1}
    Submitters = {s1}
INVARIANTS
    OneActivity
    SubmittedMeansDelivered
    CompletedReportIsServed
    ReportGoesHome
PROPERTIES
    CancellationEnds
