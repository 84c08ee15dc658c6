SPECIFICATION FairSpec
CONSTANTS
    A = A
    B = B
    Codes = {A, B}
    None = None
    Playbooks <- MCPlaybooks
    Streams = {s1, s2}
    Triggers = {api}
    Main = Main
INVARIANTS
    TypeOK
    ReportAccounts
    ExitZeroMeansReported
    BuilderInlinesScripts
    OrderlyShutdown
PROPERTIES
    ServerExits
CHECK_DEADLOCK FALSE
