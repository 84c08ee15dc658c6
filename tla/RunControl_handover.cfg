SPECIFICATION QuietSpec
CONSTANTS
    None = None
    CustomEndpoint = CustomEndpoint
    Runs = {r1, r2}
    Playbooks = {remote, bad}
    Invalid = {bad}
    Elevated = {remote}
    HasEndpoint = {remote}
    SelectsHttps = {remote}
    FolderLocked = TRUE
    Loaders = {l1}
    Cancellers = {c1}
    Submitters = {}
INVARIANT ElevatedCommandsHaveWorker
