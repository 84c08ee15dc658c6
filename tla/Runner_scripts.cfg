SPECIFICATION Spec
CONSTANTS
    A = A
    B = B
    Codes = {A, B}
    None = None
    Playbooks <- MCPlaybooks
    Streams = {s1, s2}
    Triggers = {api}
    Main = Main
INVARIANT NoScriptsRun
CHECK_DEADLOCK FALSE
