SPECIFICATION Spec
CONSTANTS
    Streams = {c1}
    Activities = {a1}
    Timers = {t1, t2}
    NoTimer = NoTimer
    AutoShutdown = TRUE
PROPERTY ConnectCancelsCountdown
