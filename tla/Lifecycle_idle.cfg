SPECIFICATION FairSpec
CONSTANTS
    Streams = {c1, c2}
    Activities = {a1, a2}
    Timers = {t1, t2, t3}
    NoTimer = NoTimer
    AutoShutdown = TRUE
INVARIANTS
    TypeOK
    CountdownNotLost
PROPERTY UnusedServerShutsDown
