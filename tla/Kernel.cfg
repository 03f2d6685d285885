SPECIFICATION FairSpec
CONSTANTS
    MsPerS = 4
    TICKS = 5
    RELOAD_CNT = 3
    CNT_PER_MS = 2
    Timer = {t1, t2}
    NProcs = 2
    a = a
    b = b
    Signal = {a, b}
    Targets <- TargetsOfTimers
    Pairs <- AllPairs
    Delay = {1, 3}
    MaxInterrupts = 4
    MaxCalls = 2
INVARIANTS TypeOK TimeKept NoneOverdue
PROPERTIES ImplementsTimerService TimerFires
