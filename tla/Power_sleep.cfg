SPECIFICATION FairSpec
CONSTANTS
    t1 = t1
    t2 = t2
    t3 = t3
    s1 = s1
    s2 = s2
    None = None
    Timers <- MCTimers
    Sockets <- MCSockets
    Polls = 1
INVARIANTS TypeOK OwnTimerStopped SoloIsSafe OwnSockets
PROPERTY GoesToSleep
