SPECIFICATION FairSpec
CONSTANTS
    t1 = t1
    t2 = t2
    server = server
    Threads = {t1, t2}
    Server = server
    Tasks <- ServerSecond
    MaxSend = 3
    MaxFds = 9
    Prompt = TRUE
    SpuriousWakeups = FALSE
    ForkMayFail = FALSE
    FreesOutsideLock = TRUE
    MaxSnapshots = 2
INVARIANTS TypeOK WorldStopped AllStacks
CHECK_DEADLOCK FALSE
