SPECIFICATION FairSpec
CONSTANTS
    t1 = t1
    t2 = t2
    server = server
    Threads = {t1, t2}
    Server = server
    Tasks <- ServerLast
    MaxSend = 2
    MaxFds = 2
    Prompt = FALSE
    SpuriousWakeups = TRUE
    ForkMayFail = TRUE
    FreesOutsideLock = TRUE
    MaxSnapshots = 2
INVARIANTS ContextsParked LedgerQuiet
PROPERTIES ThreadsResume ServerReleases
CHECK_DEADLOCK FALSE
