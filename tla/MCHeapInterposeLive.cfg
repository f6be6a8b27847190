SPECIFICATION FairSpec
CONSTANTS
    Threads = {t1, t2}
    Server = server
    None = none
    Addr = {a1}
    Page = {p1}
    Sizes = {5}
    PageSize = 16
    Ops <- MixedOps
    NestPcs <- AnyLibcPcs
    LibcLocks = TRUE
    MemalignFails = FALSE
    ReallocZeroFrees = FALSE
    EarlyThreads = FALSE
    MaxCalls = 2
    MaxNests = 2
    MaxWalks = 1
PROPERTIES CallsReturn WalksFinish
CHECK_DEADLOCK FALSE
