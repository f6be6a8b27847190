SPECIFICATION Spec
CONSTANTS
    Threads = {t1, t2}
    Server = server
    None = none
    Addr = {a1, a2}
    Page = {p1}
    Sizes = {5}
    PageSize = 16
    Ops <- AllOps
    NestPcs <- AnyLibcPcs
    LibcLocks = FALSE
    MemalignFails = TRUE
    ReallocZeroFrees = FALSE
    EarlyThreads = FALSE
    MaxCalls = 2
    MaxNests = 0
    MaxWalks = 1
INVARIANT LedgerComplete
CHECK_DEADLOCK FALSE
