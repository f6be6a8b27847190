SPECIFICATION Spec
CONSTANTS
    Threads = {t1, t2}
    Server = server
    None = none
    Addr = {a1, a2}
    Page = {p1}
    Sizes = {5}
    PageSize = 16
    Ops <- HeapOps
    NestPcs <- AnyLibcPcs
    LibcLocks = FALSE
    MemalignFails = FALSE
    ReallocZeroFrees = TRUE
    EarlyThreads = FALSE
    MaxCalls = 2
    MaxNests = 0
    MaxWalks = 1
INVARIANT SentIsAllocated
CHECK_DEADLOCK FALSE
