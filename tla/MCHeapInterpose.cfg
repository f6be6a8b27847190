SPECIFICATION Spec
CONSTANTS
    Threads = {t1, t2}
    Server = server
    None = none
    Addr = {a1, a2}
    Page = {p1}
    Sizes = {5}
    PageSize = 16
    Ops <- AllOps
    NestPcs <- AnyLibcPcs
    LibcLocks = FALSE
    MemalignFails = FALSE
    ReallocZeroFrees = FALSE
    EarlyThreads = FALSE
    MaxCalls = 2
    MaxNests = 2
    MaxWalks = 1
SYMMETRY Symmetry
INVARIANTS TypeOK LockInv LedgerSound LedgerComplete LibcUnrecorded SentIsRecorded
PROPERTIES LedgerSpecHolds
CHECK_DEADLOCK FALSE
