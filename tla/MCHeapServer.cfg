SPECIFICATION FairSpec
CONSTANTS
    Handlers <- ThreeHandlers
    Clients = {c1, c2}
    NoClient = none
    MaxFd = 4
    MAX_HANDLER_COUNT = 2
    max_owners = 3
    Backlog = 1
    FirstPort = 3
    PortRange = 5
    Ephemeral = {1}
    BusyPorts = {3, 4}
    KernelFails = TRUE
    MaxChanges = 3
INVARIANTS TypeOK NoFdLeak HandlersListen ServedByOwner
PROPERTIES PortsFound ClientsAnswered
CHECK_DEADLOCK FALSE
