SPECIFICATION FairSpec
CONSTANTS
    Programs = {c1, c2}
    Clients = {"peer"}
    Servers = {"star"}
    Packets = {"eth0"}
    MaxAddresses = 2
    MaxFd = 4
    MaxPending = 1
    None = None
INVARIANTS
    TypeOK
    OwnSocket
    NothingElseOpen
PROPERTIES
    EveryCallEnds
CHECK_DEADLOCK FALSE
