SPECIFICATION Spec
CONSTANTS
    Numbers = {"0", "1"}
    Starred = {"star"}
    Loadable = {"mod_net_eth", "mod_other"}
    MaxTypes = 22
    SessionNames <- MCSessions
    Interfaces = {"if1"}
    HostPorts = {"peer", "star"}
    Workloads <- MCWorkloads
INVARIANTS
    TypeOK
    TcpServed
    SocketsMatchEntries
PROPERTIES
    AllOrNothing
    DefaultsComeLast
CHECK_DEADLOCK FALSE
