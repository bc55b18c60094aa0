SPECIFICATION Spec
CONSTANTS
    w1 = w1
    w2 = w2
    w3 = w3
    p1 = p1
    p2 = p2
    p3 = p3
    p4 = p4
    p5 = p5
    Threads <- MCThreads
    PollHandles <- MCPollHandles
    Pollable <- MCPollable
    NoThread = NoThread
    NoPh = NoPh
    Poller = Poller
    MaxHandle = 2
    Serial = FALSE
SYMMETRY MCSymmetry
INVARIANTS
    TypeOK
    NoDanglingOp
    PollHandlesOwned
    NoLostWaiter
PROPERTIES
    NoLeakedEntry
    KeepsContract
CHECK_DEADLOCK FALSE
