SPECIFICATION FilesSpec
CONSTANTS
    w1 = w1
    w2 = w2
    w3 = w3
    o1 = o1
    o2 = o2
    o3 = o3
    f1 = f1
    f2 = f2
    Workers <- MCWorkers
    Objects <- MCObjects
    Files <- MCFiles
    Main = Main
    Libraries = {"mod_dummy", "mod_net_eth"}
    None = None
    Gone = Gone
SYMMETRY MCSymmetry
INVARIANTS
    FilesTypeOK
    CallsMapped
    MappedForAReason
    OperationsMapped
CHECK_DEADLOCK FALSE
