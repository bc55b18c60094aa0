SPECIFICATION Spec
CONSTANTS
    Programs = {c1, c2}
    Readers = {c1, c2}
    Serial = TRUE
    MaxSession = 1
    MaxFd = 3
    None = None
SYMMETRY MCSymmetry
INVARIANTS
    DataOfSession
CHECK_DEADLOCK FALSE
