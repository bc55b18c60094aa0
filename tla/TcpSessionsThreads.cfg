SPECIFICATION Spec
CONSTANTS
    Programs = {c1, c2}
    Readers = {c1, c2}
    Serial = FALSE
    MaxSession = 1
    MaxFd = 1
    None = None
SYMMETRY MCSymmetry
INVARIANTS
    TypeOK
CHECK_DEADLOCK FALSE
