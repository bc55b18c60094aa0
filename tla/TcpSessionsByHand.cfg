SPECIFICATION Spec
CONSTANTS
    Programs = {c1, c2}
    Readers = {}
    Serial = TRUE
    MaxSession = 1
    MaxFd = 3
    None = None
SYMMETRY MCSymmetry
PROPERTIES
    AcceptedInNewSession
CHECK_DEADLOCK FALSE
