SPECIFICATION Spec
CONSTANTS
    Handles = {"h1", "h2"}
    Bytes = {0, 1}
    MaxSize = 2
    Modes = {"rw", "r"}
    Owners = {"root", "user"}
    Names <- MCNames
INVARIANTS
    TypeOK
    WholeName
PROPERTIES
    KeepsContents
CHECK_DEADLOCK FALSE
