CONSTANTS
    Users = {a, b}
    None = None
    MaxMsg = 2
    MaxLines = 4
SPECIFICATION Spec
CHECK_DEADLOCK FALSE
INVARIANTS TypeOK NothingLost InOrder NamesLeft
PROPERTIES EndsOrWaits
