CONSTANTS
    Clients = {a, b, c}
    None = None
    MaxClients = 3
    MaxEvents = 2
    Cap = 2
    FileLen = 1
    FileWords = {"bytes"}
    MaxLines = 2
    MaxStops = 0
SPECIFICATION Spec
CHECK_DEADLOCK FALSE
PROPERTIES FilesEnd
CONSTRAINT NothingLost
