CONSTANTS
    Clients = {a, b, c}
    None = None
    MaxClients = 2
    MaxEvents = 2
    Cap = 2
    FileLen = 1
    FileWords = {"zero", "close", "start"}
    MaxLines = 1
    MaxStops = 1
SPECIFICATION Spec
CHECK_DEADLOCK FALSE
INVARIANTS TypeOK SlotsAgree NoLimbo LeaveIsLast
PROPERTIES OnlyTheGoneAreDropped Forgotten ClientsLeave 
