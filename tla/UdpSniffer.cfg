CONSTANTS
    Peers = {a}
    None = None
    Traffic <- SomeTraffic
    MaxWire = 3
SPECIFICATION Spec
CHECK_DEADLOCK FALSE
INVARIANTS TextsAreOwn CaptureIsTheTraffic
PROPERTIES CaptureEnds
