CONSTANTS
    Files = 2
    MaxLen = 3
    IntLimit = 3
    Header = 3
    Chunk = 2
    PipeCap = 8
    Spelled <- SomeSpelled
SPECIFICATION Spec
INVARIANTS TypeOK FaithfulCopy OwnBytesOnly
PROPERTIES BothEnd
