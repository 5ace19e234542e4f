CONSTANTS
    Procs = {a, b, c}
    Impatient = {a, b}
    N = 8
    RandVals = {3, 4}
    Numbers = {5}
SPECIFICATION FairSpec
INVARIANTS TypeOK MutualExclusion EachBlockOnce OffsetsAreBoundaries
PROPERTIES ProducerFinishes ConsumersFinish
