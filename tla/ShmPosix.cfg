CONSTANTS
    Procs = {a, b, c}
    Impatient = {a}
    N = 6
    RandVals = {3, 4, 5}
    Numbers = {4, 9}
SPECIFICATION FairSpec
INVARIANTS MutualExclusion
PROPERTIES ImplementsHandoff ProducerFinishes ConsumersFinish
