CONSTANTS
    Brk = Brk
    Subs = {s1, s2}
    Pubs = {p1}
    Topics = {t1, t2}
    QueueCap = 2
    WaitLimit = 1
    MaxPub = 2
    Impatient = {Brk}
    NoMsg = NoMsg
SYMMETRY Symmetry
SPECIFICATION Spec
INVARIANTS TypeOK RegistryDistinct RegistryAgrees OrderInv
           RegisteredAreSignalled
PROPERTIES FanoutComplete ImplementsTopicBus
CHECK_DEADLOCK FALSE
