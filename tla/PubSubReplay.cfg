CONSTANTS
    Brk = Brk
    Subs = {s1, s2}
    Pubs = {p1}
    Topics = {t1, t2}
    QueueCap = 2
    WaitLimit = 1
    MaxPub = 2
    Impatient = {Brk}
    NoMsg = NoMsg
SPECIFICATION Spec
INVARIANT DeliveredOnce
CHECK_DEADLOCK FALSE
