CONSTANTS
    Brk = Brk
    Subs = {s1}
    Pubs = {p1}
    Topics = {t1, t2}
    QueueCap = 2
    WaitLimit = 1
    MaxPub = 2
    Impatient = {Brk, s1, p1}
    NoMsg = NoMsg
SPECIFICATION FairSpec
PROPERTIES ShutdownCompletes RegisteredClientsExit
