SPECIFICATION Spec
CONSTANTS
    a = a
    b = b
    c = c
    NbThreads = 2
    Nodes = {a, b, c}
    Workers = {b}
    Late = {b}
    ThreadOf <- MC_ThreadOf
    Outs <- MC_Outs
    Conns = {}
    Cfg = cfg
    NoThread = noThread
    NoNode = noNode
    NoMsg = noMsg
    SemGarbage = {0}
    MaxMsgs = 2
INVARIANTS TypeOK NoLostWakeup Attachment Exclusive ThreadExitSound
CHECK_DEADLOCK FALSE
