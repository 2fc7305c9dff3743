SPECIFICATION FairSpec
CONSTANTS
    a = a
    b = b
    c = c
    NbThreads = 2
    Nodes = {a, c}
    Workers = {c}
    Late = {}
    ThreadOf <- MC_ThreadOf
    Outs <- MC_Outs
    Conns = {r}
    Cfg = cfg
    NoThread = noThread
    NoNode = noNode
    NoMsg = noMsg
    SemGarbage = {0, 1}
    MaxMsgs = 1
PROPERTIES Delivered Termination
CHECK_DEADLOCK FALSE
