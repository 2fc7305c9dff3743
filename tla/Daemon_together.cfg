SPECIFICATION Spec
CONSTANTS
    Threads = {t1, t2}
    Clients = {}
    Commands = {}
    Early = FALSE
    NbPorts = 2
    FreePorts = {1}
INVARIANT CleanStop
CHECK_DEADLOCK FALSE
