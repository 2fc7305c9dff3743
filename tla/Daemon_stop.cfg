SPECIFICATION FairSpec
CONSTANTS
    Threads = {t1, t2}
    Clients = {c1, c2}
    Commands = {"model", "exit"}
    Early = FALSE
    NbPorts = 2
    FreePorts = {2}
INVARIANTS TypeOK StopsForAReason CrashCause
PROPERTY Stops
CHECK_DEADLOCK FALSE
