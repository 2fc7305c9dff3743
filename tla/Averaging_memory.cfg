SPECIFICATION Spec
CONSTANTS
    n1 = n1
    n2 = n2
    eval = eval
    Feeders = {1, 2}
    Heights = {2, 3, 4}
    Workers = {n1, n2}
    Keepers = {eval}
    Targets <- MC_Targets
    Outs <- MC_Outs
    Thread <- MC_Thread
    Flaky <- MC_Flaky
    Unit = 4
    MaxQueue = 1
    MaxBuf = 10
INVARIANTS TypeOK MemorySafe PartsIntact AvgMass
CHECK_DEADLOCK FALSE
