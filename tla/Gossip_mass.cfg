SPECIFICATION Spec
CONSTANTS
    Feeders = {10, 11}
    N = 2
    Height <- MC_Height2
    K = 2
    M = 1
    Patience = 1
    SelfLink = TRUE
    Thread <- MC_Thread
    Flaky <- MC_Flaky
    Unit = 2
    MaxQueue = 1
INVARIANTS TypeOK MassConserved Balanced Fed
CHECK_DEADLOCK FALSE
