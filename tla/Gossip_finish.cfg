SPECIFICATION FairSpec
CONSTANTS
    Feeders = {10}
    N = 3
    Height <- MC_Height2
    K = 1
    M = 1
    Patience = 2
    SelfLink = FALSE
    Thread <- MC_Thread
    Flaky <- MC_FlakyFeed
    Unit = 2
    MaxQueue = 1
PROPERTIES EveryoneFed AllFinish
CHECK_DEADLOCK FALSE
