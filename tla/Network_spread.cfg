SPECIFICATION FairSpec
CONSTANTS
    Daemons = {1, 2, 3}
    Interfaces <- MC_Interfaces
    Port <- MC_Port
    Names <- MC_Names
    Enters <- MC_Enters
    Models <- MC_Models
    Wishes <- MC_Wishes
    Patient <- MC_Patient
    MaxConn = 4
    MaxLog = 2
    MaxCopies = 1
    None = None
INVARIANTS TypeOK ReadOnce SameOrder Agreed
PROPERTIES Spread
CHECK_DEADLOCK FALSE
