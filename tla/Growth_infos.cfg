SPECIFICATION Spec
CONSTANTS
    A = A
    B = B
    root = root
    me = me
    libA = libA
    libB = libB
    Groups = {A, B}
    Root = root
    Me = me
    Scripts <- MC_Scripts
    DeclThreads <- MC_DeclThreads
    Files = {libA, libB}
    Provides <- MC_Provides
    Fragile = {A, B}
    MaxLeft = 2
    Watched <- MC_Watched
    MaxUpdates = 2
INVARIANTS TypeOK EvenLoads NodeFound LocksFree InfosAgree
CHECK_DEADLOCK FALSE
