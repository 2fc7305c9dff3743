SPECIFICATION SpecGroups
CONSTANTS
    h1 = h1
    h2 = h2
    g1 = g1
    g2 = g2
    Hosts = {h1, h2}
    Groups = {g1,g2}
    Scripts <- MC_Scripts
    DeclThreads <- MC_DeclThreads
INVARIANTS TypeGroups EveryNeighbour Connected
CHECK_DEADLOCK FALSE
