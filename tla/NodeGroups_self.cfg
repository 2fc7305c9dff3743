SPECIFICATION SpecGroups
CONSTANTS
    h1 = h1
    h2 = h2
    g1 = g1
    g2 = g2
    Hosts = {h1, h2}
    Groups = {g1}
    Scripts <- MC_SelfScripts
    DeclThreads <- MC_DeclThreads
INVARIANT SelfConnected
CHECK_DEADLOCK FALSE
