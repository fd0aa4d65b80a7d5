SPECIFICATION LoadSpec
CONSTANTS
    f1 = f1
    f2 = f2
    NoFactory = NoFactory
    Factory <- MCFactory
    Library <- MCLibrary
    MaxFiles = 3
INVARIANTS
    LoadTypeOK
    GoodPluginsAreLoaded
    FactoriesRunOnce
PROPERTIES
    LoadEnds
    RegistersWithManager
CHECK_DEADLOCK FALSE
