SPECIFICATION Spec
CONSTANTS
    g1 = g1
    g2 = g2
    g3 = g3
    g4 = g4
    h1 = h1
    h2 = h2
    i1 = i1
    i2 = i2
    Groups = {g1, g2, g3, g4}
    Hosts = {h1, h2}
    Inventories = {i1, i2}
    Requests = {r1, r2}
    MaxInt = 7
    MinLimit = 1
    MaxLimit = 2
    None = None
    Unborn = Unborn
    Gone = Gone
    Names <- MCNames
    Trim <- MCTrim
    GroupInputs <- MCGroupInputs
    HostInputs <- MCHostInputs
    InitialGroups <- MCInitialGroups
    InitialHosts <- MCInitialHosts
CHECK_DEADLOCK FALSE
INVARIANTS
    TypeOK
    TreeIsHierarchy
    ScriptListsHosts
    PagesAreInBounds
    PagesShowEverything
PROPERTIES
    DuplicatesNeedARace
    NestingGrowsByMoves
    HostsKeepTheirGroups
    GroupsKeepTheirParents
