SPECIFICATION Spec
CONSTANTS
    Procs = {c1, c2}
    Names = {n1}
    Trees = {t1, t2, t3}
    Shipped = shipped
    None = None
    EditsAtRest = TRUE
    MaxPublished = 1
    MaxEdits = 1
    MaxFaults = 1
    MaxCrashes = 1
    Users = {c1, c2}
    i1 = i1
    i2 = i2
    Tags = {i1, i2}
    Base <- MCBase
    NoTag = NoTag
    MaxBuilds = 3
    MaxDeaths = 1
    Owners = {c1, c2}
    NoOwner = NoOwner
    PoolSize = 2
    Versions = {v1, v2}
    NoVersion = NoVersion
    MaxUpgrades = 1
    MaxFailures = 1
    MaxReboots = 1
SYMMETRY Symmetry
INVARIANTS
    
    
    BoxesBootWhole
    ReadyNetworkWorks
CHECK_DEADLOCK FALSE
