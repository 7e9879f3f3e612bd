SPECIFICATION Spec
CONSTANTS
    Execs = {e1}
    Orphans = {o1}
    Main = main
    Helper = helper
    None = None
    PidOf <- MCPidOf
    Left <- MCLeft
    SignalCapacity = 2
    MaxHelperRuns = 1
    MaxStops = 1
    a = a
    b = b
    z = z
    Programs = {p1}
    Names = {a, b}
    ZoneNames = {z}
    Ports = {1, 2}
    Lists <- MCLists
    PoolSize = 2
    IdleTicks = 2
    MaxChunks = 2
    MaxChanges = 1
    MaxRestarts = 1
    Unparsable = Unparsable
    Nobody = Nobody
    x = x
    y = y
    Torn = Torn
    Bundles <- MCBundles
    MaxBundleChanges = 2
    MaxFailures = 2
    MaxBoxRestarts = 1
INVARIANTS
    ExitsReachTheirOwners
    ConnectedAsResolved
    OnlyIdleTimesOut
    
PROPERTIES
    
    ListCatchesUp
CHECK_DEADLOCK FALSE
