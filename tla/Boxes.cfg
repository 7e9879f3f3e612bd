SPECIFICATION Spec
CONSTANTS
    Procs = {p1, p2}
    Boxes = {a, b, c}
    NoBox = NoBox
    TapPoolSize = 2
    Pids <- MCPids
    MaxCrashes = 2
    Exclusive = TRUE
SYMMETRY Symmetry
INVARIANTS
    TapsDistinct
    SharesOwned
    
    
PROPERTY
    ImplementsPool
