SPECIFICATION FairSpec
CONSTANTS
    Procs = {p1, p2}
    Boxes = {a}
    NoBox = NoBox
    TapPoolSize = 1
    Pids <- MCPids
    MaxCrashes = 0
    Exclusive = FALSE
PROPERTY
    CommandsReturn
