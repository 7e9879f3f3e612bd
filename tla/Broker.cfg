SPECIFICATION Spec
CONSTANTS
    Handlers = {h1, h2}
    Boxes = {b1, b2}
    NoBox = none
    Ports = {x1, x2}
    Exclusive = TRUE
    Connections = {k1, k2}
    d1 = d1
    d2 = d2
    V1 = V1
    Secrets = {s1}
    Destinations = {d1, d2}
    Records <- MCRecords
    Egress = {d2}
    Variables = {V1}
    Specs <- MCSpecs
    Nothing = Nothing
    Window = 1
    MaxTime = 1
    MaxEdits = 1
    Readers = {r1}
    Keep = 2
    MaxLines = 2
    MaxEntries = 7
    MaxFaults = 2
SYMMETRY Symmetry
INVARIANTS
    
    NoListenerLost
    LoggedOnce
    RateHeld
    
    LogReadsInOrder
