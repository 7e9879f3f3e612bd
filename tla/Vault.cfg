SPECIFICATION MCSpec
CONSTANTS
    Commands = {c1, c2}
    Handlers = {h1, h2}
    Instances = {v1, v2}
    Names = {n1}
    Values = {x1}
    Hosts = {a1}
    None = none
    MaxWrites = 3
    MaxCAs = 2
SYMMETRY Symmetry
INVARIANTS
    ReadsAreCurrent
    KeysHeld
PROPERTIES
    AuthorityKept
    ImplementsMap
