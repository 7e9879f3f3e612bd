SPECIFICATION MCSpec
CONSTANTS
    Procs = {c1, c2}
    outer = outer
    inner = inner
    Paths = {outer, inner}
    Inside <- MCInside
    Top = top
    Contents = {a, b}
    MaxId = 3
    MaxWrites = 3
    Lines = {l1, l2, l3}
    MaxTexts = 7
    StepLimits = {1, 4}
    Contexts = {0, 1}
SYMMETRY Symmetry
INVARIANTS
    ObjectsStored
    
    
PROPERTIES
    ImplementsStore
    
