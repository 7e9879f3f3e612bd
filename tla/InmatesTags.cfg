SPECIFICATION Spec
CONSTANTS
    Procs = {c1, c2}
    Names = {n1}
    Trees = {t1, t2}
    Shipped = shipped
    None = None
    EditsAtRest = TRUE
    MaxPublished = 1
    MaxEdits = 0
    MaxFaults = 0
    MaxCrashes = 0
SYMMETRY Symmetry
INVARIANT
    TagsNameTheirInputs
