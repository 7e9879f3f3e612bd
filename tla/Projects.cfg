SPECIFICATION MCSpec
CONSTANTS
    Procs = {c1, c2}
    Projects = {p1}
    NoProject = none
    Configs = {t1, t2}
    Missing = missing
    Detected = detected
    NoSetup = nosetup
    MaxBlock = 1
    OtherBlocks = {}
    MaxEdits = 1
SYMMETRY Symmetry
INVARIANTS
    OnlyApprovedCommandsRun
    RecordIsOfThisBox
