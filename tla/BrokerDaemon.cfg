SPECIFICATION FairSpec
CONSTANTS
    Brokers = {b1, b2}
    Commands = {c1, c2}
    Versions = {v1, v2}
    None = none
    Grace = 1
    bindAttempts = 3
    OneStart = TRUE
    PromptClose = TRUE
INVARIANTS
    
    AddressIsHeld

    
