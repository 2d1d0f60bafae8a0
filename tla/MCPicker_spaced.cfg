SPECIFICATION FairSpec
CONSTANTS
    a1 = a1
    a2 = a2
    a3 = a3
    Asks <- ThreeAsks
    Previews <- LastOfThree
    NoAsk = NoAsk
    BareTiles = TRUE
    MaxClicks = 2
    BackToBack = FALSE
    BuildMayFail = FALSE
INVARIANTS
    OwnSession
PROPERTIES
    
    
    KeepsContract
CHECK_DEADLOCK FALSE
