\* Two asks at any distance from each other, one of them a preview.
SPECIFICATION FairSpec
CONSTANTS
    a1 = a1
    a2 = a2
    a3 = a3
    Asks <- TwoAsks
    Previews <- LastOfTwo
    NoAsk = NoAsk
    BareTiles = TRUE
    MaxClicks = 1
    BackToBack = TRUE
    BuildMayFail = TRUE
INVARIANTS
    SlotInv
PROPERTIES
    AnsweredOnce
    EveryAskEnds
CHECK_DEADLOCK FALSE
