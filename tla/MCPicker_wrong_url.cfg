\* Two asks arriving back to back; a browser without profiles is offered.
SPECIFICATION Spec
CONSTANTS
    a1 = a1
    a2 = a2
    a3 = a3
    Asks <- TwoAsks
    Previews <- NoPreview
    NoAsk = NoAsk
    BareTiles = TRUE
    MaxClicks = 2
    BackToBack = TRUE
    BuildMayFail = FALSE
INVARIANTS
    OwnPick
CHECK_DEADLOCK FALSE
