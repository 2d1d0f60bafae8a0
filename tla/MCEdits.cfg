SPECIFICATION Spec
CONSTANTS
    b1 = b1
    b2 = b2
    w1 = w1
    w2 = w2
    none = none
    Browsers = {b1, b2}
    Spaces = {w1, w2}
    NoSpace = none
    Real <- MCReal
    Orders <- MCOrders
    InitialDocs <- MCInitialDocs
    Brought <- MCBrought
    MaxRules = 4
    MaxEdits = 2
INVARIANTS
    WellFormed
    NoRuleDangles
    
    ChooserIsUsable
PROPERTIES
    KeepsRuleList
CHECK_DEADLOCK FALSE
