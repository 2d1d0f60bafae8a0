\* The same writers with no ordering at all.
SPECIFICATION Spec
CONSTANTS
    gui = gui
    lpt = lpt
    w1 = w1
    w2 = w2
    w3 = w3
    e1 = e1
    Procs = {gui, lpt}
    Watching = {gui}
    Writers = {w1, w2, w3}
    home <- GuiAndLpt
    Loaders = {w3}
    UiWriters = {w2}
    Overlap <- AllOverlap
    Editors = {}
    Pulls = {}
    NoToken = NoToken
    MaxEvents = 2
    MaxCrashes = 1
INVARIANTS
    TokenNamesText
CHECK_DEADLOCK FALSE
