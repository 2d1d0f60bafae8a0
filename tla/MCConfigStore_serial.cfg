\* A GUI command, a page's whole-document write, an lpt invocation and a pull;
\* writes do not overlap.
SPECIFICATION FairSpec
CONSTANTS
    gui = gui
    lpt = lpt
    w1 = w1
    w2 = w2
    w3 = w3
    e1 = e1
    Procs = {gui, lpt}
    Watching = {gui}
    Writers = {w1, w2, w3}
    home <- GuiAndLpt
    Loaders = {w3}
    UiWriters = {w2}
    Overlap <- NoOverlap
    Editors = {e1}
    Pulls = {e1}
    NoToken = NoToken
    MaxEvents = 2
    MaxCrashes = 1
INVARIANTS
    DiskParses
    
PROPERTIES
    LptKeepsAcked
    
CHECK_DEADLOCK FALSE
