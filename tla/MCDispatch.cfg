SPECIFICATION FairSpec
CONSTANTS
    b1 = b1
    b2 = b2
    custom = custom
    sys1 = sys1
    ipc1 = ipc1
    Browsers = {b1, b2, custom}
    System = System
    Contexts = {sys1, ipc1}
    Workspaces = {}
    NoWorkspace = NoWorkspace
    Docs <- FiveDocs
    ViaIpc = {ipc1}
    Custom = {custom}
    NoAsk = NoAsk
    MaxChanges = 1
INVARIANTS
    OpensOnce
    TriesInOrder
    OpensAsDecided
PROPERTIES
    EveryOpenSettles
CHECK_DEADLOCK FALSE
