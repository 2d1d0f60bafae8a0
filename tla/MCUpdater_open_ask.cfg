SPECIFICATION Spec
CONSTANTS
    g1 = g1
    g2 = g2
    g3 = g3
    Guis = {g1, g2, g3}
    NoGui = NoGui
    Versions <- ReleasedVersions
    First = 1
    Unhealthy <- StuckVersions
    MaxFaults = 0
PROPERTIES
    OpenAskPostpones
CHECK_DEADLOCK FALSE
