SPECIFICATION DesktopSpec
CONSTANTS
    Routes = {r1, r2, r3, r4}
    Capacity = 3
    Limit = 2
    MaxAsks = 2
    Procs = {p1, p2}
    Targets = {t1, t2}
    host <- MCHost
    Retention = 1
    Ttl = 1
    MinCount = 2
    MaxPicks = 4
    MaxDay = 2
    MaxCalls = 2
    Apps = {"linkpilot", "mail", "tool", "script"}
    Self = "linkpilot"
    bundle <- MCBundle
    RingCapacity = 2
    StaleAfter = 4
    PollInterval = 1
    MaxLate = 1
    MaxTime = 7
    Suppress = 2
    MaxNow = 5
    MaxUserActs = 4
INVARIANTS
    HistoryIsFollowed
    
    OpenerIsFound
    
CHECK_DEADLOCK FALSE
