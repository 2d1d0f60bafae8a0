SPECIFICATION Spec
CONSTANTS
    g1 = g1
    u1 = u1
    MaxDaemons = 2
    MaxStarts = 2
    Guis = {g1}
    Opens = {u1}
    Nobody = Nobody
    Workers = 1
    MaxKills = 1
INVARIANTS
    EndpointIsOwned
    
    OnceUnlessSlow
PROPERTIES
    
    CallsReturn
CHECK_DEADLOCK FALSE
