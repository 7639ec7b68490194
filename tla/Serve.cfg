\* Two whole boots, so that the second may be killed before its own record.
SPECIFICATION FairSpec
CONSTANTS
    s1 = s1
    Services = {s1}
    MaxBoots = 3
    MaxKills = 1
    MaxRequests <- MCMaxRequests
CHECK_DEADLOCK FALSE
INVARIANTS
    ServeSound
    StopOrder
PROPERTIES
    Stops
