SPECIFICATION FairSpec
CONSTANTS
    Nodes = {n1}
    Tunnels = {t1}
    Ports = {p1}
    Requests = {1}
    Workers = {w1}
    Loop = loop
    MaxMisses = 1
    MaxCrashes = 1
    MaxUpsets = 1
    None = None
PROPERTIES HealServes PendingIsRetried
CHECK_DEADLOCK FALSE
