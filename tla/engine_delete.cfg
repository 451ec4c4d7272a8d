SPECIFICATION Spec
CONSTANTS
    Nodes = {n1}
    Tunnels = {t1}
    Ports = {p1}
    Requests = {1}
    Workers = {w1, w2}
    Loop = loop
    MaxMisses = 2
    MaxCrashes = 0
    MaxUpsets = 0
    None = None
PROPERTIES DeleteIsFinal
CHECK_DEADLOCK FALSE
