SPECIFICATION Spec
CONSTANTS
    Nodes = {n1}
    Tunnels = {t1, t2}
    Ports = {p1, p2}
    Requests = {1}
    Workers = {w1}
    Loop = loop
    MaxMisses = 2
    MaxCrashes = 0
    MaxUpsets = 1
    None = None
SYMMETRY MCSymmetry
INVARIANTS ExclusiveConfigs
CHECK_DEADLOCK FALSE
