SPECIFICATION MCSpec
CONSTANTS
    Handlers = {h1, h2}
    Ports = {1, 2}
    Schemas = {http, socks}
    MaxTrouble = 2
    Ids = {a, b}
    Callers = {c1, c2}
    Latencies = {1, 2}
    PickTTL = 1
    MaxTime = 1
    MaxTunnels = 2
    Viewers = {v1, v2}
    Requests = {r1}
    Window = 1
    MaxSamples = 2
    MaxVersion = 2
    MaxBad = 2
    MaxTicks = 2
INVARIANTS AgentTypeOK TunAckHolds RefusalIsUndone ProxyIsTold ShownPickIsCurrent TargetAnswered PanelTypeOK
PROPERTIES BoardNeverGoesBack WatchedIsFresh
CHECK_DEADLOCK FALSE
