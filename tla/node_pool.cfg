SPECIFICATION PoolFairSpec
CONSTANTS
    good = good
    junk = junk
    Nodes = {1, 2}
    Uris <- MCUris
    Renderable <- MCRenderable
    Certifiable <- MCUris
    ProbeTier <- MCProbeTier
    Sources = {gfpcom}
    ManualSlots = {m1}
    Rates = {1, 2}
    Floor = 2
    Stability = TRUE
    Budget = 1
    RetestBudget = 1
    WorkingSet = 1
    MaxWindow = 1
    MaxChanges = 2
    MaxPoison = 1
    MaxBesides = 1
INVARIANTS PoolTypeOK UntestedIsClean GateIsTight MarksMatchWorkers
PROPERTIES QueueDrains StraysAreSwept
CHECK_DEADLOCK FALSE
