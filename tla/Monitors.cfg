SPECIFICATION FairSpec
CONSTANTS
    e = e
    f = f
    l = l
    Event = {e, f}
    Location = {l}
    MaxMonitors = 3
    Generated = 1
    Clocks <- MCClocks
    Late <- MCLate
    MaxQueue = 2
    MaxNest = 2
INVARIANTS EachOnce SamplesReported OneStatePerRequest
PROPERTIES QuitEnds
CHECK_DEADLOCK FALSE
