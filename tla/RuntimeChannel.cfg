SPECIFICATION ChannelFairSpec
CONSTANTS
    None = None
    MaxRequests = 4
    MaxChanges = 2
INVARIANTS
    NoLateAnswer
    RefusedNeverRuns
    RunsWhereBound
    ResultMeansEnded
PROPERTIES
    EveryCallSettles
CHECK_DEADLOCK FALSE
