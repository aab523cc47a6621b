SPECIFICATION RunSpec
CONSTANTS
    Agents = {"a"}
    Window = 4
    FinalWarning = 3
    PageSize = 2
    PerAgent = 2
    Threshold = 2
    MaxPoll = 1
    MaxProposals = 2
    Plans <- MCPlans
    Chains <- MCBlocks
    Lag = 2
    NodeMax = 2
    LogSpan = 2
    Batch = 2
    SpansPerPoll = 2
    HeadMargin = 1
    MaxLogs = 6
    PageRows = 2
    IndexPages = 3
    TailBlocks = 3
    IndexAhead = 1
    MaxBlock = 6
    MaxFaults = 1
    MaxRestarts = 1
CHECK_DEADLOCK FALSE
INVARIANTS
    IndexIsWhole
PROPERTIES
    AlertsWereLive
    FollowersArrive
