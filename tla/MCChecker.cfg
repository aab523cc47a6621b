SPECIFICATION RunSpec
CONSTANTS
    Chains = {"arc", "base"}
    Scored = "arc"
    Stamps <- MCStamps
    Lag <- MCLag
    Delay <- MCDelay
    Legs <- MCLegs
    Agent = "a"
    RegisteredAt <- MCRegisteredAt
    Quantum = 2
    Window = 6
    Margin = 2
    MaxBlocks = 2
    MaxReads = 2
    Cheats = {7}
    MaxTime = 8
    Signable <- MCSignable
    SignedAt = {6}
    W = 3
    Grace = 2
    ProbeRace = FALSE
    Rejects = TRUE
    MaxEpoch = 1
    MaxStuck = 1
    CheckerEvery = 1
    MaxFaults = 1
    MaxQueue = 3
CHECK_DEADLOCK FALSE
INVARIANTS
    AuditsAreRight
    EpochInv
PROPERTIES
    CoveredIsFixed
    
    OperatorsGoOn
