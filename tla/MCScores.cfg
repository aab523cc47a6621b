SPECIFICATION RunSpec
CONSTANTS
    r1 = r1
    r2 = r2
    Addresses = {k1}
    NoAddress = NoAddress
    Officials = {f1}
    BondDeposits = {1}
    BondAmounts = {1}
    BondPeriods = {1}
    MIN_BOND_UNBONDING = 1
    MAX_BOND_UNBONDING = 2
    MaxBond = 0
    LastExit = 0
    LegacyOperators = {}
    LegacySigner <- NobodySigns
    Registries = {"bond", "reputation"}
    Guardians = {}
    PAUSE_DURATION = 1
    PAUSE_COOLDOWN = 1
    MaxTime = 7
    Agents = {d1}
    Proposals <- LowAndHigh
    NoRoot = NoRoot
    DAY = 3
    MIN_CHALLENGE_WINDOW = 1
    MAX_CHALLENGE_WINDOW = 2
    Windows = {1, 2, 3}
    MAX_MATURITY_RATE_PER_DAY = 4
    Rates = {0, 1, 4}
    InitialRates = {2, 4}
    LegacyPending = {d1}
    LastProposal = 4
CHECK_DEADLOCK FALSE
INVARIANTS
    
    ReviewersInv
PROPERTIES
    OnlyReviewedScores
    MaturityIsEarned
    ScoresFollowEvidence
