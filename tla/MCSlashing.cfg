SPECIFICATION RunSpec
CONSTANTS
    Agents = {d1}
    Accounts = {op1}
    NoAccount = NoAccount
    PubKeys = {k1}
    StakingCore = StakingCore
    StakeViews = {StakingCore}
    InitialViews = {StakingCore}
    LegacyList <- NothingListed
    LegacyOperator = op1
    MaxTransfers = 0
    Registries = {"identity", "staking"}
    Guardians = {}
    PAUSE_DURATION = 1
    PAUSE_COOLDOWN = 1
    MaxTime = 8
    Admins = {admin}
    CommitteeCandidates = {c1}
    Victims = {v1}
    Evidence = {e1, e2}
    Scores = {0}
    Deposits = {0, 1, 2}
    Withdrawals = {1, 2}
    MaxStake = 2
    MinimumStakes = {0, 1, 2}
    Periods = {1, 2, 3}
    MIN_CHALLENGE_PERIOD = 1
    MAX_CHALLENGE_PERIOD = 2
    MIN_UNBONDING_PERIOD = 1
    MAX_UNBONDING_PERIOD = 2
    DISPUTE_RESOLUTION_PERIOD = 3
    EXECUTION_PERIOD = 1
    LastFiling = 2
INVARIANTS
    SafetyInv
    ListsAreExact
    EpochFeesInv
PROPERTIES
    OnlyDueSettlement
