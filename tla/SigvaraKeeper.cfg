SPECIFICATION KeeperFairSpec
CONSTANTS
    Agents = {d1}
    Accounts = {op1}
    NoAccount = NoAccount
    PubKeys = {k1}
    StakingCore = StakingCore
    StakeViews = {StakingCore}
    InitialViews = {StakingCore}
    LegacyList <- NothingListed
    LegacyOperator = op1
    MaxTransfers = 0
    Registries = {"identity", "staking"}
    Guardians = {}
    PAUSE_DURATION = 1
    PAUSE_COOLDOWN = 1
    MaxTime = 5
    Admins = {admin}
    CommitteeCandidates = {c1}
    Victims = {v1}
    Evidence = {e1}
    Scores = {0}
    Deposits = {1}
    Withdrawals = {}
    MaxStake = 1
    MinimumStakes = {1}
    Periods = {1}
    MIN_CHALLENGE_PERIOD = 1
    MAX_CHALLENGE_PERIOD = 1
    MIN_UNBONDING_PERIOD = 1
    MAX_UNBONDING_PERIOD = 2
    DISPUTE_RESOLUTION_PERIOD = 2
    EXECUTION_PERIOD = 1
    LastFiling = 2
    GRACE = 0
    ALERT_AGAIN = 1
    MaxFaults = 1
INVARIANTS
    KeeperInv
PROPERTIES
    SlashesAreHeard
