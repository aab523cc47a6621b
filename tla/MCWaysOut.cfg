SPECIFICATION RunSpec
CONSTANTS
    d1 = d1
    o1 = o1
    k1 = k1
    Agents = {d1}
    Accounts = {op1}
    NoAccount = NoAccount
    PubKeys = {key}
    StakingCore = StakingCore
    StakeViews = {StakingCore}
    InitialViews = {StakingCore}
    LegacyList <- NothingListed
    LegacyOperator = op1
    MaxTransfers = 0
    Registries = {"identity", "staking", "bond"}
    Guardians = {g1}
    PAUSE_DURATION = 1
    PAUSE_COOLDOWN = 1
    MaxTime = 6
    Admins = {admin}
    CommitteeCandidates = {c1}
    Victims = {v1}
    Evidence = {e1}
    Scores = {0}
    Deposits = {2}
    Withdrawals = {2}
    MaxStake = 2
    MinimumStakes = {1, 2}
    Periods = {1}
    MIN_CHALLENGE_PERIOD = 1
    MAX_CHALLENGE_PERIOD = 1
    MIN_UNBONDING_PERIOD = 1
    MAX_UNBONDING_PERIOD = 2
    DISPUTE_RESOLUTION_PERIOD = 2
    EXECUTION_PERIOD = 1
    LastFiling = 2
    Addresses = {o1, k1}
    NoAddress = NoAddress
    Officials = {f1, f2}
    BondDeposits = {1, 2}
    BondAmounts = {0, 1, 2}
    BondPeriods = {1, 2, 3}
    MIN_BOND_UNBONDING = 1
    MAX_BOND_UNBONDING = 2
    MaxBond = 2
    LastExit = 2
    LegacyOperators = {o1}
    LegacySigner <- OneSigns

    
PROPERTIES
    FreezesAndExitsEnd
    
