SPECIFICATION RunSpec
CONSTANTS
    d1 = d1
    o1 = o1
    k1 = k1
    Agents = {d1}
    Accounts = {op1, op2}
    NoAccount = NoAccount
    PubKeys = {key}
    StakingCore = StakingCore
    StakeViews = {StakingCore}
    InitialViews = {NoAccount, StakingCore}
    LegacyList <- OneListed
    LegacyOperator = op1
    MaxTransfers = 1
    Registries = {"identity", "staking", "bond", "reputation"}
    Guardians = {}
    PAUSE_DURATION = 1
    PAUSE_COOLDOWN = 1
    MaxTime = 6
    Admins = {admin}
    CommitteeCandidates = {c1}
    Victims = {v1, v2}
    Evidence = {e1}
    Scores = {0, 1}
    Deposits = {1, 4}
    Withdrawals = {1}
    MaxStake = 5
    MinimumStakes = {1}
    Periods = {1}
    MIN_CHALLENGE_PERIOD = 1
    MAX_CHALLENGE_PERIOD = 1
    MIN_UNBONDING_PERIOD = 1
    MAX_UNBONDING_PERIOD = 2
    DISPUTE_RESOLUTION_PERIOD = 2
    EXECUTION_PERIOD = 1
    LastFiling = 2
    Addresses = {o1, o2, k1}
    NoAddress = NoAddress
    Officials = {f1}
    BondDeposits = {1}
    BondAmounts = {1}
    BondPeriods = {1}
    MIN_BOND_UNBONDING = 1
    MAX_BOND_UNBONDING = 1
    MaxBond = 1
    LastExit = 1
    LegacyOperators = {o1}
    LegacySigner <- OneSigns
INVARIANTS
    Solvency
PROPERTIES
    AccusedKeepsOperator
    
    ImplementsCustody
    KeysStayOutOfReach
    ScoresSpeakForTheirOperator
