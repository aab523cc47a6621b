SPECIFICATION RunSpec
CONSTANTS
    t1 = t1
    t2 = t2
    a1 = a1
    a2 = a2
    customer = customer
    buyer = buyer
    seller = seller
    Agents = {a1}
    Payers = {customer, buyer, seller}
    Legs <- MCLegs
    Histories <- MCHistories
    Seller = seller
    Buyer = buyer
    NoFile = NoFile
    Unreadable = Unreadable
    CONF = 1
    WINDOW = 1
    RETENTION = 2
    MaxLag = 1
    MayDieRecovering = FALSE
    Posted = {t1}
    MaxBlock = 4
    MaxFaults = 1
    Operators = {"A", "B"}
    PostedTo = {"A"}
    Settled <- MCSettled
    Ahead <- MCAhead
    HeadLag = 1
    Window = 1
    Lifetime = 2
    ImportGrace = 0
    CheckLag = 1
    MaxFuture = 0
    MaxStalls = 2
    MaxTime = 3
    MaxFailures = 1
    MaxSigned = 2
CHECK_DEADLOCK FALSE
INVARIANTS
    
    ImportsMissNothing
PROPERTIES
    OutcomesOnlyGrow
    
