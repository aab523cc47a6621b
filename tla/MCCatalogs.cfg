SPECIFICATION RunSpec
CONSTANTS
    Agents = {d1, d2}
    Exts = {x1, x2}
    None = None
    Withheld = {}
    Scores = {0, 1}
    MaxTxsPerRun = 2
    MaxChanges = 2
    MaxFaults = 1
    da = da
    db = db
    ea = ea
    eb = eb
    w = w
    x = x
    Cleared = Cleared
    Nobody = Nobody
    NoLink = NoLink
CHECK_DEADLOCK FALSE
INVARIANTS
    CatalogsAreTrue
PROPERTIES
    RunsLeaveItRight
    CatalogsSettle
