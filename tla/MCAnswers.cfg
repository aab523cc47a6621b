SPECIFICATION RunSpec
CONSTANTS
    x = x
    op = op
    Unset = Unset
    Requests = {p, q}
    Skew = 1
    Hour = 3
    Caps = {1, 2}
    Delay = 1
    Behind = 1
    MaxTime = 5
    MaxRestarts = 1
    Clients = {p, q}
    Callers = {p, q}
    Posts = {p, q}
    Others = {p, q}
SYMMETRY Symmetry
CHECK_DEADLOCK FALSE
INVARIANTS
    
    AnswersInv
