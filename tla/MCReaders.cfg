SPECIFICATION RunSpec
CONSTANTS
    Agents = {"a", "b"}
    Nonces = {1, 2}
    Admits = {x, y}
    x = x
    y = y
    Changing = {"a"}
    Asking <- MCAsking
    Writing <- MCWriting
    Setups <- MCSetups
    Asked = {}
    TTL = 1
    Skew = 1
    Ahead = 2
    MaxRead = 1
    MaxOld = 6
    MaxOutstanding = 2
    MaxChanges = 1
SYMMETRY Symmetry
CHECK_DEADLOCK FALSE

    
PROPERTIES
    UsedOnce
    AdmissionsAreSound
