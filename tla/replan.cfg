SPECIFICATION FairSpec
CONSTANTS
    w1 = w1
    w2 = w2
    w3 = w3
    Weeks = {w1, w2, w3}
    Near <- MCNear
    Past <- MCPast
    Requests = {r1}
    Coord = coord
    Silent = silent
    None = none
    MaxChanges = 2
    FaultKinds = {"throw", "crash", "refuse"}
    MaxFaults = 1
INVARIANT NoChangeForgotten
PROPERTY EveryChangeAnswered
CHECK_DEADLOCK FALSE
