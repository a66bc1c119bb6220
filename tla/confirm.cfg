SPECIFICATION Spec
CONSTANTS
    Ids = {i1, i2, i3}
    Ops = {o1, o2}
    Plans = {plan1}
    Visits = {v1, v2}
    LiveCap = 2
    FallbackLimit = 1
    TTL = 1
    PlanTTL = 1
    Grace = 0
    MaxInFlight = 2
    MaxDay = 1
    MaxFaults = 1
    NoRow = norow
    Nobody = nobody
SYMMETRY Symmetry
INVARIANT CapsHold
INVARIANT RunsAtMostOnce
INVARIANT OneLinkPerAsk
INVARIANT AnswerIsTrue
CHECK_DEADLOCK FALSE
