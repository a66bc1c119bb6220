SPECIFICATION Spec
CONSTANTS
    c1 = c1
    c2 = c2
    c3 = c3
    c4 = c4
    Channels = {c1, c2, c3}
    Ensurers = {e1, e2}
    Forced = {e2}
    Upserters = {u1}
    None = none
    NoRow = norow
    MaxFaults = 1
INVARIANT NoOrphan
INVARIANT NeverDark
INVARIANT GoneStaysGone
CHECK_DEADLOCK FALSE
