SPECIFICATION FairSpec
CONSTANTS
    c1 = c1
    c2 = c2
    c3 = c3
    c4 = c4
    Channels = {c1, c2, c3, c4}
    Ensurers = {e1}
    Forced = {}
    Upserters = {u1}
    None = none
    NoRow = norow
    MaxFaults = 1
PROPERTY ChannelComesBack
CHECK_DEADLOCK FALSE
