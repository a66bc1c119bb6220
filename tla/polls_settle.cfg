SPECIFICATION FairSpec
CONSTANTS
    Invitees = {i1, i2}
    Slots = {s1}
    Overlaps <- AroundMiddle
    Middle = none
    Runs = {r1, r2}
    Claims = {c1, c2}
    Paints <- Answers
    Edits <- ExtendIt
    Guests = {i2}
    MaxDay = 1
    MaxSaves = 1
    MaxAsks = 1
    MaxUpsets = 1
    MayDie = FALSE
    None = none
PROPERTY PollSettles
CHECK_DEADLOCK FALSE
