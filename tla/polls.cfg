SPECIFICATION Spec
CONSTANTS
    Invitees = {i1, i2}
    Slots = {s1, s2, s3}
    Overlaps <- AroundMiddle
    Middle = s3
    Runs = {r1, r2}
    Claims = {c1, c2}
    Paints <- Answers
    Edits <- DropOne
    Guests = {}
    MaxDay = 1
    MaxSaves = 2
    MaxAsks = 1
    MaxUpsets = 1
    MayDie = TRUE
    None = none
SYMMETRY Symmetry
INVARIANT OneMeeting
INVARIANT NoDoubleBooking
INVARIANT BookedHolds
INVARIANT NoStrayMeeting
INVARIANT LastVoteHeard
CHECK_DEADLOCK FALSE
