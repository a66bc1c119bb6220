SPECIFICATION Spec
CONSTANTS
    Visits = {v1, v2}
    Meetings = {m1}
    MeetingAt <- At
    Hours <- Steps
    OwnBusy <- Taken
    Duration = 1
    Before = 1
    After = 1
    Notice = 1
    PageSize = 4
    Reach = 7
    MeetingNotice = 2
    Grace = 1
    MaxNow = 2
    MaxUpsets = 2
    None = none
INVARIANT HeldWhileInvited
INVARIANT OfferedIsClaimable
INVARIANT CancelledIsGone
PROPERTY DeclineSettles
CHECK_DEADLOCK FALSE
