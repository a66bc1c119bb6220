SPECIFICATION Spec
SYMMETRY Alike
CONSTANTS
    Identities = {g1, g2, m1}
    Google = {g1, g2}
    Workers = {w1, w2}
    Cron = cron
    RetentionDays = 2
    LeadDays = 1
    PurgeDays = 1
    MaxAsks = 4
    MaxInFlight = 2
    None = none
INVARIANT HoldersOnly
INVARIANT OneChain
PROPERTY DeletedAfterWarning
