SPECIFICATION Spec
CONSTANTS
    Users = {a, b}
    Requests = {r1, r2}
    MaxSessions = 2
    MaxTokens = 1
    MaxVer = 2
    MaxNow = 3
    MaxServed = 2
    MaxAttempts = 2
    ChallengeLife = 1
    Grace = 1
    Fresh = 1
    a = a
    b = b
    r1 = r1
    r2 = r2
PROPERTY EnforcementSparesLastAdmin
CHECK_DEADLOCK FALSE
