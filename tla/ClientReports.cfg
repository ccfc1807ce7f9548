SPECIFICATION FairSpec
CONSTANTS
    MaxJobs = 2
    MaxReboots = 1
CHECK_DEADLOCK FALSE
INVARIANTS JobReportedOnce NotForgottenInTurn
PROPERTY EventuallyReported
