SPECIFICATION Spec
CONSTANTS
    VMs = {1, 2}
    Week = 2
    SlotsPerDay = 3
    Finish = 1
    MaxGap = 0
    HeartbeatMax = 1
    DiskPct = 90
    Groups = {g1}
    PBSJobs <- MCJobs
    StaleMax = 2
    FillDays = 2
    Volumes = {vC, vD}
    Scenarios <- OnlyMaintenance
INVARIANT LatestCompletedIsReported
CHECK_DEADLOCK FALSE
