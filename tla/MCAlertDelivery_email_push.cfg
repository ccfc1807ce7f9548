SPECIFICATION FairSpec
CONSTANTS
    a1 = a1
    Alerts = {a1}
    Immediate = {a1}
    Silenceable = {a1}
    Enabled = {"email", "push"}
    Destinations = {}
    WebPages = {}
    BatchEmail = TRUE
    Faults = FALSE
    ReconfigMidRun = FALSE
INVARIANTS OncePerAppearance ResolutionOwed
PROPERTIES CriticalAnnounced
