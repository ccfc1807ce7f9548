SPECIFICATION Spec
CONSTANTS
    a1 = a1
    w1 = w1
    Alerts = {a1}
    Immediate = {a1}
    Silenceable = {a1}
    Enabled = {"email"}
    Destinations = {}
    WebPages = {w1}
    BatchEmail = FALSE
    Faults = FALSE
    ReconfigMidRun = FALSE
INVARIANTS EmailMarkTruthful
