SPECIFICATION Spec
CONSTANTS
    a1 = a1
    d1 = d1
    Alerts = {a1}
    Immediate = {a1}
    Silenceable = {a1}
    Enabled = {"email", "telegram"}
    Destinations = {d1}
    WebPages = {}
    BatchEmail = FALSE
    Faults = TRUE
    ReconfigMidRun = FALSE
INVARIANTS EmailMarkTruthful TelegramMarkTruthful
PROPERTIES NoFalseResolution
