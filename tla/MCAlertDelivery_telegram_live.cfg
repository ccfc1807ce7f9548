SPECIFICATION FairSpec
CONSTANTS
    a1 = a1
    d1 = d1
    w1 = w1
    Alerts = {a1}
    Immediate = {a1}
    Silenceable = {}
    Enabled = {"telegram"}
    Destinations = {d1}
    WebPages = {w1}
    BatchEmail = FALSE
    Faults = FALSE
    ReconfigMidRun = FALSE
PROPERTIES TelegramServed
