CONSTANTS
    d1 = d1
    d2 = d2
    d3 = d3
    Daemons = {d1, d2}
    Wipeable = {"sock"}
    WipeInBind = FALSE
    MaxWipes = 1
    MaxCrashes = 0
    MaxStops = 1
SPECIFICATION Spec
PROPERTY StopKeepsOthersSocket
CHECK_DEADLOCK FALSE
