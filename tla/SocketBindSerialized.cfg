CONSTANTS
    d1 = d1
    d2 = d2
    d3 = d3
    Daemons = {d1, d2, d3}
    Wipeable = {}
    WipeInBind = FALSE
    MaxWipes = 0
    MaxCrashes = 0
    MaxStops = 1
SPECIFICATION Spec
INVARIANT BindSerialized
CHECK_DEADLOCK FALSE
