SPECIFICATION Spec
CONSTANTS
    Sups = {sup1, sup2}
    Tools = {tool}
    None = None
    MaxOps = 1
    MaxFaults = 0
PROPERTY CleanupSparesLive
CHECK_DEADLOCK FALSE
