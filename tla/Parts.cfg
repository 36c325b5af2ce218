SPECIFICATION PartsSpec
CONSTANTS
    Evict = 9  Margin = 2  SendTimeout = 1  Delay = 1
    RawTimes = {0, 1, 2, 3, 4, 5, 6, 7, 8, 9}  MaxFrames = 1
    s1 = s1  s2 = s2  r1 = r1  r2 = r2
INVARIANTS
    TypesOK
    OwnBytes
    FramesIntact
    InputMinusQueries
    
    InputIntact
    HealthyStays
    DeadNoticed
    BackoffClimbs
    GhostSpawnsOnce
    TargetIsWhole
    GraceKept
\* A transfer ends, a client exits: the part stops.
CHECK_DEADLOCK FALSE
