SPECIFICATION DaemonSpec
CONSTANTS
    d1 = d1  d2 = d2  d3 = d3
    Daemons = {d1, d2, d3}
    Wipeable = {"sock", "pid"}
    WipeInBind = FALSE
    MaxWipes = 2
    MaxCrashes = 2
    MaxStops = 0
    alice = alice  bob = bob  web = web
    NoName = NoName  NoClient = NoClient  Dash = Dash  None = None
INVARIANTS
    TypesOK
    BindSerialized
PROPERTIES
    BindKeepsLiveSocket
    OneDaemonStays
    StopSparesOthers
    
    ChannelsFinish
    Converges
\* Daemons crash and stop, sessions and clients end: the part stops.
CHECK_DEADLOCK FALSE
