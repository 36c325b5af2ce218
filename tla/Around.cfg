SPECIFICATION AroundSpec
CONSTANTS
    Clients = {alice, bob}  Names = {web}  Lingers = {0, 2}
    MaxAge = 2  MaxIds = 1  MaxRestarts = 1  MaxQueue = 1
    alice = alice  bob = bob  web = web
    NoName = NoName  NoClient = NoClient  Dash = Dash
    None = None  sup1 = sup1  sup2 = sup2  tool = tool
    s1 = s1  s2 = s2  r1 = r1  r2 = r2
INVARIANTS
    TypesOK
    NoGhostSession
    ReconnectsHome
PROPERTIES
    LingerKept
    DropKeepsOwner
    Heals
    DestroyStops
    Reconnects
    PairedCompletes
    Settles
    IdleReaped
    AnsweredTruly
\* A destroyed tunnel, a finished transfer, a client that exited: the part stops.
CHECK_DEADLOCK FALSE
