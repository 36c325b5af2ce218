CONSTANTS
    alice = alice
    bob = bob
    web = web
    NoName = NoName
    NoClient = NoClient
    Dash = Dash
    Clients = {alice, bob}
    Names = {web}
    Lingers = {0}
    MaxAge = 0
    MaxIds = 1
    MaxRestarts = 0
    MaxQueue = 1
SPECIFICATION Spec
INVARIANT HandOffObserved
