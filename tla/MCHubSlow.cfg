SPECIFICATION FairSpec
CONSTANTS
    a = a   b = b
    Clients = {a, b}
    BroadcastCap = 1
    SendCap = 1
    MaxSent <- Monologue
    NoMsg = none
    NotJoined = outside
PROPERTIES
    SlowIsDisconnected
