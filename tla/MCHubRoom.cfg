SPECIFICATION Spec
CONSTANTS
    a = a   b = b
    Clients = {a, b}
    BroadcastCap = 1
    SendCap = 1
    MaxSent <- EachTwo
    NoMsg = none
    NotJoined = outside
INVARIANTS
    TypeOK NoPanic MembersMissNothing SendersKeepOrder
PROPERTIES
    ImplementsRoom
