SPECIFICATION FairSpec
CONSTANTS
    mug = mug   cap = cap   new = new
    r1 = r1     r2 = r2     r3 = r3
    bob = bob   none = none   nil = nil
    Items <- MCItems
    Requests = {r1, r2, r3}
    Users = {bob}
    PoolSize = 2
    Ops <- OpsLiveness
    Shelf <- MCShelf
    NoOne = none
    NotGiven = nil
    Int64 = 64
PROPERTIES
    EveryRequestAnswered
