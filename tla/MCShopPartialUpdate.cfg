SPECIFICATION Spec
CONSTANTS
    mug = mug   cap = cap   new = new
    r1 = r1     r2 = r2     r3 = r3
    bob = bob   none = none   nil = nil
    Items <- MCItems
    Requests = {r1, r2}
    Users = {bob}
    PoolSize = 3
    Ops <- OpsEditing
    Shelf <- MCShelf
    NoOne = none
    NotGiven = nil
    Int64 = 64
SYMMETRY RequestSymmetry
PROPERTIES
    OnlyProvidedFieldsUpdated
