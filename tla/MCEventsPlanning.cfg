SPECIFICATION Spec
CONSTANTS
    gig = gig   x = x   y = y   mon = mon   tue = tue   jazz = jazz   folk = folk
    r1 = r1   r2 = r2   r3 = r3   r4 = r4
    nil = nil   unborn = unborn   removed = removed   nothing = nothing
    EventIds <- MCIds
    Days = {mon, tue}
    Titles = {jazz, folk}
    Requests = {r1, r2, r3, r4}
    Ops <- OpsPlanning
    Planned <- MCPlanned
    NotGiven = nil
    Unborn = unborn   Removed = removed   Nothing = nothing
SYMMETRY RequestSymmetry
INVARIANTS
    TypeOK OneEventPerDay CreatedOnce
PROPERTIES
    RemovedForGood
