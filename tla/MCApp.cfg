SPECIFICATION ClientsSpec
CONSTANTS
    olena = olena
    u1 = u1   u2 = u2
    c1 = c1   c2 = c2   w1 = w1
    l1 = l1   k1 = k1
    Accounts = {olena}
    UserIds = {u1, u2}
    Links = {l1}
    Codes = {k1}
    Requests <- AppRequests
    Kinds <- AppKinds
    Start <- NoUser
    LinkTTL = 0
    CodeTTL = 0
    RefreshTTL = 1
    AccessTTL = 1
    MaxNow = 0
    Flaky = FALSE
    Unborn = unborn   Removed = removed   None = none
    Calls = {c1, c2}
    Uploads = {w1}
    MaxSent = 2
    ChanCap = 1
    Lives = 2
INVARIANTS
    AppTypeOK ToldTruth LinkRegistersOnce UrlServesWholeFile LossIsBounded
PROPERTIES
    UpdateIsAnswered ShutdownEnds
