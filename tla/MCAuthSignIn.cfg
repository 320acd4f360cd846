SPECIFICATION Spec
CONSTANTS
    olena = olena   taras = taras
    u1 = u1   u2 = u2   u3 = u3
    r1 = r1   r2 = r2   r3 = r3   r4 = r4
    l1 = l1   l2 = l2
    k1 = k1   k2 = k2
    Accounts = {olena, taras}
    UserIds = {u1}
    Links = {l1}
    Codes = {k1, k2}
    Requests = {r1, r2, r3, r4}
    Kinds <- SignInKinds
    Start <- Olena
    LinkTTL = 1
    CodeTTL = 1
    RefreshTTL = 2
    AccessTTL = 1
    MaxNow = 2
    Flaky = TRUE
    Unborn = unborn   Removed = removed   None = none
SYMMETRY RequestSymmetry
INVARIANTS
    NoOrphanSessions SessionsLast SignInNeedsCode
PROPERTIES
    RemovedAreLockedOut
