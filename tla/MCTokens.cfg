SPECIFICATION Spec
CONSTANTS
    Replicas = {r1, r2}
    Clients = {c1, c2}
    Accounts = {"a1", "a2"}
    Ids = {t1, t2, t3}
    Bodies <- MCBodies
    MaxPerOrg = 1
    StoredTTL = 1
    EphemeralTTL = 1
    BootstrapTTL = 1
    Leeway = 0
    MaxTime = 2
    MaxFaults = 1
INVARIANTS
    AuthorityNarrows
    RevokedIsRefused
    LimitOverrun
    IssuedIsAccepted
SYMMETRY Symmetry
CONSTRAINT Bounded
CHECK_DEADLOCK FALSE
