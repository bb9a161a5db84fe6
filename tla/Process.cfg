SPECIFICATION ProcessSpec
CONSTANTS
    Clients = {c1, c2}
    Profiles = {p1, p2}
    NoProfile = none
    AllowedConcurrency = 1
    GetAfterPut = TRUE
    MaxRequests = 2
    MaxFaults = 2
    Askers = {c1}
    Keys = {k1}
    MaxDB = 3
INVARIANTS
    NobodyOrphaned
    ScansUseOpenDB
    StaleResultsCrossed
    StopReleasesDB
    SwapTurnsNoneAway
PROPERTIES
    RequestsEnd
    BuildsLand
    Exits
    ReportsEnd
\* the clients have a bound, and the process exits
CHECK_DEADLOCK FALSE
