SPECIFICATION FairSpec
CONSTANTS
    Replicas = {r1, r2}
    Ids = {i1}
    Clients = {c1, c2}
    MaxCalls = 3
    MaxFaults = 1
INVARIANTS
    StoredBehindPromise
    ConfirmedStaysFound
    PutNeverMissing
PROPERTIES
    ImplementsRegister
    CallsAnswered
    EventuallyVisible
CHECK_DEADLOCK FALSE
