SPECIFICATION Spec
CONSTANTS
    Replicas = {r1}
    Ids = {i1}
    Clients = {c1}
    MaxCalls = 2
    MaxFaults = 1
INVARIANTS
    AcknowledgedIsReferenced
CHECK_DEADLOCK FALSE
