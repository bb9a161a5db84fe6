SPECIFICATION Spec
CONSTANTS
    Replicas = {r1}
    Clients = {c1}
    Extensions = {e1, e2}
    Stamps = {s1}
    NoBundle = none
    MaxRequests = 2
    MaxFaults = 1
INVARIANTS
    ServedIsComplete
CHECK_DEADLOCK FALSE
