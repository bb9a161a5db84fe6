SPECIFICATION Spec
CONSTANTS
    Replicas = {r1, r2}
    MaxRestarts = 1
INVARIANT KeyIsStable
CHECK_DEADLOCK FALSE
