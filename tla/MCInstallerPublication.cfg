SPECIFICATION Spec
CONSTANTS
    Replicas = {r1, r2}
    Clients = {c1, c2}
    Digests = {d1, d2}
    NoDigest = none
    Platforms = {amd64, arm64}
    WithEvidence = TRUE
    MaxRequests = 2
    MaxFaults = 1
SYMMETRY Symmetry
INVARIANTS
    SignatureIsCompletion
    PromotedIsComplete
    RedirectIsComplete
CHECK_DEADLOCK FALSE
