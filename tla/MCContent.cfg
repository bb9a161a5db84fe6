SPECIFICATION ContentSpec
CONSTANTS
    Replicas = {r1, r2}
    Clients = {c1, c2}
    Extensions = {e1}
    Stamps = {s1, s2}
    NoBundle = none
    MaxRequests = 2
    MaxFaults = 2
    Kernels = {"", "6.18"}
    Images = {"signed", "unsigned"}
    SignedImages = {"signed"}
    MaxRestarts = 1
SYMMETRY Symmetry
INVARIANTS
    TagIsSigned
    ReadBackFinds
    VEXIsVerified
    KeyNamesAsset
    KeySurvivesRestart
    LinksResolve
CHECK_DEADLOCK FALSE
