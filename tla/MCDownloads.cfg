SPECIFICATION DownloadsSpec
CONSTANTS
    Replicas = {r1, r2}
    Clients = {c1, c2}
    Contents = {d1, d2}
    NoContent = none
    WithS3 = TRUE
    MaxRequests = 3
    MaxFaults = 2
    Users <- MCUsers
    TokenClaims <- MCTokenClaims
    Credentials <- MCCredentials
    Files <- MCFiles
    Tabs = {"t1", "t2"}
    MaxFlows = 3
SYMMETRY Symmetry
INVARIANTS
    ReadIsSigned
    RebuildRepairs
    SignaturesBounded
    OwnerOnly
    ScopesBound
    NeverCached
    AuditMatches
    ScriptWorks
    BouncesHaveCauses
CONSTRAINT Bounded
CHECK_DEADLOCK FALSE
