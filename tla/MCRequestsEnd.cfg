SPECIFICATION MCSpec
CONSTANTS
    r1 = r1
    r2 = r2
    c1 = c1
    c2 = c2
    d1 = d1
    d2 = d2
    none = none
    earlier = earlier
    later = later
    forged = forged
    torn = torn
    kernel = kernel
    initramfs = initramfs
    Callers = {c1, c2}
    Versions <- MCVersions
    Rejected = {}
    Recheck = 1
    FetchTimeout = 1
    MaxTime = 3
    MaxRequests = 1
    MaxFaults = 1
INVARIANTS
    AnswersRecent
    DestinationWhole
PROPERTIES
    AllRequestsEnd
CHECK_DEADLOCK FALSE
