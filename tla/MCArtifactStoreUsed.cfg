SPECIFICATION Spec
CONSTANTS
    Callers = {c1, c2}
    old = old
    new = new
    forged = forged
    kernel = kernel
    initramfs = initramfs
    NoFile = NoFile
    Torn = Torn
    Images = {old, new, forged}
    Signed = {old, new}
    Parts = {kernel, initramfs}
    PartsOf <- MCPartsOf
    MaxRequests = 1
    MaxRetags = 0
    MaxFaults = 0
INVARIANTS
    UsedWhenExtracted
CHECK_DEADLOCK FALSE
