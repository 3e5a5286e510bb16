CONSTANTS
    t1 = t1
    t2 = t2
    r1 = r1
    r2 = r2
    Thread = {t1}
    Resource = {r1, r2}
    InvalidResource = bad
    MaxOp = 3
    AccessInputs <- MCHostAccesses
    PollMayThrow = FALSE
    AllocMayFail = TRUE
    HostAccess = FALSE
SPECIFICATION Spec
INVARIANTS AcquisitionAtomic
CHECK_DEADLOCK FALSE
