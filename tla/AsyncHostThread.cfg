CONSTANTS
    t1 = t1
    t2 = t2
    r1 = r1
    r2 = r2
    Thread = {t1}
    Resource = {r1, r2}
    InvalidResource = bad
    MaxOp = 3
    AccessInputs <- MCHostAccesses
    PollMayThrow = TRUE
    AllocMayFail = TRUE
    HostAccess = TRUE
SPECIFICATION Spec
INVARIANTS TypeOK HostAccessSafe
PROPERTIES FailedStateIsFinal
CHECK_DEADLOCK FALSE
