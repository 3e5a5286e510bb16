CONSTANTS
    t1 = t1
    t2 = t2
    r1 = r1
    r2 = r2
    Thread = {t1, t2}
    Resource = {r1}
    InvalidResource = bad
    MaxOp = 2
    AccessInputs <- MCTwoThreadAccesses
    PollMayThrow = FALSE
    AllocMayFail = FALSE
    HostAccess = FALSE
SPECIFICATION FairSpec
PROPERTIES CallsReturn
CHECK_DEADLOCK FALSE
