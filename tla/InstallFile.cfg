CONSTANTS
    Writer = {w1, w2}
    Loader = {l1}
    MaxWrites = 3
    MaxCrashes = 1
SPECIFICATION Spec
SYMMETRY WriterSymmetry
INVARIANTS DestinationWhole SuccessIsDurable ResultIsTrue OnlyCrashLeavesTemporary
CHECK_DEADLOCK FALSE
