CONSTANTS
    OpNodes <- MCChainOpNodes
    ShapeNodes <- MCOneShape
    Devices = {"host", "gpu"}
    OptionSets <- MCBothOptions
    MaxProtected = 0
    BarrierNodes = 0
    Obliged <- MCNoObligations
SPECIFICATION Spec
INVARIANTS ReadsSeeTheirValue
CHECK_DEADLOCK FALSE
