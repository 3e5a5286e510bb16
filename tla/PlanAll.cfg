CONSTANTS
    OpNodes <- MCOpNodes
    ShapeNodes <- MCShapeNodes
    Devices = {"host", "gpu"}
    OptionSets <- MCAllOptions
    MaxProtected = 1
    BarrierNodes = 4
    Obliged <- MCObliged
SPECIFICATION Spec
INVARIANTS BuildAcceptsItself ReadsAreAvailable ReadsSeeTheirValueUnlessBoth
PROPERTIES RetainedValuesStay
CHECK_DEADLOCK FALSE
