SPECIFICATION StorageSpec
CONSTANTS
    Wrapper = {x, y}
    original = original
    copy = copy
    other = other
    Fresh <- MCFresh
    CopyOf <- MCCopyOf
    Shapes <- MCShapes
    Stored = {0}
    Steps <- MCStepSet
    MaxWord = 7
    MaxObject = 2
    MaxOperations = 5
INVARIANT ViewsDenote
PROPERTIES ReservedIsStable WritesStayApart
CHECK_DEADLOCK FALSE
SYMMETRY WrapperSymmetry
