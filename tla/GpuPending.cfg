SPECIFICATION SpecGpu
CONSTANTS
    Wrapper = {x, y}
    Fresh = {}
    CopyOf <- MCCopyOf
    Shapes <- MCShapes
    Stored = {0}
    Steps <- MCStepSet
    MaxWord = 7
    MaxObject = 2
    MaxOperations = 4
    MaxElement = 4
    Programs <- MCPrograms
INVARIANTS DeviceMemoryAlive PublishedIsComputed DoneHoldsNothing
PROPERTY ResultIsFinal
CHECK_DEADLOCK FALSE
