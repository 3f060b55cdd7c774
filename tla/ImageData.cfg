CONSTANTS
    Ccd = {0, 1}
    Segments = 2
    Quanta = 2
    MaxSources = 3
    Lists <- MCLists
    Registers <- MCRegisters
    Lengths <- MCLengths
SPECIFICATION Spec
INVARIANTS
    WithinArray
    FilesHoldImage
    AxesFit
CHECK_DEADLOCK FALSE
