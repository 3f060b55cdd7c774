CONSTANTS
    None = None
    Segments = 2
    File <- MCFile
SPECIFICATION Spec
INVARIANT HduVerdictIsRight
CHECK_DEADLOCK FALSE
