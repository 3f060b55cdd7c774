CONSTANTS
    img = img
    guider = guider
    wavefront = wavefront
    NoTarget = NoTarget
    Image = {img}
    Location = {guider}
    Target = {archiver}
    Sensors <- MCSensors
    Prefixed <- MCPrefixed
    Faults = {}
    MaxCopies = 2
SPECIFICATION PixelFetchSpec
INVARIANT
    NoWriterLosesItsFile
CHECK_DEADLOCK FALSE
