CONSTANTS
    img = img
    guider = guider
    wavefront = wavefront
    NoTarget = NoTarget
    Image = {img}
    Location = {guider, wavefront}
    Target = {archiver}
    Sensors <- MCSensors
    Prefixed <- MCPrefixed
    Faults = {"redis", "daq", "write", "unseen"}
    MaxCopies = 2
SPECIFICATION MCPixelFetchSpec
INVARIANTS
    RegisteredAreComplete
    RegisteredOncePerTask
    RaceLeavesCompleteFile
    NobodyWaitsInVain
PROPERTY
    FetchEnds
CHECK_DEADLOCK FALSE
