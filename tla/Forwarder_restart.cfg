CONSTANTS
    img1 = img1
    img10 = img10
    guider = guider
    wavefront = wavefront
    stray = stray
    NoTarget = NoTarget
    Image = {img1}
    Location = {guider, wavefront, stray}
    DaqLocation = {guider, wavefront}
    BadPattern = {wavefront}
    Target = {archiver}
    Sensors <- MCSensors
    Prefixed <- MCApart
    Faults = {"redis", "daq", "write", "send", "open", "content", "publish"}
    Live = FALSE
    Lists <- MCPart
    MaxCopies = 2
    MaxMessages = 4
    MaxCrashes = 1
SPECIFICATION FairSpec
INVARIANTS
    EveryFileAccountedFor
    AnnouncedDelivered
    ReadyHasTarget
PROPERTIES
    ImplementsTransfer
    HandlerReturns
CHECK_DEADLOCK FALSE
