CONSTANTS
    img1 = img1
    img10 = img10
    guider = guider
    wavefront = wavefront
    stray = stray
    NoTarget = NoTarget
    Image = {img1}
    Location = {guider, wavefront}
    DaqLocation = {guider, wavefront}
    BadPattern = {}
    Target = {archiver}
    Sensors <- MCSingle
    Prefixed <- MCApart
    Faults = {"daq", "write", "header", "format", "send", "barrier", "unseen"}
    Live = TRUE
    Lists <- MCWhole
    MaxCopies = 1
    MaxMessages = 6
    MaxCrashes = 0
SPECIFICATION Spec
INVARIANTS
    TypeOK
    AnnouncedIntact
    EveryFileAccountedFor
    NothingLeftReady
    RegisteredAreOnDisk
PROPERTIES
    LocalCopyOutlivesTransfer
    HandlerRunsOut
CHECK_DEADLOCK FALSE
