CONSTANTS
    img1 = img1
    img10 = img10
    guider = guider
    wavefront = wavefront
    stray = stray
    NoTarget = NoTarget
    Image = {img1, img10}
    Location = {guider, wavefront}
    DaqLocation = {guider, wavefront}
    BadPattern = {}
    Target = {archiver}
    Sensors <- MCSensors
    Prefixed <- MCApart
    Faults = {}
    Live = TRUE
    Lists <- MCWhole
    MaxCopies = 1
    MaxMessages = 6
    MaxCrashes = 0
SPECIFICATION FairSpec
INVARIANTS
    HeaderKeyHasFile
PROPERTIES
    ForgottenOnlyWhenDelivered
    HandlerRunsOut
    HandlerReturns
    ReadyIsDelivered
CHECK_DEADLOCK FALSE
