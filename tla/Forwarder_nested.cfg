CONSTANTS
    img1 = img1
    img10 = img10
    guider = guider
    wavefront = wavefront
    stray = stray
    NoTarget = NoTarget
    Image = {img1, img10}
    Location = {wavefront}
    DaqLocation = {wavefront}
    BadPattern = {}
    Target = {archiver}
    Sensors <- MCSensors
    Prefixed <- MCNested
    Faults = {}
    Live = TRUE
    Lists <- MCWhole
    MaxCopies = 1
    MaxMessages = 6
    MaxCrashes = 0
SPECIFICATION Spec
PROPERTIES
    ForgottenOnlyWhenDelivered
CHECK_DEADLOCK FALSE
