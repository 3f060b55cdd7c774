CONSTANTS
    early = early
    late = late
    damaged = damaged
    Image = {early, late, damaged}
    Corrupt = {damaged}
    Second = 2
    Minute = 4
    Minutes <- MCMinutes
    Delay = 2
    Faults = {"catalog", "redis", "publish"}
    MaxTime = 7
SPECIFICATION Spec
INVARIANTS
    NoImageBetweenScans
SYMMETRY Interchangeable
CHECK_DEADLOCK FALSE
