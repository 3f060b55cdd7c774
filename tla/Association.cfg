CONSTANTS
    Key = {csc}
    Expire = 3
    KeyTime = 3
    Latency = 3
    Pause = 2
    Wakeup = 1
    MaxStarts = 3
    Faults = {"config", "redis", "publish", "broker", "death"}
    MaxEntries = 3
SPECIFICATION AssociationSpec
INVARIANTS
    LossNoticed
    WokenEnd
    Reachable
CHECK_DEADLOCK FALSE
