CONSTANTS
    Expire = 10
    Update = 3
    Latency = 3
SPECIFICATION Spec
INVARIANTS
    KeyKeptAlive
    KeyGoesAfterClear
CHECK_DEADLOCK FALSE
