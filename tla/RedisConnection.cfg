CONSTANTS
    Command = {set, lpush_nothing}
    Refused = {lpush_nothing}
    Fickle = {set}
    MaxBatch = 3
    MaxExecs = 4
SPECIFICATION Spec
INVARIANTS
    AnswersInStep
PROPERTIES
    FailedForGood
    ImplementsLink
CHECK_DEADLOCK FALSE
