SPECIFICATION Spec
CONSTANTS
    Bill = {b1}
    Caller = {timer}
    BatchSize = 2
    MaxCopies = 2
    MaxLists = 0
    MaxTopic = 12
    MaxCrashes = 0
    MaxFailures = 0
    MaxFaults = 1
    MaxRestarts = 0
    MaxErrors = 0
CHECK_DEADLOCK FALSE
INVARIANTS NoBillWaits
