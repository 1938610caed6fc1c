SPECIFICATION FairSpec
CONSTANTS
    Bill = {b1}
    Caller = {timer}
    BatchSize = 2
    MaxCopies = 1
    MaxLists = 1
    MaxTopic = 12
    MaxCrashes = 0
    MaxFailures = 0
    MaxFaults = 1
    MaxRestarts = 0
    MaxErrors = 0
CHECK_DEADLOCK FALSE
INVARIANTS BooksAgree NoBillWaits
PROPERTIES ReversalSettles
