SPECIFICATION Spec
CONSTANTS
    Bill = {b1}
    Caller = {timer}
    BatchSize = 2
    MaxCopies = 2
    MaxLists = 1
    MaxTopic = 12
    MaxCrashes = 1
    MaxFailures = 1
    MaxFaults = 1
    MaxRestarts = 1
    MaxErrors = 0
CONSTRAINT FewCommands
INVARIANT PostedOnce
INVARIANT RevertedHasStorno
INVARIANT NotPaidAndReversed
PROPERTY ImplementsReversal
CHECK_DEADLOCK FALSE
