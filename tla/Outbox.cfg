SPECIFICATION FairSpec
CONSTANTS
    Event = {e1, e2}
    Pod = {p1, p2}
    Caller <- TimersAndRequest
    PodOf <- OwnPod
    BatchSize = 2
    MaxFaults = 2
INVARIANTS PublishedWasDelivered FlagIsHeld InOrderWithoutFaults
PROPERTIES EventuallyPublished
CHECK_DEADLOCK FALSE
