CONSTANTS
    Request = {r1, r2, r3, r4}
    Item = {i1}
    Laws <- TwoLaws
    Documents <- SomeDocuments
    Scene <- Scenes
    MaxPolls = 2
    MaxOutages = 1
    MaxCrashes = 1
    MaxFailures = 1
SPECIFICATION Spec
SYMMETRY RequestSymmetry
INVARIANT NothingWithoutBill
INVARIANT OneBillPerItem
INVARIANT PublishedOnce
INVARIANT AcceptedStaysAccepted
CHECK_DEADLOCK FALSE
