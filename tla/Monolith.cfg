CONSTANTS
    Bill = {"b1", "b2"}
    Request = {1, 2, 3, 4, 5, 6}
    Entered = {"43", "18"}
    Scene <- Scenes
    MaxRefreshes = 1
    MaxCrashes = 1
    MaxFailures = 1
SPECIFICATION Spec
INVARIANT StornoOfOne
INVARIANT SnapshotIsJournal
INVARIANT BooksAgree
CHECK_DEADLOCK FALSE
