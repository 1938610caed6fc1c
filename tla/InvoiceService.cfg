SPECIFICATION Spec
CONSTANTS
    Invoice = {i1}
    Receiver = {i1}
    Lines <- TwoLines
    Pod = {p1}
    Request = {r1, r2, r3, r4, r5}
    MaxSends = 2
    MaxCrashes = 2
    MaxFailures = 1
INVARIANTS SentWasShipped ReversalExcludes AnsweredIsSettled
PROPERTIES Lifecycle
SYMMETRY RequestSymmetry
CHECK_DEADLOCK FALSE
