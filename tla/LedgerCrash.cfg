SPECIFICATION Spec
CONSTANTS
    Bill = {b1}
    Invoice = {}
    Movement = {}
    Copy = {c1}
    MaxTopic = 3
    MaxRestarts = 1
    MaxErrors = 0
CHECK_DEADLOCK FALSE
INVARIANTS ReplayIsSafe
