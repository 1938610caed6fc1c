SPECIFICATION ReportsSpec
CONSTANTS
    b1 = b1
    i1 = i1
    m1 = m1
    c1 = c1
    Bill = {b1}
    Invoice = {i1}
    Movement = {m1}
    Copy = {c1, c2}
    MaxTopic = 3
    MaxRestarts = 1
    MaxErrors = 1
    Amount <- MCAmount
    DateOf <- MCDateOf
    Receipt = {}
    Old = {b1}
CONSTRAINT OneCopy
INVARIANTS TypeOK AtMostOnce OneAnswer NoDanglingReversal ReadIsApplied  ReportsAgree AnswerIsInTheBooks
CHECK_DEADLOCK FALSE
