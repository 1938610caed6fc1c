SPECIFICATION StockSpec
CONSTANTS
    Mover = {r1, r2, r3}
    Quantity = {1, 2}
    Price = {1, 2}
    Scale = 10
    None = None
    MaxStockCrashes = 1
    MaxStockFailures = 1
INVARIANTS StockIsCovered ValueIsBalance RestartRestores
SYMMETRY RequestSymmetry
CHECK_DEADLOCK FALSE
