SPECIFICATION Spec
CONSTANTS
    Workers = {w1, w2}
    Spaces = {x1, x2}
    Limit = 1
    MaxHistory = 6
    None = None
INVARIANTS
    TypeOK
    StockMatchesHistory
PROPERTIES
    ImplementsBook
    RequestsEnd
CHECK_DEADLOCK FALSE
