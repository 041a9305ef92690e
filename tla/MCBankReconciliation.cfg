SPECIFICATION Spec
CONSTANTS
    r1 = r1
    r2 = r2
    b1 = b1
    b2 = b2
    t1 = t1
    t2 = t2
    Workers = {w1, w2}
    Rows = {r1, r2}
    Batches = {b1, b2}
    Txs = {t1, t2}
    BatchOf <- MCBatchOf
    Fits <- MCFits
SYMMETRY Symmetry
INVARIANTS
    TypeOK
    OneConfirmation
    ConfirmedRowsAreDecided
    CompletedIsResolved
PROPERTY
    ConfirmationsStay
