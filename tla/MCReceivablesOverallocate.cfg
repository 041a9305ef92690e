SPECIFICATION Spec
CONSTANTS
    Workers = {w1, w2}
    ChargeAmounts <- MCOneAmount
    PaymentAmounts <- MCOneAmount
    MaxAllocations = 2
    Account = a1
    None = None
INVARIANT
    NoOverAllocation
CHECK_DEADLOCK FALSE
