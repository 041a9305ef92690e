SPECIFICATION Spec
CONSTANTS
    Workers = {w1}
    ChargeAmounts <- MCChargeAmounts
    PaymentAmounts <- MCPaymentAmounts
    MaxAllocations = 3
    Account = a1
    None = None
PROPERTY
    Serial
CHECK_DEADLOCK FALSE
