SPECIFICATION Spec
CONSTANTS
    Accounts = {a1, a2}
    ChargeAmounts = {2}
    SourceAmounts = {3}
    Dates = {0, 1}
    MaxCharges = 2
    MaxSources = 2
    MaxAllocations = 3
    None = None
SYMMETRY Symmetry
INVARIANTS
    TypeOK
    NoOverAllocation
    PostedAllocationsAreBacked
    BalanceIsConserved

    
    
CHECK_DEADLOCK FALSE
