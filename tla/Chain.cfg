SPECIFICATION FairSpec
CONSTANTS
    Plans = {1, 2, 3}
    Known = {1, 2, 3, 9}
    Orders <- MCOrders
    IPlans <- MCIPlans
    Leases <- MCLeases
    Controls = {TRUE, FALSE}
INVARIANTS AncestorsReconciled NoPlanPassedOver LedgerTruthful
PROPERTY ChainEnds
CHECK_DEADLOCK FALSE
