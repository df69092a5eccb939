\* A reading of an inventory of up to three pages while orders are listed, reindexed
\* and dropped, and blocks arrive; a maker that makes one order after the other.
SPECIFICATION ClientSpec
CONSTANTS
    o1 = o1
    o2 = o2
    o3 = o3
    Orders = {o1, o2, o3}
    Amount <- MCAmount
    Terms = {"open", "filling"}
    MaxPages = 3
    MaxItems = 2
    MaxBlock = 1
    parts = parts
    whole = whole
    twin = twin
    MakerOrders = {parts, whole, twin}
    MakingAmount <- MCMakingAmount
    Regime <- MCRegime
    Nonce <- MCNonce
    MaxUint = 3
    ZeroFirst = TRUE
    Careful = TRUE
    MaxAttempts = 2
VIEW LiveData
SYMMETRY Symmetry
INVARIANTS
    NothingMissed
    AllowanceCoversOrders
    NoncesOfTokenDiffer
PROPERTIES
    ReadsInventory
\* Every order may have been made or refused.
CHECK_DEADLOCK FALSE
