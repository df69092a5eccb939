\* A maker whose preparations overlap.
SPECIFICATION MakerSpec
CONSTANTS
    parts = parts
    whole = whole
    twin = twin
    MakerOrders = {parts, whole}
    MakingAmount <- MCMakingAmount
    Regime <- MCRegime
    Nonce <- MCNonce
    MaxUint = 5
    ZeroFirst = FALSE
    Careful = FALSE
    MaxAttempts = 2
INVARIANTS
    KnownOrdersAreCovered
\* Every order may have been made or refused.
CHECK_DEADLOCK FALSE
