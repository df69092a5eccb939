\* An order that may be filled in parts, or a single-fill order whose nonce another
\* order may take, is reconciled while its chain is rewritten; three takers fill an
\* order in parts.
SPECIFICATION Spec
CONSTANTS
    Making = 2
    Funds = {0, 2}
    MaxHeight = 3
    MaxBlocks = 4
    t1 = t1
    t2 = t2
    t3 = t3
    Takers = {t1, t2, t3}
    OrderMaking = 4
    TakingAmount = 7
    MaxFunds = 6
    MaximumTakingAmount <- MCMaximumTakingAmount
INVARIANTS
    VerdictIsTrue
    ChainDecides
    MakerIsPaid
    PreparedFillSucceeds
PROPERTIES
    EndIsFinal
