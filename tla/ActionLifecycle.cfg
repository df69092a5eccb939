\* One request; an unreviewed generation and a tombstone; one keeper of each root signs anything.
\* A Safe that replaces an owner, back and forth.
SPECIFICATION Spec
CONSTANTS
    Payloads <- MCPayloads
    Reviewed <- MCReviewed
    Registered <- MCRegistered
    Mistaken = {"d2", "p2"}
    Administration <- MCAdministration
    Expiry = 2
    Costs = {1, 2}
    MaxTime = 2
    MaxHeight = 3
    MaxBlocks = 3
    MaxSent = 2
    MaxBalance = 1
    MaxUint256 = 7
    FreshFor = 1
    Base = 2
    MaxDecimals = 2
    MaxUint64 = 3
    MinWindow <- MCMinWindow
    MaxWindow <- MCMaxWindow
    ExactRequests <- MCExactRequests
    Intents <- MCIntents
    Wrappers <- MCWrappers
    MaxArtifacts <- MCMaxArtifacts
    Authorities <- MCAuthorities
    Signers <- MCSigners
    MaxNonce = 2
    MaxArtifactsHeld = 3
VIEW LiveData
INVARIANTS
    FinalizedIsReviewed
    VerdictIsTrue
    SharesConsumedOnce
    WrapperIsAuthorized
\* Blocks and transactions run out.
CHECK_DEADLOCK FALSE
