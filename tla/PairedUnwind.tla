------------------------------ MODULE PairedUnwind ------------------------------
(***************************************************************************)
(* The unwinding of paired shares (packages/operations/src/actions.ts:     *)
(* preparePairedSharesUnwind, finalizePairedSharesUnwind), pure functions  *)
(* of an intent and of what binds it. An intent holds the identifier of    *)
(* the client, account, receiver, the shares requested and the deadline.   *)
(***************************************************************************)
EXTENDS ExactSpend

CONSTANTS
    Base, MaxDecimals,    \* 10 and 18
    MaxUint64,
    MinWindow, MaxWindow  \* of each kind of account

ShareQuantum(decimals) == Base ^ (MaxDecimals - decimals)

\* The shares that are consumed: all decimals beyond those of the collateral
\* are cut off.
EffectiveShares(requested, decimals) == requested - (requested % ShareQuantum(decimals))

\* Of an active deployment whose pool is as bound; decimals are those read live.
BindingsAccepted(pool, decimals, time) ==
    /\ pool.ownManager /\ pool.unpaused /\ pool.adapterWhitelisted
    /\ time < pool.expiry
    /\ pool.decimals <= MaxDecimals /\ pool.decimals = decimals

InWindow(intent, time) ==
    /\ intent.deadline - time >= MinWindow[intent.account]
    /\ intent.deadline - time <= MaxWindow[intent.account]

PreparesUnwind(intent, deployment, decimals, time) ==
    /\ Exact(intent.shares) /\ intent.minAssets # 0
    /\ intent.deadline <= MaxUint64
    /\ intent.receiver \notin {"adapter", "zero"}
    /\ BindingsAccepted(deployment.content, decimals, time)
    /\ InWindow(intent, time)
    /\ EffectiveShares(intent.shares, decimals) # 0

\* The identity of the operation is that of its intent, whenever it is prepared.
OperationId(intent) == intent

UnwindArtifact(intent, deployment, time, start) ==
    [request |-> intent, deployment |-> deployment, at |-> time, start |-> start]

\* Fault: the nonces are taken from all of the preparation.
AdjacentNonces_OfArtifact(artifact) == {<<artifact, "cpt">>, <<artifact, "cst">>}

\* One nonce and the next, for the two tokens.
AdjacentNonces(artifact) ==
    {<<OperationId(artifact.request), "cpt">>, <<OperationId(artifact.request), "cst">>}

\* Of the permits the account signed.
UnwindExecution(artifact) ==
    [artifact |-> artifact,
     funded |-> EffectiveShares(artifact.request.shares, artifact.deployment.content.decimals),
     spends |-> "all", phase |-> "pre-expiry",
     permits |-> AdjacentNonces(artifact), deadline |-> artifact.request.deadline]
=============================================================================
