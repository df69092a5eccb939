------------------------------- MODULE ExactSpend -------------------------------
(***************************************************************************)
(* The five exact-spend actions (packages/operations/src/actions.ts), pure *)
(* functions of what a caller hands over. A request holds the profile, its *)
(* inputs (in), account, receiver, deadline and the permit of its funding, *)
(* if one is signed; its amounts are those of its funding proofs.          *)
(***************************************************************************)
EXTENDS Integers, Sequences

CONSTANTS
    MaxUint256,
    FreshFor    \* seconds a preparation can be finalized

Exact(amount) == amount \notin {0, MaxUint256}

\* What a profile requires of its inputs, what the account funds it with and
\* the phase of the pool it belongs to.
MintCollateralIn(in) ==
    [accepts |-> in.fee = 0 /\ in.minShares # 0,
     funding |-> <<<<"collateral", in.assets>>>>, spends |-> "all", phase |-> "pre-expiry"]

MintPairedSharesOut(in) ==
    [accepts |-> /\ Exact(in.shares) /\ Exact(in.preview) /\ Exact(in.most)
                 /\ in.fee = 0 /\ in.preview <= in.most,
     funding |-> <<<<"collateral", in.preview>>>>, spends |-> "cost", phase |-> "pre-expiry"]

RepurchaseCollateralInForSwap(in) ==
    [accepts |-> /\ in.assets # 0 /\ in.rate # 0 /\ in.fee # 0
                 /\ in.available >= in.required,
     funding |-> <<<<"collateral", in.assets>>>>, spends |-> "all", phase |-> "pre-expiry"]

UnwindCollateralOut(in) ==
    [accepts |-> /\ Exact(in.assets) /\ Exact(in.preview) /\ Exact(in.most) /\ Exact(in.quantum)
                 /\ in.preview <= in.most /\ in.preview % in.quantum = 0,
     funding |-> <<<<"cpt", in.preview>>, <<"cst", in.preview>>>>,
     spends |-> "cost", phase |-> "pre-expiry"]

RedeemPrincipalTokenIn(in) ==
    [accepts |-> Exact(in.shares) /\ (in.minReference # 0 \/ in.minCollateral # 0),
     funding |-> <<<<"cpt", in.shares>>>>, spends |-> "all", phase |-> "post-expiry"]

Terms(request) ==
    CASE request.profile = "mint-collateral-in" -> MintCollateralIn(request.in)
      [] request.profile = "mint-paired-shares-out" -> MintPairedSharesOut(request.in)
      [] request.profile = "repurchase-collateral-in-for-swap" ->
            RepurchaseCollateralInForSwap(request.in)
      [] request.profile = "unwind-collateral-out" -> UnwindCollateralOut(request.in)
      [] request.profile = "redeem-principal-token-in" -> RedeemPrincipalTokenIn(request.in)

\* The pool as the manifest of a deployment binds it.
Usable(pool) == pool.ownManager /\ pool.unpaused /\ pool.adapterWhitelisted

PoolPhase(pool, time) == IF time < pool.expiry THEN "pre-expiry" ELSE "post-expiry"

\* The context of a request at a time, for an active deployment.
ContextAccepted(request, deployment, time) ==
    /\ Usable(deployment.content)
    /\ request.receiver \notin {"adapter", "zero"}
    /\ request.deadline > time

\* Its funding proofs are those of the profile, and exact.
FundingAccepted(funding) ==
    funding # <<>> /\ \A i \in DOMAIN funding : Exact(funding[i][2])

PreparesExact(request, deployment, time) ==
    /\ ContextAccepted(request, deployment, time)
    /\ Terms(request).accepts
    /\ PoolPhase(deployment.content, time) = Terms(request).phase
    /\ FundingAccepted(Terms(request).funding)

\* The artifact, whose digest covers everything it was made of.
ExactArtifact(request, deployment, time, start) ==
    [request |-> request, deployment |-> deployment, at |-> time, start |-> start]

InFreshnessWindow(artifact, time) ==
    /\ time >= artifact.at /\ time <= artifact.at + FreshFor
    /\ time < artifact.request.deadline

\* A Safe executes by a wrapper of its own, which the caller supplies; another
\* account by none.
WrapperAccepted(request, wrapper) ==
    IF request.account = "safe"
    THEN wrapper.kind = "safe" /\ wrapper.address = "own"
    ELSE wrapper = [kind |-> "externally-owned-account"]

ExactExecution(artifact, wrapper) ==
    LET terms == Terms(artifact.request) IN
    [artifact |-> artifact, wrapper |-> wrapper,
     funded |-> terms.funding[1][2], spends |-> terms.spends, phase |-> terms.phase,
     permits |-> artifact.request.permits, deadline |-> artifact.request.deadline]

-----------------------------------------------------------------------------
(* reconcileExactSpendAction(), of evidence that two observations agree on. *)

\* Nothing was left in the adapter, or taken from it.
ResidualsPreserved(execution, evidence) ==
    /\ evidence.start = execution.artifact.start
    /\ evidence.end = evidence.start

\* Fault: it is not asked whether the block is final.
Unsettled_Included(evidence) == evidence.status = "pending"

Unsettled(evidence) == evidence.status = "pending" \/ ~evidence.finalized

ExecutedStatus(execution, evidence) ==
    IF ~ResidualsPreserved(execution, evidence) THEN "conflict"
    ELSE IF evidence.status = "revert" THEN "executed-revert"
    ELSE IF evidence.effects THEN "executed-success" ELSE "conflict"

ReconciledStatus(execution, evidence) ==
    IF evidence.execution # execution THEN "conflict"
    ELSE IF ~evidence.canonical THEN "reorged"
    ELSE IF evidence.status = "not-found" THEN "not-found"
    ELSE IF Unsettled(evidence) THEN "pending"
    ELSE ExecutedStatus(execution, evidence)

Retryable(status) == status \in {"reorged", "not-found", "pending"}
=============================================================================
