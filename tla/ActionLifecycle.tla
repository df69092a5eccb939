----------------------------- MODULE ActionLifecycle -----------------------------
(***************************************************************************)
(* An account's actions from preparation to reconciliation: the artifacts  *)
(* its client holds and hands back to the pure functions of actions.ts,    *)
(* while generations are published and disabled, time passes and blocks    *)
(* are replaced. The client may prepare, finalize and send again whenever  *)
(* it likes.                                                               *)
(*                                                                         *)
(* Evidence of the chain is read through providers of two administrations, *)
(* of which one may be dishonest, for a transaction and a block.           *)
(***************************************************************************)
EXTENDS GenerationEvidence, ActionChain, StateQuorum, ExactSpend, PairedUnwind

CONSTANTS
    ExactRequests, Intents,  \* what the client may ask for
    Wrappers,                \* what it may supply
    MaxArtifacts             \* of each request: bound of the model

ASSUME RequestConstants ==
    /\ \A r \in ExactRequests \cup Intents : r.deadline \in Nat
    /\ MaxArtifacts \in [ExactRequests \cup Intents -> Nat]

\* The two dishonest providers are of one administration.
ASSUME DishonestAreOne == Administration["liar"] = Administration["accomplice"]

VARIABLES
    request,     \* what it asks for
    prepared,    \* the artifact it holds
    finalized,   \* executions that came of one
    evidence,    \* as the honest provider observed it last
    verdict      \* the last reconciliation
actionVars == <<published, chainVars, request, prepared, finalized, evidence, verdict>>

IsUnwind(r) == r \in Intents

Nothing == [status |-> "none"]

ActionInit ==
    /\ EvidenceInit /\ ChainInit
    /\ request \in ExactRequests \cup Intents
    /\ prepared = Nothing /\ finalized = {}
    /\ evidence = Nothing /\ verdict = Nothing

-----------------------------------------------------------------------------

\* The client prepares, and looks, until it has a verdict, and again after one
\* that is retryable.
Undecided == verdict = Nothing \/ Retryable(verdict.status)

Prepares == Undecided /\ Cardinality(finalized) < MaxArtifacts[request]

PrepareExact(deployment) ==
    /\ ~IsUnwind(request) /\ Prepares
    /\ PreparesExact(request, deployment, clock)
    /\ prepared' = ExactArtifact(request, deployment, clock, Latest.balance)
    /\ UNCHANGED <<published, chainVars, request, finalized, evidence, verdict>>

PrepareUnwind(deployment, decimals) ==
    /\ IsUnwind(request) /\ Prepares
    /\ PreparesUnwind(request, deployment, decimals, clock)
    /\ prepared' = UnwindArtifact(request, deployment, clock, Latest.balance)
    /\ UNCHANGED <<published, chainVars, request, finalized, evidence, verdict>>

\* The artifact is made again of the evidence at hand, and must come out the
\* same; the verifier that the caller injects agrees.
FinalizeExact(artifact, deployment, wrapper) ==
    /\ ~IsUnwind(request)
    /\ PreparesExact(artifact.request, deployment, artifact.at)
    /\ ExactArtifact(artifact.request, deployment, artifact.at, artifact.start) = artifact
    /\ InFreshnessWindow(artifact, clock)
    /\ WrapperAccepted(artifact.request, wrapper)
    /\ finalized' = finalized \cup {ExactExecution(artifact, wrapper)}
    /\ prepared' = Nothing
    /\ UNCHANGED <<published, chainVars, request, evidence, verdict>>

FinalizeUnwind(artifact, deployment) ==
    /\ IsUnwind(request)
    /\ PreparesUnwind(artifact.request, deployment, artifact.deployment.content.decimals, artifact.at)
    /\ UnwindArtifact(artifact.request, deployment, artifact.at, artifact.start) = artifact
    /\ finalized' = finalized \cup {UnwindExecution(artifact)}
    /\ prepared' = Nothing
    /\ UNCHANGED <<published, chainVars, request, evidence, verdict>>

\* The wallet sends.
Sent(execution) ==
    /\ Send(execution)
    /\ UNCHANGED <<published, request, prepared, finalized, evidence, verdict>>

-----------------------------------------------------------------------------
(* Reconciliation, of exact-spend actions.                                 *)

\* What is true of a transaction at a block: of one that was replaced, no more
\* than that.
Claim(t, b) ==
    LET done == blocks[b].done
        found == {i \in DOMAIN done : done[i].tx = t}
        nothing == [execution |-> sent[t], tx |-> t, status |-> "not-found",
                    canonical |-> b \in Range(branch), finalized |-> FALSE, effects |-> FALSE,
                    start |-> blocks[b].balance, end |-> blocks[b].balance]
        of(d) == [nothing EXCEPT !.status = d.result, !.finalized = d.number <= final,
                    !.effects = d.effects, !.start = d.start, !.end = d.end] IN
    IF found = {} \/ b \notin Range(branch) THEN nothing
    ELSE of(done[CHOOSE i \in found : TRUE])

Observe(t, b) ==
    /\ ~IsUnwind(request)
    /\ evidence = Nothing /\ Undecided
    /\ evidence' = [status |-> "observed", block |-> b, claim |-> Claim(t, b)]
    /\ verdict' = Nothing
    /\ UNCHANGED <<published, chainVars, request, prepared, finalized>>

Observed(provider, t, b, claim) ==
    [success |-> TRUE, provider |-> provider, request |-> t, block |-> b, value |-> claim]

\* What the dishonest say: the same as the honest one, or that the execution had
\* its effects, or reverted, and is final.
Lies(execution) ==
    {Observed(p, evidence.claim.tx, evidence.block,
        [evidence.claim EXCEPT !.execution = execution, !.status = s, !.canonical = TRUE,
            !.finalized = TRUE, !.effects = (s = "success"),
            !.start = execution.artifact.start, !.end = execution.artifact.start]) :
      p \in {"liar", "accomplice"}, s \in {"success", "revert"}}

Observations(execution) ==
    Lies(execution) \cup
    {Observed(p, evidence.claim.tx, evidence.block, evidence.claim) :
        p \in {"honest", "liar", "accomplice"}}

\* The artifact is made again here, too.
Reconciles(execution, deployment, status) ==
    /\ ~IsUnwind(execution.artifact.request)
    /\ execution.artifact.deployment = deployment
    /\ verdict' = [status |-> status, execution |-> execution,
                   tx |-> evidence.claim.tx, block |-> evidence.block]
    /\ evidence' = Nothing
    /\ UNCHANGED <<published, chainVars, request, prepared, finalized>>

Quorums(execution) ==
    {pair \in Observations(execution) \X Observations(execution) :
        QuorumCode(pair[1], pair[2]) = "authoritative"}

Agreed(execution, deployment) ==
    /\ evidence # Nothing
    /\ \E status \in {ReconciledStatus(execution, pair[1].value) : pair \in Quorums(execution)} :
            Reconciles(execution, deployment, status)

NotAgreed(execution, deployment) ==
    /\ evidence # Nothing
    /\ Observations(execution) \X Observations(execution) # Quorums(execution)
    /\ Reconciles(execution, deployment, "conflict")

-----------------------------------------------------------------------------

Surroundings ==
    /\ \/ (\E p \in Payloads : Publish(p)) /\ UNCHANGED chainVars
       \/ ChainNext /\ UNCHANGED published
    /\ UNCHANGED <<request, prepared, finalized, evidence, verdict>>

ActionNext ==
    \/ Surroundings
    \/ \E d \in ActiveDeployments :
        \/ PrepareExact(d)
        \/ \E n \in 0 .. MaxDecimals : PrepareUnwind(d, n)
        \/ prepared # Nothing /\ FinalizeUnwind(prepared, d)
        \/ \E w \in Wrappers : prepared # Nothing /\ FinalizeExact(prepared, d, w)
        \/ \E e \in finalized : Agreed(e, d) \/ NotAgreed(e, d)
    \/ \E e \in finalized : Sent(e)
    \/ \E t \in DOMAIN sent, b \in DOMAIN blocks : Observe(t, b)

-----------------------------------------------------------------------------

\* Nothing is finalized for a deployment that was not reviewed, though a keeper
\* of each root signs whatever is put before him.
FinalizedIsReviewed ==
    \A e \in finalized : e.artifact.deployment \in published

\* What a reconciliation says of a transaction is true: once it says that it was
\* executed, with its effects and nothing left behind, or that it reverted, that
\* is so for good; that it was not found holds of the block it names.
VerdictIsTrue ==
    LET canonical == blocks[branch[final]].done
        executed(result) ==
            \E i \in DOMAIN canonical :
                /\ canonical[i].tx = verdict.tx /\ sent[verdict.tx] = verdict.execution
                /\ canonical[i].result = result
                /\ canonical[i].start = verdict.execution.artifact.start
                /\ canonical[i].end = canonical[i].start
                /\ result = "success" => canonical[i].effects
    IN
    /\ verdict.status = "executed-success" => executed("success")
    /\ verdict.status = "executed-revert" => executed("revert")
    /\ verdict.status = "not-found" =>
            \A i \in DOMAIN blocks[verdict.block].done :
                blocks[verdict.block].done[i].tx # verdict.tx
    /\ verdict.status = "reorged" => verdict.block \notin Range(branch)

\* However often an intent is prepared, finalized and sent, its shares are
\* consumed once.
SharesConsumedOnce ==
    \A i, j \in DOMAIN Latest.done :
        /\ Latest.done[i].result = "success" /\ Latest.done[j].result = "success"
        /\ IsUnwind(sent[Latest.done[i].tx].artifact.request)
        /\ sent[Latest.done[i].tx].artifact.request = sent[Latest.done[j].tx].artifact.request
        => i = j
=============================================================================
