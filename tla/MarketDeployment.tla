---------------------------- MODULE MarketDeployment ----------------------------
(***************************************************************************)
(* The deployment of a market by a client                                  *)
(* (packages/operations/src/market-deployment.ts, pure functions): it      *)
(* prepares the deployment of released artifacts from facts that two       *)
(* administrations agree on, sends what is left to send and hands the       *)
(* receipts back, until the deployment is proven.                          *)
(*                                                                         *)
(* A deployment holds the release, the bundle of its schemas, one artifact  *)
(* of each name and the build. A digest stands for what it is of, so that   *)
(* two that are compared are equal or not; bytes that do not decode, or     *)
(* that a schema does not admit, are not admitted. The sixteen facts are    *)
(* two here: the wrapper found for the pair, and all others.                *)
(*                                                                         *)
(* The functions compare no times, so that facts may be of any blocks that *)
(* there have been: each was read while its block was canonical.           *)
(***************************************************************************)
EXTENDS StateQuorum, CreationChain

CONSTANTS
    Deployments,   \* what a client may hand over
    None

\* Of the providers that are not honest, all are of one administration.
ASSUME DishonestAreOne ==
    \A p, q \in DOMAIN Administration \ {"honest"} : Administration[p] = Administration[q]

VARIABLES
    deployment,    \* the one it works on
    prepared,      \* the preparation, with the facts it was made of
    verdict        \* the last reconciliation
deploymentVars == <<deployment, prepared, verdict>>

Facts == {"lookupWrapper", "relations"}

NoReceipts == [i \in 1 .. 2 |-> None]

DeploymentInit(d) ==
    /\ deployment = d
    /\ prepared = None /\ verdict = None

-----------------------------------------------------------------------------
(* What is handed over.                                                    *)

ArtifactNames ==
    <<"attestation", "build", "handoff", "resolvedArtifact", "staging", "unsignedSafeProposal",
      "verdict">>

\* One document of each name, in order, that the release names.
ValidSchemaBundle(bundle, release) ==
    /\ bundle.revision = release.revision
    /\ Len(bundle.documents) = Len(ArtifactNames)
    /\ \A i \in DOMAIN bundle.documents :
        LET document == bundle.documents[i] IN
        document.name = ArtifactNames[i] /\ document = release.schemas[i]

\* What a producer made of the schema of its document.
ValidArtifact(artifact, document) ==
    artifact.schema = document /\ artifact.producer = document.producer /\ artifact.admitted

\* The first call deploys the wrapper of the pair; the second is not looked into.
Calls(build) == <<<<"deploy", build.pair>>, build.poolCall>>

ValidBuild(build) ==
    build.registryCall = Calls(build)[1] /\ build.orderedCalls = Calls(build)

ValidMarketDeployment(d) ==
    /\ ValidSchemaBundle(d.bundle, d.release)
    /\ \A i \in DOMAIN ArtifactNames : ValidArtifact(d.artifacts[i], d.bundle.documents[i])
    /\ ValidBuild(d.build)
    /\ d.artifacts[2].decoded = d.build

\* The quote looks at the handoff alone.
QuoteMarketDeployment(d) ==
    IF ValidSchemaBundle(d.bundle, d.release) /\ ValidArtifact(d.artifacts[3], d.bundle.documents[3])
    THEN [release |-> d.release, handoff |-> d.artifacts[3]] ELSE None

\* It is made again of the deployment.
QuoteBinds(quote, d) == quote # None /\ quote = QuoteMarketDeployment(d)

-----------------------------------------------------------------------------
(* Facts.                                                                  *)

Truth(f, b) ==
    IF f = "lookupWrapper" THEN blocks[b].state.wrapper ELSE blocks[b].state.relations

Values(f) ==
    IF f = "lookupWrapper" THEN {"zero", Expected} ELSE {"built", "broken"}

Observed(provider, f, b, value) ==
    [success |-> TRUE, provider |-> provider, request |-> f, block |-> b, value |-> value]

\* Those of another administration say anything of the blocks that there are.
Observations(f) ==
    {Observed("honest", f, b, Truth(f, b)) : b \in DOMAIN blocks} \cup
    {Observed(p, f, b, v) :
        p \in DOMAIN Administration \ {"honest"}, b \in DOMAIN blocks, v \in Values(f)}

\* What a quorum agrees on.
Agreements(f) ==
    {Binding(pair[1], pair[2]) : pair \in
        {q \in Observations(f) \X Observations(f) : QuorumCode(q[1], q[2]) = "authoritative"}}

\* Fault: each fact may be of another block.
OneBlock_OfEach(lookup, relations) == TRUE

OneBlock(lookup, relations) == lookup.block = relations.block

\* The factory, the wrapper it will deploy and the assets are as in the build.
Related(relations) == relations.value # "broken"

FactCode(lookup, relations) ==
    IF ~OneBlock(lookup, relations) THEN "SAME_BLOCK_REQUIRED"
    ELSE IF ~Related(relations) THEN "FACT_CONFLICT"
    ELSE "resolved"

Resolved(lookup, relations) ==
    [block |-> lookup.block, lookup |-> lookup.value, relations |-> relations.value]

ResolvedFacts ==
    {Resolved(a[1], a[2]) : a \in
        {b \in Agreements("lookupWrapper") \X Agreements("relations") :
            FactCode(b[1], b[2]) = "resolved"}}

-----------------------------------------------------------------------------
(* prepareMarketDeployment() *)

Outcome(facts) ==
    IF facts.lookup = deployment.build.wrapper THEN "existing-wrapper"
    ELSE IF facts.lookup = "zero" THEN "fresh-deployment"
    ELSE "LOOKUP_CONFLICT"

Transactions(outcome) ==
    IF outcome = "fresh-deployment" THEN <<"registry", "pool">> ELSE <<>>

PrepareMarketDeployment(quote) ==
    /\ prepared = None
    /\ QuoteBinds(quote, deployment) /\ ValidMarketDeployment(deployment)
    /\ \E facts \in ResolvedFacts :
        /\ Outcome(facts) # "LOOKUP_CONFLICT"
        /\ prepared' = [outcome |-> Outcome(facts), facts |-> facts]
    /\ UNCHANGED <<chainVars, deployment, verdict>>

-----------------------------------------------------------------------------
(* The client sends what is left, and takes receipts as they are when it     *)
(* hands them over.                                                        *)

Left == IF verdict = None THEN Transactions(prepared.outcome) ELSE verdict.remaining

Deploy(i) ==
    /\ prepared # None /\ i \in DOMAIN Left
    /\ Sending(Left[i])
    /\ UNCHANGED deploymentVars

\* The account that sent the transaction, or the zero address in its place.
Senders == {"account", "zero"}

Receipt(execution, b, sender) ==
    [tx |-> execution.tx, sender |-> sender, block |-> b, number |-> blocks[b].number, parent |-> blocks[b].parent,
     final |-> blocks[b].number <= final, status |-> execution.status,
     events |-> execution.events]

ReceiptsOf(kind) ==
    {Receipt(blocks[branch[p[1]]].done[p[2]], branch[p[1]], p[3]) : p \in
        {q \in (DOMAIN branch) \X (1 .. MaxSent) \X Senders :
            /\ q[2] \in DOMAIN blocks[branch[q[1]]].done
            /\ blocks[branch[q[1]]].done[q[2]].number = q[1]
            /\ sent[blocks[branch[q[1]]].done[q[2]].tx] = kind}}

-----------------------------------------------------------------------------
(* reconcileMarketDeployment() *)

\* No receipts, the registry's, or both.
HandedOver ==
    {NoReceipts}
    \cup {<<r, None>> : r \in ReceiptsOf("registry")}
    \cup (ReceiptsOf("registry") \X ReceiptsOf("pool"))

\* The transaction in a receipt is the one that was prepared: the registry's was
\* prepared of the zero address, so that its sender must have been replaced. The
\* receipt of the pool holds its event.
CanonicalReceipts(handed) ==
    /\ handed[1] # None => handed[1].sender = "zero"
    /\ handed[2] # None => handed[2].sender = "account" /\ handed[2].events = 1

\* No final receipt is younger than the facts.
FactsFollow(handed, facts) ==
    \A i \in 1 .. 2 : handed[i] # None /\ handed[i].final =>
        handed[i].number <= blocks[facts.block].number

PoolFollowsRegistry(registry, pool) ==
    /\ pool.number >= registry.number
    /\ pool.number = registry.number => pool.block = registry.block
    /\ pool.number = registry.number + 1 => pool.parent = registry.block

\* Nothing but the wrapper has changed since the preparation.
FinalFactsAccepted(facts) ==
    /\ facts.relations = prepared.facts.relations
    /\ facts.lookup = deployment.build.wrapper

\* Fault: a receipt is believed before it is final.
Settled_Included(receipt) == receipt # None

Settled(receipt) == receipt # None /\ receipt.final

FreshStatus(registry, pool) ==
    IF ~Settled(registry) THEN "uncertain-registry-outcome"
    ELSE IF registry.status # "success" THEN "conflict"
    ELSE IF pool = None THEN "registry-only-partial"
    ELSE IF ~Settled(pool) THEN "uncertain-registry-outcome"
    ELSE IF registry.events = 0 THEN "repeat-registry-no-event"
    ELSE "fresh-two-step-success"

DeploymentStatus(handed, facts) ==
    IF ~FinalFactsAccepted(facts) THEN "conflict"
    ELSE IF prepared.outcome = "existing-wrapper"
    THEN IF handed = NoReceipts THEN "verified-existing-wrapper" ELSE "conflict"
    ELSE IF ~CanonicalReceipts(handed) \/ ~FactsFollow(handed, facts) THEN "conflict"
    ELSE IF handed[2] # None /\ ~PoolFollowsRegistry(handed[1], handed[2])
    THEN "pool-evidence-mismatch"
    ELSE FreshStatus(handed[1], handed[2])

Remaining(status, handed) ==
    IF status = "uncertain-registry-outcome" /\ ~Settled(handed[1])
    THEN Transactions(prepared.outcome)
    ELSE IF status = "registry-only-partial" THEN <<"pool">>
    ELSE <<>>

\* Of a receipt what is named is its transaction.
Named(handed) == [i \in 1 .. 2 |-> IF handed[i] = None THEN None ELSE handed[i].tx]

\* A conflict says no more.
Verdict(status, handed, facts) ==
    IF status \in {"conflict", "pool-evidence-mismatch"}
    THEN [status |-> status, facts |-> None, receipts |-> NoReceipts, remaining |-> Left]
    ELSE [status |-> status, facts |-> facts, receipts |-> Named(handed),
          remaining |-> Remaining(status, handed)]

\* The preparation is made again of what it was made of.
ReconcileMarketDeployment ==
    /\ prepared # None
    /\ \E facts \in ResolvedFacts, handed \in HandedOver :
        verdict' = Verdict(DeploymentStatus(handed, facts), handed, facts)
    /\ UNCHANGED <<chainVars, deployment, prepared>>

FactsConflict ==
    /\ prepared # None
    /\ verdict' = Verdict("conflict", NoReceipts, None)
    /\ UNCHANGED <<chainVars, deployment, prepared>>

DeploymentProven ==
    verdict # None /\ verdict.status \in
        {"fresh-two-step-success", "repeat-registry-no-event", "verified-existing-wrapper"}

\* The client goes on until the deployment is proven.
DeploymentNext ==
    /\ deployment # None /\ ~DeploymentProven
    /\ \/ \E d \in Deployments : PrepareMarketDeployment(QuoteMarketDeployment(d))
       \/ \E i \in 1 .. 2 : Deploy(i)
       \/ ReconcileMarketDeployment \/ FactsConflict
-----------------------------------------------------------------------------

\* What is prepared or reconciled rests on facts that were true together, at the
\* one block named, whatever the providers of one administration say and
\* whichever blocks were replaced while the facts were read.
FactsHoldAtOneBlock ==
    \A facts \in {p.facts : p \in {prepared} \ {None}} \cup
                ({v.facts : v \in {verdict} \ {None}} \ {None}) :
        /\ facts.lookup = Truth("lookupWrapper", facts.block)
        /\ facts.relations = Truth("relations", facts.block)
        /\ facts.relations # "broken"

Executed(kind, tx, events) ==
    \E i \in DOMAIN blocks[branch[final]].done :
        LET execution == blocks[branch[final]].done[i] IN
        /\ execution.tx = tx /\ sent[tx] = kind
        /\ execution.status = "success" /\ execution.events = events

\* What is said of the client's transactions is so for good: of a deployment that
\* is proven both were executed, the pool was created and, as the verdict says,
\* the wrapper was deployed by the client or was there; of one that lacks the
\* pool, the registry knows the wrapper.
DeploymentVerdictIsTrue ==
    verdict # None =>
        LET registry == verdict.receipts[1]  pool == verdict.receipts[2] IN
        /\ verdict.status = "fresh-two-step-success" =>
            Executed("registry", registry, 1) /\ Executed("pool", pool, 1)
        /\ verdict.status = "repeat-registry-no-event" =>
            Executed("registry", registry, 0) /\ Executed("pool", pool, 1)
        /\ verdict.status = "registry-only-partial" =>
            \E events \in {0, 1} : Executed("registry", registry, events)
        /\ verdict.remaining = <<>> /\ DeploymentProven =>
            verdict.facts.lookup = deployment.build.wrapper
=============================================================================
