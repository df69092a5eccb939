----------------------------- MODULE VerifiedMarket -----------------------------
(***************************************************************************)
(* The verification of markets from observations of the chain              *)
(* (packages/operations/src/verified-market.ts: reconstructVerifiedMarket, *)
(* a pure function; packages/operations-node/src/observations.ts:          *)
(* PinnedProviderReader).                                                  *)
(*                                                                         *)
(* The caller reads the facts of a market from providers of two            *)
(* administrations, each fact by a call of its own, at a block it names by *)
(* its number; meanwhile blocks arrive and are replaced, and the market is *)
(* paused and unpaused. It then hands what it has to the pure function,    *)
(* with the claim of the source and the evidence of the deployment.        *)
(*                                                                         *)
(* One administration may be dishonest: its providers answer anything, and *)
(* what they answer is chosen when it is used. The 21 facts are two here:  *)
(* the tuple of a market, which never changes and which the source claims, *)
(* too, and its state, which changes.                                      *)
(***************************************************************************)
EXTENDS StateQuorum, Integers, Sequences, FiniteSets

CONSTANTS
    Pools,
    Providers,     \* of which these are honest
    HonestProviders,
    SourceClaim,   \* tuple of each pool as the source claims it
    Tuple,         \* and as it is
    Tuples,
    Manifest,      \* facts that the deployment generation binds of the pools
                   \* it knows
    Pausable,      \* bounds of the model: the pools whose state changes,
    MaxHeight, MaxBlocks,
    MaxFactSets    \* and the sets of observations handed over

Facts == {"tuple", "state"}
States == {"unpaused", "paused"}

ASSUME MarketConstants ==
    /\ HonestProviders \subseteq Providers
    /\ Administration \in [Providers -> STRING]
    /\ \A p, q \in Providers \ HonestProviders : Administration[p] = Administration[q]
    /\ DOMAIN Manifest \subseteq Pools /\ Pausable \subseteq Pools
    /\ \A p \in DOMAIN Manifest : Manifest[p] \in [Facts -> Tuples \cup States]
    /\ Tuple \in [Pools -> Tuples] /\ SourceClaim \in [Pools -> Tuples]
    /\ MaxHeight \in Nat /\ MaxBlocks \in Nat

VARIABLES
    blocks,        \* all blocks there have been: number and paused pools
    branch,        \* the canonical ones
    pinned,        \* number of the block the caller reads, 0 for none
    subject,       \* the pool it reads
    reads,         \* of each fact by an honest provider
    market         \* the last reconstruction of each pool
marketVars == <<blocks, branch, pinned, subject, reads, market>>

Height == Len(branch)

Paused(b) == blocks[b].paused

\* What a fact of a pool is at a block.
Truth(f, p, b) ==
    IF f = "tuple" THEN Tuple[p]
    ELSE IF p \in Paused(b) THEN "paused" ELSE "unpaused"

Unread == [step |-> "none"]

NoReads == [h \in HonestProviders |-> [f \in Facts |-> Unread]]

NoMarket == [outcome |-> "none"]

MarketInit ==
    /\ \E paused \in SUBSET Pausable : blocks = <<[number |-> 1, paused |-> paused]>>
    /\ branch = <<1>>
    /\ pinned = 0 /\ subject \in Pools
    /\ reads = NoReads
    /\ market = [p \in Pools |-> NoMarket]

-----------------------------------------------------------------------------
(* The chain (external).                                                   *)

\* A block on top of the first n canonical ones: with n = Height a new block,
\* else a branch that replaces the rest.
Extend(n) ==
    /\ n < MaxHeight /\ Len(blocks) < MaxBlocks
    /\ \E paused \in SUBSET Pausable :
        blocks' = Append(blocks, [number |-> n + 1, paused |-> paused])
    /\ branch' = Append(SubSeq(branch, 1, n), Len(blocks) + 1)
    /\ UNCHANGED <<pinned, subject, reads, market>>

-----------------------------------------------------------------------------
(* PinnedProviderReader.read(), whose calls the caller makes.              *)

\* The caller turns to a pool and a block.
Pin(p) ==
    /\ \E n \in 1 .. Height : pinned' = n
    /\ subject' = p
    /\ UNCHANGED <<blocks, branch, reads, market>>

Ask(h, f) ==
    /\ pinned # 0 /\ reads[h][f].step = "none"
    /\ reads' = [reads EXCEPT ![h][f] = [step |-> "asked"]]
    /\ UNCHANGED <<blocks, branch, pinned, subject, market>>

\* An honest provider answers from the canonical block of that number as it is
\* now.
Answer(h, f) ==
    /\ reads[h][f].step = "asked" /\ pinned <= Height
    /\ reads' = [reads EXCEPT ![h][f] = [step |-> "answered", block |-> branch[pinned]]]
    /\ UNCHANGED <<blocks, branch, pinned, subject, market>>

\* It fails, or answers for another number; the caller may ask again.
AnswerFails(h, f) ==
    /\ reads[h][f].step = "asked"
    /\ reads' = [reads EXCEPT ![h][f] = Unread]
    /\ UNCHANGED <<blocks, branch, pinned, subject, market>>

-----------------------------------------------------------------------------
(* reconstructVerifiedMarket(), from what the caller hands over.           *)

Observed(provider, f, block, value) ==
    [success |-> TRUE, provider |-> provider, request |-> <<subject, f, pinned>>,
     block |-> block, value |-> value]

HonestObservations(f) ==
    {Observed(h, f, reads[h][f].block, Truth(f, subject, reads[h][f].block)) :
        h \in {g \in HonestProviders : reads[g][f].step = "answered"}}

\* The answers of the dishonest carry the number that was asked for.
DishonestObservations(f) ==
    {Observed(d, f, b, v) :
        d \in Providers \ HonestProviders,
        b \in {c \in DOMAIN blocks : blocks[c].number = pinned},
        v \in (IF f = "tuple" THEN Tuples ELSE States)}

Observations(f) == HonestObservations(f) \cup DishonestObservations(f)

\* Two observations of a field that a quorum comes of.
Agreements(f) ==
    {pair \in Observations(f) \X Observations(f) :
        QuorumCode(pair[1], pair[2]) = "authoritative"}

FactSets ==
    UNION {{[field |-> f, binding |-> Binding(pair[1], pair[2])] :
             pair \in Agreements(f)} : f \in Facts}

\* Of two sets for a field the later one counts.
Counts(sets, f, i) ==
    sets[i].field = f /\ \A j \in DOMAIN sets : j > i => sets[j].field # f

\* Each field is covered, by one set or more.
Covers(sets) == \A f \in Facts : \E i \in DOMAIN sets : Counts(sets, f, i)

\* Fault: the hash of the block is not compared.
SameBlock_Number(reference, candidate) ==
    /\ blocks[reference.block].number = blocks[candidate.block].number
    /\ reference.providers = candidate.providers

SameBlock(reference, candidate) ==
    /\ reference.block = candidate.block
    /\ reference.providers = candidate.providers

FactValue(sets, f) ==
    sets[CHOOSE i \in DOMAIN sets : Counts(sets, f, i)].binding.value

\* Whether both generations are active, one is not, or their verification fails.
Evidence == {"active", "inactive", "invalid"}

Bound(f) == IF subject \in DOMAIN Manifest THEN Manifest[subject][f] ELSE "nothing"

\* Code of the first check that fails.
MarketCode(sets, evidence) ==
    IF ~Covers(sets) THEN "INPUT_INVALID"
    ELSE IF evidence = "invalid" THEN "EVIDENCE_INVALID"
    ELSE IF evidence = "inactive" THEN "EVIDENCE_INACTIVE"
    ELSE IF \E i \in DOMAIN sets : ~SameBlock(sets[1].binding, sets[i].binding)
    THEN "SAME_BLOCK_REQUIRED"
    ELSE IF FactValue(sets, "tuple") # SourceClaim[subject] THEN "SOURCE_CONFLICT"
    ELSE IF \E f \in Facts : FactValue(sets, f) # Bound(f)
    THEN "DEPLOYMENT_CLAIM_MISSING"
    ELSE "verified"

\* Among others QUORUM_FAILED: of some field no two observations agree.
NotVerified ==
    /\ pinned # 0
    /\ market' = [market EXCEPT ![subject] = [outcome |-> "conflict"]]
    /\ pinned' = 0 /\ reads' = NoReads
    /\ UNCHANGED <<blocks, branch, subject>>

\* The result carries the binding of the first set of observations.
Verified ==
    /\ pinned # 0
    /\ \E n \in Cardinality(Facts) .. MaxFactSets :
       \E sets \in [1 .. n -> FactSets], evidence \in Evidence :
        /\ MarketCode(sets, evidence) = "verified"
        /\ market' = [market EXCEPT ![subject] =
              [outcome |-> "verified", number |-> pinned,
               block |-> sets[1].binding.block,
               facts |-> [f \in Facts |-> FactValue(sets, f)]]]
    /\ pinned' = 0 /\ reads' = NoReads
    /\ UNCHANGED <<blocks, branch, subject>>

-----------------------------------------------------------------------------

Reads == {Unread} \cup [step : {"asked"}] \cup [step : {"answered"}, block : Nat]

\* Types; each canonical block has the number of its place, and an answer is of
\* the number that was asked for.
MarketTypeOK ==
    /\ blocks \in Seq([number : Nat, paused : SUBSET Pools])
    /\ branch \in Seq(Nat)
    /\ \A n \in DOMAIN branch :
        branch[n] \in DOMAIN blocks /\ blocks[branch[n]].number = n
    /\ pinned \in Nat /\ subject \in Pools
    /\ pinned = 0 => reads = NoReads
    /\ reads \in [HonestProviders -> [Facts -> Reads]]
    /\ \A h \in HonestProviders, f \in Facts :
        reads[h][f].step = "answered" =>
            /\ reads[h][f].block \in DOMAIN blocks
            /\ blocks[reads[h][f].block].number = pinned
    /\ DOMAIN market = Pools

\* As long as the dishonest providers are of one administration, a verified
\* market is true: at the one block its observation names, each of its facts is
\* what the chain holds there, and what the source and the deployment say; also
\* when that block was replaced between two observations.
VerifiedIsTrue ==
    \A p \in Pools : market[p].outcome = "verified" =>
        /\ blocks[market[p].block].number = market[p].number
        /\ \A f \in Facts : market[p].facts[f] = Truth(f, p, market[p].block)
        /\ market[p].facts["tuple"] = SourceClaim[p]
        /\ p \in DOMAIN Manifest /\ market[p].facts = Manifest[p]
=============================================================================
