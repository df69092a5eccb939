# TLA+ models of cork-mcp

TLA+ modules, TLC configurations and TLAPS proofs for the stateful core of this
repository: a gateway that prepares unsigned Safe and limit-order artifacts for
the Cork protocol, submits signed orders upstream at most twice, and serves
only capabilities an operator has activated.

Everything is translated from the source. `PROJECT.json` maps each definition
to the lines it stands for, lists the runs, the faults each property catches
(`mutants`), the hazards of the code and the theorems.

## How to run

    tlc -workers 2 -config Submission.cfg MCSubmission   # PROJECT.json names the module of each cfg
    tlapm Submission_proof.tla

The proofs are in eight modules: `Submission_proof`, `ReleaseRuntime_proof`,
`Gateway_proof` (the controls and the router), `LimitOrders_proof` (the four questions
about limit orders), `MarketUniverse_proof`, `AccountActions_proof`,
`MarketCreation_proof`, and `SumTheorems`, the lemmas on sums that two of them cite.
Each inductive invariant was checked with TLC on the run of its component before
it was proved.

A run may look at parts that share no state: a module that EXTENDS both
(`MCTrafficControls`, `MakerClient`, `MCLimitOrders`, `AccountActions`) chooses one of
them at the start, which moves while the other rests. Nothing is lost by it,
since neither reads or writes what the other has. The parts of `ToolRouter` and of
`MarketUniverse`, in contrast, interact, and those of `MarketCreation` share a chain.

Type invariants of modules that have proofs are proved and not run again.

## The system

| Part | State it keeps | Operations | Interacts with |
| --- | --- | --- | --- |
| Submission service (`gateway/src/submission.ts`, `submission-store.ts`) | one durable record per submission key: version, state, dispatch phase, attempts, lease, exact result, evidence | `submit`, `reconcile` | repository (compare-and-set), upstream adapter, clock; several instances share the repository |
| Release controller and runtime (`gateway/src/release-controller.ts`) | operator intents; the current callable snapshot | `activate`, `evaluate`, `deactivate`, `refresh`, `clear`, `snapshot` | evidence roots, package candidate, health producer, capability inventory |
| Controls (`gateway/src/controls.ts`) | admitted work by principal and globally; credential and revocation caches | `admit`, `release`, `authenticate`, `isRevoked` | router |
| Router (`gateway/src/router.ts`, `capability-catalog.ts`) | none of its own; one run per call | `call` | controls, capability inventory, tool handlers |
| Capability maturity (`operations/src/capabilities.ts`) | none | maturity evaluation, inventory validation | release controller, router |
| Quorum and freshness (`operations/src/quorum.ts`) | none | establish a quorum, check freshness | every operation that reads the chain |
| Limit orders (`operations/src/limit-orders.ts`, `limit-order-lifecycle.ts`, `operations-node/src/limit-order-inventory.ts`) | none; artifacts are held by the caller | make, submit, take, cancel, reconcile | submission service, maker inventory, quorum |
| Kernel and actions (`operations/src/kernel.ts`, `actions.ts`) | none; artifacts are held by the caller | prepare, finalize and reconcile a transaction | quorum, evidence, simulation, Safe artifacts |
| Evidence roots (`operations/src/evidence.ts`) | none; chains of signed generations | verify roots, continuity | release controller, all operations |
| Verified market (`operations/src/verified-market.ts`) | none | verify a market, reconstruct the universe of markets | quorum, evidence, Phoenix observation |
| Safe artifacts (`operations/src/safe.ts`) | none; artifacts are held by the caller | authorize messages, create and rebuild a wrapper | actions, the Safe |
| Market deployment (`operations/src/market-deployment.ts`) | none | quote, prepare, reconcile | quorum |
| Authority, simulation (`operations/src/authority.ts`, `simulation.ts`) | none | validation of single artifacts | kernel |
| Phoenix observation (`operations-node/src`) | none between reads | paged lists, pinned reads of one provider | verified market, quorum |
| Safe market flow (`gateway/src/safe-market*.ts`) | the published package, its files on disk; a fork while it proves | snapshot, build, prove, publish | two providers, a local fork, the file system |
| Signing gate (`crates/signing-gate`) | none | decide on a signing request under a policy | |
| Oracle (`contracts/oracle`) | immutable feeds | rate | |

What is hard about it:

- the submission service: instances interleave at every await; leases expire
  under running calls; processes die between the durable start of an attempt
  and its outcome; answers arrive after the order was settled by someone else;
  the store may refuse a write; clocks disagree;
- the release runtime: evaluation has a side effect (it clears intents), a
  refresh that throws half way has evaluated some capabilities already, and
  the snapshot outlives the decisions it shows;
- the controls and the router: limits with several dimensions, a release for
  every admission on every path, cached answers older than what they answer;
- the pure operations: what they are given was read before, one call at a time,
  by the number of a block that may be replaced, from providers of which some
  may be dishonest, and what they return is used later, perhaps twice;
- the Safe market flow: a snapshot put together of many reads, a fork that calls
  of one process share, and a publication that is two renames.

## Submission

`SubmissionRecord` is the data type: the record of one key, what
`validateSubmissionRecord` accepts, the successor records the handlers write
(`recordWith` and the calls made of it), and the compare-and-set fence.

`Submission` is the service. A call `c` is one invocation of `submit()` or
`reconcile()`, executed by the instance `OwnerOf[c]`. Code between two awaits is
one action; `pc[c]` names the await the call stands at, and `seen[c]`,
`readAt[c]`, `answer[c]` are the local variables that survive it (the record,
the clock value, the upstream's answer). The repository serializes its own
operations, as a single `read`, `createIfAbsent` or `compareAndSet` does.

| Action | Code |
| --- | --- |
| `BeginSubmit`, `CreateFresh`, `CreateFound` | `submit` up to and after `createIfAbsent` |
| `Expire`, `Reclaim` | the two compare-and-sets of `submit` |
| `StartDispatch`, `Send`, `SubmitAnswer`, `Settle`, `MarkAmbiguous` | `#dispatch`, `#markAmbiguous` |
| `BeginReconcile`, `ReadRecord`, `Resume` | `reconcile` up to and after `read` |
| `LapseDispatch`, `ReleaseLease`, `ClaimReconcile` | the three compare-and-sets of `reconcile` |
| `ReconcileAnswer`, `Conclude`, `AuthorizeRetry`, `YieldUnknown` | `#reconcileOwned`, `#releaseUnknown` |
| `Throws` | `recordWith`, where `validateSubmissionRecord` rejects the record it built |
| `Crash`, `CrashAfterWrite`, `Tick` | the environment: a process dies at any await, or when a write has been made and its call has not gone on; time passes |

`Send` and `StartDispatch` are separate actions although no await lies between
them in the code: the compare-and-set takes effect in the repository before the
service learns of it. A write and what its call does next are otherwise one
action, since only the call itself sees the difference, unless its process dies:
that is `CrashAfterWrite`.

A record is validated before it is stored (`Buildable`), and what the adapter
answers is not validated before: its order identifier may be empty, and the
identity of its evidence may be something that has no digest. Then the call throws
and what the upstream answered is lost, until the lease ends and somebody
reconciles. `OnlyBadAnswersThrow` says that nothing else makes a handler throw.

Abstractions: request validation has succeeded (`INVALID_SUBMISSION_REQUEST`
from it changes nothing); digests, upstream results and owners are model
values; of an order identifier counts whether validation passes it, of the identity of
evidence whether it has a digest; descriptive timestamps, evidence digests and
the repository's key are left out. The upstream answers anything at any time:
`SubmitAnswer` and `ReconcileAnswer` choose freely, so no property relies on
what an upstream really knows.

`SubmissionLifecycle` is the abstract specification: the stages of one order and
the number of attempts, without instances, leases, versions or time.
`Submission!FollowsLifecycle` maps the record to it.

### Runs

| Run | Bounds | Question |
| --- | --- | --- |
| `Submission.cfg` | 3 calls, 2 instances, 2 digests, clock to 2, leases of 1, crashes | Does only a bad answer of the adapter make a handler throw? Are keys bound to one request, attempts exclusive, a second one only made after a proof of absence, and then beside no dispatcher within its lease? Are leases respected, is work never orphaned, are verdicts in time stored? |
| `SubmissionRefusals.cfg` | 3 calls, 2 results, a store that may refuse any write, one clock ahead by 1 | Do verdicts agree and last, and does every step follow the life cycle, even so? |

Three calls are enough for a dispatcher, a reconciler and a contender that
interferes with both, and for a second attempt (submit, reconcile, submit). A
third attempt would need five calls; that there is none, for any number of
calls, is `AttemptsExclusive` below. A lease of one tick and a clock of
two lets a lease be granted, expire, and be granted again. Digests, results and the
two calls of one instance are symmetric; other calls are not, because `OwnerOf` tells
them apart. The view (`LiveData`) leaves out what a call held when it ended, but for
what the properties ask of it.
Deadlock is not an error: every call may have returned and the clock be at its
bound.

What they show: no behaviour of these instances violates a property. The
assumptions matter: `LiveLeaseIsRespected`, `RetryAfterDispatch` and
`VerdictInTimeIsStored` need synchronized clocks, `NoOrphanedWork` and `VerdictInTimeIsStored` a store that
makes the writes it can make. They fail, rightly, without them.

### Proofs

`Submission_proof` proves for every set of calls, owners, digests and results,
every clock skew, every lease duration and whether or not the store refuses
writes, unless the table says otherwise:

| Theorem | Statement |
| --- | --- |
| `TypeCorrect` | `Spec => []TypeOK`: types, and every stored record is valid |
| `ThrowsBlameAnswers` | `Spec => []OnlyBadAnswersThrow` |
| `AttemptsExclusive` | `Spec => []AttemptsAreExclusive`: at most two attempts, each made by one call |
| `RefinesLifecycle` | `Spec => Lifecycle!Spec` |
| `OneVerdict` | `Spec => []VerdictsAgree` |
| `OneRequest` | `Spec => []KeyBindsOneRequest` |
| `OneRetry` | `Spec => []ResendOnlyAfterAbsence` |
| `WorkIsNotOrphaned` | `Spec => []NoOrphanedWork`, if the store makes the writes it can make |
| `RetriesFollowDispatch` | `Spec => []RetryAfterDispatch`, if clocks are synchronized |
| `LeasesAreRespected` | `Spec => LiveLeaseIsRespected`, if clocks are synchronized |
| `VerdictsInTimeAreStored` | `Spec => VerdictInTimeIsStored`, if both |

`TypeOK` alone is not inductive: that the record a call stores is valid depends
on what the call holds. `TypeInv` adds `SeenShape` (the shape of `seen[c]` at each
value of `pc[c]`: claimed when about to start, started when sending, and so on)
and `AnswerShape` (which answers lead to which await). `OnlyBadAnswersThrow` and the
refinement follow from it: a store moves the record from a shape that
`SeenShape` fixes to the successor that `PendingWrite` builds, which is valid unless
the answer is at fault.

That attempts are exclusive needs more. `Fence` says the version only grows and
a record is determined by its version: whoever holds a record with the stored
version holds the stored record. `AttemptInv` adds that a started record held by
a call at `send` or later carries the attempt number, that no other call holds
one with the same number, and that attempt numbers never exceed the stored
count. The step that matters is `StartDispatch`: its write raises `attempts`
beyond every number in use, so two dispatchers that started from the same
record cannot both succeed.

The others add one invariant each:

- `SeenOfKey`: whatever a call read of the key has the digest of the stored
  record, and a terminal record it read is the stored one (`RecordStep`: no write
  replaces a terminal record). A verdict is only answered by a call that holds it
  (`ReplyStep`), so verdicts agree.
- `RequestInv`: a call that has decided to act holds a record of its own request;
  one that returned with another was told of a conflict, or asked before there was
  a record.
- `AbsenceInv`: the second attempt is allowed or made (`Cleared`) exactly if one
  call has proved the absence of the first and said so. Only `AuthorizeRetry` makes
  it so, from a record that is not cleared yet, and nothing takes it back.
- `NoOrphanedWork` is inductive with `Fence`: where the store refuses only what it
  cannot write, the call that holds the stored record is not refused.
- `LeaseInv`: a call past a successful claim holds its own lease; one about to take
  over an expired lease saw it expired at a time that has passed.
- `DispatchInv`: a dispatch whose lease is alive holds the stored record. Who could
  have replaced it holds that lease (`WriterHolds`), and is the same call, since the
  attempt is exclusive (`AttemptInv`).

## Release runtime

`ReleaseRuntime` models `ReleaseController` and `AtomicReleaseRuntime`. State:
`intent` (the operator intent store), `current` (the committed snapshot) and a
clock; `lostAt` and `decision` are history, written by the actions and read by
no guard. A release is the tuple of documents a decision is bound to; digests
are equal exactly if documents are, so equality of releases stands for
`sameIntent`.

| Action | Code |
| --- | --- |
| `Activate`, `Evaluate`, `Deactivate` | the controller's three methods; `After` is what an evaluation does to the intent |
| `Refresh` | `AtomicReleaseRuntime.refresh`: every release evaluated, the inventory committed whole |
| `RefreshThrows` | the same, when any evaluation or check throws: intents are already changed, the snapshot is not |
| `Clear`, `Tick` | `clear`, time |

All methods are synchronous, so each is one action. Evidence is whatever a
caller presents, in any order, older documents included. `Fresh` is the test of
`snapshot()`; `Served` is what a reader sees.

| Run | Bounds | Question |
| --- | --- | --- |
| `ReleaseRuntime.cfg` | 2 capabilities, 4 releases: a build without a policy and one with a policy that is staged, active or disabled, 2 generations; age limit 1, clock to 2 | Does a capability become callable only by a standing decision, on active roots? Is a lost decision served for no longer than the age limit, also after a refresh that threw half way? |

The controller treats capabilities independently; two are needed for a refresh
that stops between them. Losing a decision in each of the three ways takes
three releases, looking at a required policy a fourth.

`docs/operators.md` says of deactivation, retirement and emergency disable that
"All three remove callability". In the code they clear the intent; the snapshot
committed before remains what readers are served, up to its age limit, unless it
is refreshed or cleared. `RevocationIsBounded` states what holds.

Proved for all capabilities, releases and age limits: types (`ReleaseTypes`),
`CallableActive`, `CallableDecided`, `RevocationBounded`. The inductive
invariant adds to the types that a standing intent is the last decision, not
undone, for an active release (`IntentStands`), and that a listed capability whose
intent is gone lost it at or after the refresh (`LostAfterRefresh`). The latter
needs that `refreshedAt` is not later than the refresh: the model's assumption
about the caller, who supplies that time.

## Controls

`Credentials` follows one credential through `CredentialControl.authenticate` and
`RevocationCache.isRevoked`. A request runs without interruption up to the await
of the revocation source; the source looks the credential up at some moment
(`LookUp`) before its answer arrives (`Learn`), answers overtake each other, and
the source may fail. `TrafficControls.cfg` takes three requests, a maximum age of 2
and a clock to 4: an old answer, a newer one, and a third request that is served
from the cache either leaves. `RevocationIsBounded` holds because an entry is dated
when the question was asked, which `EntryIsTrue`, a strengthening in the proof,
says; `CredentialTypes`,
`CacheIsTrue` and `RevocationBounded` prove it for any number of requests. The
strengthening (`LookedIsTrue`) is that what the source saw was true at some time
since the question. Entries of different credentials do not interact, so one is
enough.

`WorkAdmission` is `WorkAdmissionController`: `Admit` compares the usage of the
principal, of all and of public traffic with the limits, dimension by dimension,
and charges all three; `Release` gives back once, however often it is called. Both are
synchronous. `TrafficControls.cfg` has five work items of three principals, two of
which hold leases of both classes, in a reserved and an unreserved dimension:
each limit is the one that refuses in some state. `UsageWithinLimits` and
`ReserveAvailable` are proved for all items, costs and limits; what makes the
reserve work is that public usage is at most the global limit less the reserve.
Numbers are unbounded in the model; the code admits non-negative safe integers
and its sums stay below the limits plus one cost.

`UsageIsOfLeases` proves `UsageIsHeld`: each of the three usages is the sum of the costs
of the leases held, so no sequence of admissions, refusals and repeated releases
makes them drift. The invariant (`HeldInv`) adds that finitely many leases are held,
which holds because an admission adds one. It rests on `SumTheorems`. The library
defines `SumFunctionOnSet` by recursion over subsets; `SumWith` and `SumWithout` say
what one element more or less changes, `SumIsMonotone` and `SumOfEqual` compare two
sums. Their induction over finite sets is by a smallest counterexample
(`MinimalSubset`), which is first-order and so within the provers' reach.

## Router

`ToolRouter` composes calls of `ToolRouter.call` with `WorkAdmission`, which it
EXTENDS: `Enter` contains `Admit`, and `GiveUp` and `Resume`, the ways out of the `try`
block, contain `Release` (`lease.release()` in its `finally`).

| Action | Code |
| --- | --- |
| `Refuse` | the early returns of `call` before and at the admission |
| `Enter`, `Start` | the admission; then the second look at signal and clock, and the start of handler and timer in `#invoke` |
| `ClientAborts`, `TimerFires`, `HandlerEnds` | what may settle the race of `#invoke` |
| `Resume` | `call` after the await: look again, reply, release |

Between a settled race and `Resume` other callbacks may run. `Enter` and `Start`
are separate because time may pass between the two readings of the clock. A
handler whose call has been answered runs on (`HandlerEnds` after "done"). Which of
the four refusals of tool, scope, capability and arguments a call gets is a free
choice: none of them changes state. The timer is never early and the clock never
goes back.

| Run | Bounds | Question |
| --- | --- | --- |
| `ToolRouter.cfg` | 3 calls, 2 leases, deadlines 1, 2 and none, clock to 3, fairness | Do leases follow calls on every path, are replies true, is no result late, and is an admitted call with a deadline answered although handlers may never end? |
| `RouterFarDeadline.cfg` | 1 call, a deadline beyond the longest delay | Is "request was cancelled" said only to a client that cancelled? **Violated** |

Three calls for two leases let one be refused while others come and go.
Fairness: time passes, a due timer fires and the event loop resumes what is
ready (`Tick`, `TimerFires`, `Start`, `Resume`); nothing is assumed of handlers and
clients. `LeaseWhileInCall` is what a leaked or early released lease violates.

Finding. `setTimeout` replaces a delay above 2147483647 ms by 1 ms, and `#invoke`
does not guard against it. A deadline more than 24.8 days away therefore aborts
the call after a millisecond, as "request was cancelled".

Proved for any calls, costs, limits and deadlines: `CallTypes`,
`LeaseHeldInCall`, `NoSuccessTooLate`, `CallsWithinLimits` (from `UsageWithinLimits`, with
the lemma `RouterImplementsAdmission`: what the router does to the controller are
steps of the controller) and, if `setTimeout` accepts every
deadline as a delay, `RepliesTrue`. The inductive invariant `CallInv` says that the
lease is held exactly in "admitted", "running" and "settled", and relates the
outcome of a race to what happened; `ReplyInv` adds that a timer is never set for
before the deadline. `DeadlineEndsCall` is a liveness property and stays with TLC.

## Limit orders

Modules for four questions about the orders of a maker. The functions of
`limit-orders.ts` are pure: they see only what the caller read before. What can
go wrong lies between the reading and the use, so each module also has the
chain, the order service and the client that calls these functions. What is not
in this repository (the order service, the limit order protocol, the wallet) is
modelled from how the code uses it.

### Maker inventory

`InventoryRead` is what a reading of a maker's inventory promises: a complete
inventory holds every live order that stayed listed while it was enumerated,
with the amounts of one moment of the chain; a reading that fails yields nothing.

`MakerInventory` is `CompleteMakerInventoryAdapter.read`. Its two loops await
once per page and once per order: `ReadPage` and `ReadLastPage` are one turn of the
first loop, `Observe` one turn of the second, and between them the service
accepts, drops and reindexes orders and blocks arrive. The service lists orders
in the order it accepted them, and a cursor names a position in that list; pages
may repeat earlier orders and earlier cursors, and may be cut anywhere.
Validation of the request is left out, it has no effect on state. Any page or
observation may be malformed (`PageUnusable`, `ObservationUnusable`).

`MakerClient.cfg` checks the refinement with three orders, three pages, two
items and one new block: enough for an overlapping page, a conflicting repetition,
both bounds and a head that changes between two observations. `NothingMissed` is
the reason the refinement holds: what is promised is gathered or lies beyond the
cursor. Its counterpart for the second loop, `RecordsAreRight`, is in the proof:
as long as the head is the common block, the records are the live amounts of
what was observed. `ReadingKeepsPromise` proves the refinement for any orders,
amounts, terms and bounds. The view leaves out what a finished reading has
forgotten; orders are symmetric.

### Making orders

`LimitOrderMaker` follows the maker of several orders of one token through
`prepareLimitOrderMaker` and `finalizeLimitOrderMaker`: `ReadInventory` (the promise
of `InventoryRead`), `ReadWallet`, then `PrepareRefused`, `PreparePrerequisite` or
`PrepareDone`; after a prerequisite the allowance is approved, reset first for some
tokens, and the client begins again. Meanwhile takers fill, orders are
cancelled (`prepareLimitOrderCancellation`) and expire, and orders of other tokens
take nonces (`OtherTokenUses`). `MakerClient.cfg` has an
order of three units that may be filled in parts and two single-fill orders
with the same nonce, in a token that wants a reset; at most three units fit its
allowance, so the checked sum overflows. Each order is prepared at most twice.

`AllowanceCoversOrders` and `NoncesOfTokenDiffer` hold for a *careful* client
(`Careful`), which finishes one order before it begins the next and reads
allowance and invalidators after the inventory. The code does not enforce
either. In between a reset and the approval that follows it the listed orders are
not covered: the property says so. An inventory is of one token, while the protocol
keeps the bits of nonces for a maker over all its tokens. So `NoncesOfTokenDiffer`
is about the orders of one token, as what the code compares is. An order of another
token may have the same nonce, which the inventory does not reveal; when it is filled
or cancelled the order of this token dies with it.

Proved (`LimitOrders_proof`) of a careful client, for any orders, amounts, nonces and
largest allowance: `AllowanceAlwaysCovers` and `NoncesOfATokenDiffer`. Also
`CarefulMakersAreCovered`: the sentence of `docs/security.md` quoted below holds for
such a client, of a token that needs no reset. `MakerInv` adds to the types:

- at most one order is not settled (`OneAtATime`), so at most one order outstanding is
  not among those of the service that can be filled (`Open`, which owe `Owed`);
- while an order is prepared, its inventory misses nothing that takers can fill:
  remaining amounts only fall once they were read (`PreparationInv`);
- between the wallet's reading and its use takers lower the allowance and what the
  orders owe by the same amount; `wallet[o].allowance + Owed <= allowance +
  Counted(o)` survives that, while the allowance read alone may be stale;
- a prepared order fits with the rest: `MakingAmount[o] + Owed <= allowance`;
- `Owed <= allowance`, except between a reset and the approval after it (`BeingSet`).

The sums change by one order or by what was filled (`SumTheorems`). The lemma
`ClientIsItsParts` carries what is proved of the two parts over to `MakerClient`, the
module of the run, which composes them.

Finding. `MakerOverlap.cfg` drops that assumption. `docs/security.md` says the
allowance "covers the checked sum of complete Cork-known remaining making
amounts plus the new order"; with two preparations under way neither inventory
has the other order, both are accepted and one allowance is shared by the two.
Neither `finalizeLimitOrderMaker`, which rebuilds the artifact from its own
inputs, nor `submit` looks again.

### Reconciliation

`OrderReconciliation` is `reconcileLimitOrder` and what surrounds it. `Collect` takes
evidence of a canonical block, blocks are appended, replaced (`Reorg`, never below
the final one) and become final, and `Reconcile` classifies the evidence with
what is known of its block then and with any claim of the service. `Status` is the
decision of the code, in its order. `LimitOrders.cfg` has both
invalidators: an order of two units that may be filled in parts, and a
single-fill order whose bit another order may take. Branches of three blocks,
four blocks in all: a fill, a second event and a replacement. Expiry, funds and
invalidation change freely with each block.

`VerdictIsTrue` says that a firm verdict is about a final block and true of it,
`ChainDecides` that the service's claim never changes what the chain decides, and
`EndIsFinal` that filled, cancelled or expired is not taken back by a later
verdict.

Proved, for any amounts and lengths of the branch: `VerdictsAreTrue`,
`TheChainDecides`, `EndsAreFinal`. Along a branch a block `Follows` those below it:
what is dead stays as it is, late stays late, and nothing is filled once it is late
(`ChainInv`). Evidence was a block of the branch (`IsOfChain`), perhaps of one
replaced since; a firm verdict is given only when the block is still there and
final. `VerdictInv` says that the final block of that number bears the verdict out,
which no reorganization takes back and all that follows preserves.

Assumed of the caller: the event in the evidence is the one that ended the order
or else its last fill; balance, allowance and time are those of the block; a
cancellation is sent only for a live order. The code asks for none of these: a
late cancellation, for one, would be reported as cancelled although the order was
filled. The authority checks in front of the function are not
modelled, and neither is the refusal of evidence with another expiry.

### Taking orders

`TakerFills` is `prepareLimitOrderTaker` for several takers of one order. `Prepare`
and `TakerRefused` are the function, `TakerApprove` sends its prerequisite, `Execute` is
the protocol's fill: of at most what is left, at the same rounded share, within
the taker's limit and allowance. The maker's funds change at any time.
`LimitOrders.cfg` has three takers, an order of 4 for 7, and one limit below the
price. Proved for all prices, amounts, limits and takers: `MakerAlwaysPaid` (the
maker gets its price, takers overpay less than a unit per fill) and
`PreparedFillsSucceed`. The proofs rest on two lemmas about the rounded division:
`ShareBounds` and `ShareGrows` (a smaller fill costs no more). Integers are
unbounded, as BigInt is; the protocol's own overflow checks are outside.

## Market universe

`StateQuorum` is `establishPureQuorum`: two observations agree if they are of two
administrations, of the same request and block, and have the same value.
`Administration` is a constant, since it is the caller's word that is believed.

`PhoenixListing` is the loop of `PhoenixClient.#execute`, one action for each way in
which a page can end it (`LastPage`, `PageOverItemBound`, `PageWithoutCursor`,
`NextPage` at a bound or a repeated cursor, `ProjectionFailure`, `SourceResponse`,
`ListingFails`) or not. The service (external) lists and delists items between two
pages and may return any cursor, also one of before.

`VerifiedMarket` is `PinnedProviderReader` (`Pin`, `Ask`, `Answer`, `AnswerFails`) and
`reconstructVerifiedMarket` (`Verified`, `NotVerified`, with `MarketCode` the order of its
checks). Facts are read one by one by the number of a block, which may be replaced
in between. Providers of one administration may be dishonest: they answer anything,
of any block of that number, and what they answer is chosen when it is used. The
21 facts are two: one that never changes and that the source claims, and one
that changes with the block.

`MarketUniverse` composes them as `reconstructVerifiedMarketUniverse` expects it: the
list first, then each pool, then the universe.

| Run | Bounds | Question |
| --- | --- | --- |
| `MarketUniverse.cfg` | 3 pools (one claimed wrongly, one not deployed), 2 pages, 2 items, heights to 2, 4 blocks, 1 honest and 2 dishonest providers, up to 3 sets of observations | Is a verified market true of one block? Does a complete universe miss no material pool? |

Two pages and two items for three pools let each bound be reached; a second branch
of the same height is what a reading by number can mix up; a third set is a
repetition of a fact, of which the later counts.

Proved (`MarketUniverse_proof`) for any pools, providers and bounds: `UniverseTypes`,
`ListingsAreComplete`, `VerifiedMarketsAreTrue`, `UniversesAreComplete`. Of the list, the
invariant is `ReadSoFar`: what was listed all along up to the cursor is in. Of a
market, it is `AgreementIsTrue`: of two observations that agree one is honest,
because the dishonest are of one administration, and so the value is that of the
block both name; `SameBlock`, compared by hash, makes it one block for all facts.
`BlockKnown` says that this block is one there has been.

## Actions

`GenerationEvidence` says which evidence verifies (`verifyGenerationEvidenceRoots`):
which continuity and status go together, how many signatures are needed, that they
are of distinct keys, and that the two roots share no signer. Keepers sign what was
reviewed and promoted (`Publish`); one keeper of each root signs anything
(`OneIsMistaken`). Documents are not withdrawn.

`ExactSpend` and `PairedUnwind` are the pure functions of `actions.ts`: what each
profile requires and funds, the context of a pool, the window of freshness, the
classification of evidence (`ReconciledStatus`, in the order of the code), the
rounding of shares, and the nonces of permits, which come of the identity of the
operation (`OperationId`, from `kernel.ts`). `ActionChain` is the chain and the wallet,
both external: blocks are replaced until they are final, a transaction may revert
or lack its effects, others move the balance of the adapter.

`ActionLifecycle` is the client between them: `PrepareExact` and `PrepareUnwind`, then
`FinalizeExact` and `FinalizeUnwind`, which make the artifact again of the evidence at
hand and compare, `Sent`, `Observe`, and `Agreed` or `NotAgreed`, which are
`reconcileExactSpendAction` with the pairs of observations that a dishonest
administration can bring about. The client may do each again.

`SafeAuthorization` is `safe.ts`: `AuthorizeSafePermitMessages`,
`CreateSafeExecutionWrapper`, `RebuildSafeWrapperForNonce`. The Safe (external) executes
other transactions in between, which may change its owners, and change them
back. A configuration is what the client read of the Safe, perhaps long ago; the
verifier it injects answers for the Safe as it is now. Assumed: configurations
are true readings, and the history of the Safe is not reorganized. Which data a
wrapper carries is not bound to its messages by the code, and is left out; so is
`createSafeCallProposal`, which authorizes nothing.

| Run | Bounds | Question |
| --- | --- | --- |
| `ActionLifecycle.cfg` | 6 exact-spend requests or an unwind of either kind of account (2 artifacts), 2 transactions, heights to 3, 3 blocks, clock to 2; 2 keys of each root, one mistaken; 4 payloads (a generation and a policy, an unreviewed generation, a tombstone). A Safe of 3 authorities and 2 other transactions | Is only what was reviewed finalized? Is what a reconciliation says true for good? Are the shares of an intent consumed once? Can the Safe execute only what its present owners authorized? |

Two artifacts of an intent and two transactions are what consuming twice takes.
Three blocks are a parent, one with the transaction and one that replaces it. The
clock crosses the expiry of the pool. The view leaves out what replaced blocks
hold that no verdict names. The authorities are one, another with an owner
replaced, and one that is not approved; two transactions change and change back.

Proved (`AccountActions_proof`) for any payloads, requests, authorities and lengths of
the chain:

| Theorem | Argument |
| --- | --- |
| `OnlyReviewedIsFinalized` | Active evidence has two distinct signers of the deployment root, of which at most one is mistaken; so its payload was published (`ActiveIsSigned`). Finalization makes the artifact again of such evidence. |
| `IntentConsumesOnce` | Nonces are derived from the intent alone, so two executions of an intent have the same permits; what succeeded up to a block used no nonce twice (`NoncesOnce`, for every block), and so two cannot both have succeeded. |
| `WrappersAreAuthorized` | A wrapper is sound (`IsSound`) at its nonce: its configuration is that of its nonce and its messages verified while that was current. A nonce never comes back: a wrapper that is dead stays dead. |
| `ReconciledIsTrue` | What was executed up to a block goes on in those above it, and what is new there is of a higher number (`Continues`), so that what a canonical block shows up to the final height is in the final block, and stays (`Steady`). Hence what the honest provider claims is true for good (`IsTrue`); of two that agree one is honest, because the dishonest are of one administration (`DishonestAreOne`); and `ReconciledStatus` says no more than the claim. |

## Market creation

`MarketDeployment` is `market-deployment.ts`: validation of the release's documents and
of the quote, the facts (`FactCode`: agreed upon, of one block, in the relations
that the build expects), `PrepareMarketDeployment`, and
`ReconcileMarketDeployment` with `DeploymentStatus` as the order of its checks. The
client (external) sends what is left and hands over the receipts that the chain
has, as they are then. The sixteen facts are two: the wrapper found, which the
deployment itself changes, and all others. The registry's transaction is prepared with
the zero address as sender, and its receipt must carry the same: no receipt of a chain
does, so the caller must have put it there (`Senders`); a receipt handed over as
the chain has it is refused.

`SafeMarketPackage` is the preview of `safe-market.ts`: the snapshot, of which each
part is read by the number of the pinned block (`PrepareSafeMarketPreview`), the market
made of it with the bounds of its rate, `proveSafeMarketPackage` step by step on a
fork whose port comes of the process (`SpawnFork` to `Verify`), and
`publishSafeMarketPackage` rename by rename (`StageManifest` to `RemoveBackup`), with
failures and the death of a process at any step.

The fork is of the primary provider alone, which may lie, and its node reads state
when a transaction touches it, by number. So what a fork shows (`Shows`) is a block
of the pinned number that the provider names, and nonce, delay, path and rate each of
any state of the world. A field is chosen once: the node caches what it has read.
The clock of the fork runs on, and the proof neither waits for the delay of the
timelock nor sets the clock: an operation is ready when as much time as its delay has
gone by until the second transaction, at most `MaxWait`, since the requests and the
wait for the receipt in between have timeouts. Whether so much did go by is open; so
is whether the feeds became stale meanwhile (the proof then fails).

`CreationChain` is the chain for both; its states are what others bring about
within a world. `MarketCreation` starts with either a deployment or calls for a
package.

| Run | Bounds | Question |
| --- | --- | --- |
| `MarketCreation.cfg` | A good deployment on 4 blocks, heights to 3, with 2 transactions; 4 bad ones; 2 calls of one process on 3 blocks, of two processes of which one skips the proof on 1 block, and 1 call on 3 blocks; a wait of at most 1 | Are facts of one block? Is what is proven of a deployment so for good? Is the last package never lost? Can one that passed its proof be executed upon what its fork showed? |

Four blocks hold the two transactions and a replacement. Two overlapping
publications are the fewest that can take each other's place. The states of a world
differ in nonce, delay or rate, so that a mixed snapshot and a mixed view of the fork
are possible in each. In the last world delays are 1 and 2: the fork can wait for one of
them, and not for the other.

`PassedCanExecute` relates two readings of the chain: the snapshot, of which the
package is made, and the view of the fork (`shown`), which its proof relied upon. It
says that the latter is of the very block that the package names and enough for the package's
nonce, delay and rate, and that the delay is one that the proof could wait for. It does not
say that this view was true: that is the word of the primary provider, and whoever
signs the package relies on it.

It is stated for calls that are alone on their fork: two calls of one
process share a port, and the second may then prove on the fork of the first (a
hazard in `PROJECT.json`).

Proved (`MarketCreation_proof`) for any providers, starting worlds, calls, ports, waits
and lengths of the chain:

| Theorem | Argument |
| --- | --- |
| `FactsAreOfOneBlock` | Of two providers that agree one is honest, because the dishonest are of one administration (`DishonestAreOne`). What is agreed is then the state of the block both name (`IsFact`), and blocks are never changed, only replaced. |
| `DeploymentVerdictsAreTrue` | What was executed up to a block goes on in those above it (`Continues`), and what is final stays (`Steady`). A verdict without a doubt is given on final receipts and facts (`Reconciled`), so it stays true of the branch. The property is inductive together with `ChainInv`. |
| `PackagesSurvive` | `StagingInv`: a call writes only its own stage, which is whole when it is published. `SurvivalInv`: between the two renames a call keeps the package it moved away, and it removes a backup only when another package is the latest; each call publishes once, so a package it removed does not come back as latest. |
| `PassedPackagesExecute` | `PassedInv`: for a call that is alone on its port, what its fork has shown bears out, step by step, what the package says (`ForkInv`): the block once its hash was compared, the nonce after the next check, the delay after scheduling, that path and wait sufficed after execution. What a passed proof was shown stays (`shown`), as do the blocks the snapshot was read of (`SightKept`). |

Assumed of the constants: `DishonestAreOne`; that the starting worlds consist of states
(`StartsAreStates`, `ChainConstants`); that the names for no fork and for the package of
former times are not names of calls (`PackageConstants`).

What the model made plain, and no property claims: a package with a delay longer than the
proof takes cannot pass, since nothing on the fork lets time pass; a pool receipt that reverted is
a conflict before "pool transaction reverted" can be said, because it has no event;
that the block of the final facts is final is never checked; if the backup cannot
be removed after publication, the call fails although its package is published;
stages and backups of processes that died are never removed; and that the
market is absent cannot fail, since its identity includes the time of the block.

## Left for later

The authority checks of limit orders: an ambiguous submission cannot be reconciled
once its market is retired.

## Not modelled, and why

- Pure checks without state, where nothing happens between two steps: the signing
  gate's decision, the package candidate, simulation attestations, standing Permit2
  authority, the freshness of an observed field, telemetry fields.
- Encoding: canonical JSON, hashing, signatures, ABI, the SQL behind a durable
  repository (its interface is modelled), generated schemas.
- Adapters that decode and format: public tools, live reads, the market registry.
- The oracle's rate: one multiplication and division of 512 bits, beyond the 32-bit
  integers of TLC.
- Demonstration fixtures and the command line.

`PROJECT.json` lists every part with its status.

Known limits of the code that the models show and do not contradict:

- a dispatcher that has durably started attempt 1 and then stalls before its request
  leaves can outlive its lease; a reconciliation may prove absence and authorize
  attempt 2, after which both requests are sent. The record counts two attempts, as
  promised; that they do not take effect twice is left to the upstream
  (`RetryAfterDispatch` says that only a dispatcher that outlived its lease can do so);
- the order identifier and the evidence of the adapter are not validated before they are
  put into a record: an answer with an empty identifier throws and its verdict is
  lost; an adapter that always answers so never settles the order;
- two single-fill orders of one maker in different tokens may be given the same nonce:
  the inventory that is searched for it holds one token;
- neither the release controller nor the verification of evidence remembers an ended
  generation: older active evidence of it is accepted as long as somebody presents it,
  and an action under way when its generation ends needs that older evidence to be
  reconciled;
- a credential's expiry is looked at once, before the revocation source is waited for;
- a handler that ignores its abort signal runs on after its lease went back, beyond
  the admitted concurrency; one without a deadline that never returns keeps its lease;
- an order that was filled in part and then expired is reported as filled in part when
  the evidence names the fill;
- an action that was executed is reconciled as a conflict, for good, when others moved
  the balance of the adapter since it was prepared; one funded by token allowances and
  sent twice executes twice; the time at which a paired unwind is finalized is never
  compared with its deadline.

Out of reach of the prover, and therefore only model-checked: liveness under fairness
(`DeadlineEndsCall` of `ToolRouter`, the one property of a passing run that no theorem
states) with ENABLED, and what recursive definitions compute for every input, apart
from the sums of `SumTheorems`.
