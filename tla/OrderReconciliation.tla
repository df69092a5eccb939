-------------------------- MODULE OrderReconciliation --------------------------
(***************************************************************************)
(* Reconciliation of one limit order                                       *)
(* (packages/operations/src/limit-orders.ts: reconcileLimitOrder, and      *)
(* limit-order-lifecycle.ts: reconcile). The caller collects evidence of a *)
(* block, later learns whether that block is final and still canonical,    *)
(* and obtains the claim of the order service; the pure function then      *)
(* gives one of eleven verdicts. Meanwhile blocks arrive, are replaced and *)
(* become final; the service may claim anything.                           *)
(*                                                                         *)
(* The event of the evidence is the one that ended the order, or else the  *)
(* last fill. A cancellation is sent only for an order that is not dead    *)
(* yet, as prepareLimitOrderCancellation requires.                         *)
(***************************************************************************)
EXTENDS Integers, Sequences, FiniteSets

CONSTANTS
    Making,        \* making amount of the order
    Funds,         \* what the lesser of the maker's balance and allowance may be
    MaxHeight,     \* bounds of the model: blocks of a branch,
    MaxBlocks      \* and of all branches

ASSUME ReconciliationConstants ==
    /\ Making \in Nat \ {0}
    /\ Funds \subseteq Nat
    /\ MaxHeight \in Nat /\ MaxBlocks \in Nat

EventKinds == {"none", "OrderFilled", "OrderCancelled", "BitInvalidatorUpdated"}

\* What the service may claim.
Claims == {"none", "accepted", "rejected", "open", "partially-filled", "filled",
           "cancelled", "expired", "unknown"}

\* Evidence of a block, as far as the order is concerned.
Evidence ==
    [id : Nat, number : Nat,
     remaining : 0 .. Making,
     invalidated : BOOLEAN,
     event : EventKinds,
     late : BOOLEAN,                 \* its time is not before the expiry
     spendable : Funds]              \* the lesser of balance and allowance

VARIABLES
    regime,       \* of the order: "bit" or "remaining" invalidator
    branch,       \* the canonical blocks, the one before the order first
    blocks,       \* number of blocks there have been
    final,        \* number of the last final block
    evidence,     \* collected: a sequence of at most one block
    verdict       \* the last one, with the block it is about
reconciliationVars == <<regime, branch, blocks, final, evidence, verdict>>

Block(n) == branch[n + 1]

Height == Len(branch) - 1

NoVerdict == [status |-> "none", number |-> 0]

ReconciliationInit ==
    /\ regime \in {"bit", "remaining"}
    /\ \E funds \in Funds :
        branch = << [id |-> 0, number |-> 0, remaining |-> Making,
                     invalidated |-> FALSE, event |-> "none", late |-> FALSE,
                     spendable |-> funds] >>
    /\ blocks = 1
    /\ final = 0
    /\ evidence = <<>>
    /\ verdict = NoVerdict

-----------------------------------------------------------------------------
(* The chain (external): what a block may do to the order.                 *)

Dead(b) == b.invalidated \/ b.remaining = 0

Filled(b, amount, c) ==
    /\ ~Dead(b) /\ ~c.late
    /\ amount <= b.remaining /\ amount <= b.spendable
    /\ regime = "bit" => amount = b.remaining
    /\ c.remaining = b.remaining - amount
    /\ c.event = "OrderFilled"
    /\ IF regime = "bit" THEN c.invalidated
       ELSE c.remaining > 0 => ~c.invalidated

Cancelled(b, c) ==
    /\ ~Dead(b)
    /\ c.invalidated
    /\ c.remaining \in {b.remaining, 0}
    /\ c.event = IF regime = "bit" THEN "BitInvalidatorUpdated" ELSE "OrderCancelled"

\* An order with the same nonce is filled or cancelled.
BitTaken(b, c) ==
    /\ regime = "bit" /\ ~Dead(b)
    /\ c.invalidated
    /\ c.remaining = b.remaining /\ c.event = b.event

Untouched(b, c) ==
    c.remaining = b.remaining /\ c.invalidated = b.invalidated /\ c.event = b.event

NewBlock ==
    /\ Height < MaxHeight /\ blocks < MaxBlocks
    /\ blocks' = blocks + 1
    /\ LET b == Block(Height) IN
       \E c \in [id : {blocks}, number : {Height + 1}, remaining : 0 .. Making,
                 invalidated : BOOLEAN, event : EventKinds, late : BOOLEAN,
                 spendable : Funds] :
        /\ b.late => c.late
        /\ \/ \E amount \in 1 .. Making : Filled(b, amount, c)
           \/ Cancelled(b, c) \/ BitTaken(b, c) \/ Untouched(b, c)
        /\ branch' = Append(branch, c)
    /\ UNCHANGED <<regime, final, evidence, verdict>>

\* The last blocks turn out not to be canonical.
Reorg ==
    /\ \E n \in final .. Height - 1 : branch' = SubSeq(branch, 1, n + 1)
    /\ UNCHANGED <<regime, blocks, final, evidence, verdict>>

FinalizeBlock ==
    /\ final < Height
    /\ final' = final + 1
    /\ UNCHANGED <<regime, branch, blocks, evidence, verdict>>

-----------------------------------------------------------------------------
(* The caller, and reconcileLimitOrder.                                    *)

Collect ==
    /\ evidence = <<>>
    /\ \E n \in 0 .. Height : evidence' = <<Block(n)>>
    /\ UNCHANGED <<regime, branch, blocks, final, verdict>>

\* Fault: a block of the same number is taken for the same block.
Reorged_ByNumber(e) == e.number > Height

\* What the caller learns of a block it has collected evidence of.
Reorged(e) == e.number > Height \/ Block(e.number).id # e.id

Finalized(e) == e.number <= final

\* The evidence may name an event that is no longer canonical, or, when the
\* order was invalidated by another, the event of that other order.
Hostile(e) ==
    IF IF e.event = "none" THEN e.invalidated ELSE Reorged(e)
    THEN BOOLEAN ELSE {FALSE}

\* Fault: a canonical block is believed before it is final.
Uncertain_ReorgedOnly(e) == Reorged(e)

Uncertain(e) == Reorged(e) \/ ~Finalized(e)

Untraded(e) ==
    e.event = "none" /\ ~e.invalidated /\ e.remaining = Making

\* The service claims what the chain does not bear out.
Contradicted(e, claim) ==
    \/ claim = "rejected" /\ ~Untraded(e)
    \/ claim = "filled" /\ (e.remaining # 0 \/ e.event # "OrderFilled")
    \/ claim = "cancelled" /\ (~e.invalidated \/ e.event = "OrderFilled")

FromEvent(e) ==
    IF e.event = "OrderFilled"
    THEN IF e.remaining = 0 THEN "filled"
         ELSE IF e.remaining < Making THEN "partially-filled" ELSE "conflict"
    ELSE IF e.invalidated THEN "cancelled" ELSE "conflict"

\* Fault: the service is believed when it says that the order has expired.
FromState_BelievesService(e, claim) ==
    IF e.invalidated THEN IF claim = "cancelled" THEN "cancelled" ELSE "unknown"
    ELSE IF e.late \/ claim = "expired" THEN "expired"
    ELSE IF e.remaining > 0 /\ e.remaining < Making THEN "partially-filled"
    ELSE IF e.spendable < e.remaining THEN "unfillable"
    ELSE IF claim = "open" THEN "open" ELSE "unknown"

FromState(e, claim) ==
    IF e.invalidated THEN IF claim = "cancelled" THEN "cancelled" ELSE "unknown"
    ELSE IF e.late THEN "expired"
    ELSE IF e.remaining > 0 /\ e.remaining < Making THEN "partially-filled"
    ELSE IF e.remaining < Making THEN "unknown"
    ELSE IF e.spendable < e.remaining THEN "unfillable"
    ELSE IF claim = "open" THEN "open" ELSE "unknown"

Status(e, hostile, claim, submitted) ==
    IF hostile THEN "conflict"
    ELSE IF Uncertain(e)
    THEN IF claim \in {"filled", "cancelled", "rejected"} THEN "conflict" ELSE "unknown"
    ELSE IF Contradicted(e, claim) THEN "conflict"
    ELSE IF claim = "rejected" THEN "rejected"
    ELSE IF ~submitted /\ claim = "none" /\ Untraded(e) THEN "not-submitted"
    ELSE IF claim = "accepted" /\ e.number = 0 /\ e.event = "none" /\ ~e.invalidated
    THEN "accepted"
    ELSE IF e.event # "none" THEN FromEvent(e)
    ELSE FromState(e, claim)

Reconcile ==
    /\ evidence # <<>>
    /\ LET e == evidence[1] IN
       \E hostile \in Hostile(e), claim \in Claims, submitted \in BOOLEAN :
        verdict' = [status |-> Status(e, hostile, claim, submitted),
                    number |-> e.number]
    /\ evidence' = <<>>
    /\ UNCHANGED <<regime, branch, blocks, final>>

ReconciliationNext == NewBlock \/ Reorg \/ FinalizeBlock \/ Collect \/ Reconcile

ReconciliationSpec == ReconciliationInit /\ [][ReconciliationNext]_reconciliationVars

-----------------------------------------------------------------------------

Statuses == {"not-submitted", "accepted", "open", "partially-filled", "filled",
             "cancelled", "expired", "rejected", "unfillable", "unknown", "conflict"}

\* Verdicts that tell the maker something of the order itself.
Firm == Statuses \ {"unknown", "conflict"}

\* Whatever the service claims and however the branch was rewritten while the
\* evidence was collected, a firm verdict is about a final block and true of it.
VerdictIsTrue ==
    verdict.status \in Firm =>
        /\ verdict.number <= final
        /\ LET b == Block(verdict.number) IN
           CASE verdict.status = "filled" -> b.remaining = 0 /\ b.event = "OrderFilled"
             [] verdict.status = "cancelled" -> b.invalidated /\ b.event # "OrderFilled"
             [] verdict.status = "expired" -> b.late /\ ~b.invalidated
             [] verdict.status = "partially-filled" ->
                    0 < b.remaining /\ b.remaining < Making
             [] verdict.status = "unfillable" -> ~Dead(b) /\ b.spendable < b.remaining
             [] verdict.status = "open" ->
                    ~Dead(b) /\ ~b.late /\ b.spendable >= b.remaining
             [] OTHER -> ~b.invalidated /\ b.remaining = Making

\* An order that expired may still be cancelled, and may never have been placed.
Leads(from) ==
    IF from = "expired" THEN {"expired", "cancelled", "not-submitted", "rejected"}
    ELSE {from}

\* A verdict that the order is filled, cancelled or expired is never taken back
\* by a later one about the same or a later block: what has ended is not
\* reported as open, filled in part or ended otherwise.
EndIsFinal == [][
    /\ verdict.status \in {"filled", "cancelled", "expired"}
    /\ verdict'.status \in Firm
    /\ verdict'.number >= verdict.number
    => verdict'.status \in Leads(verdict.status)]_verdict

\* The service has no say in what the chain decides: two claims about the same
\* evidence never lead to two different verdicts on how far the order has got.
ChainDecides ==
    \A i \in DOMAIN evidence :
        Cardinality({Status(evidence[i], FALSE, claim, TRUE) : claim \in Claims}
            \cap {"partially-filled", "filled", "cancelled", "expired", "unfillable"})
        <= 1
=============================================================================
