------------------------------ MODULE TakerFills -------------------------------
(***************************************************************************)
(* Takers of one limit order (packages/operations/src/limit-orders.ts,     *)
(* prepareLimitOrderTaker). A taker reads the order's state, prepares a    *)
(* fill of all that is left or of an amount of its own, approves what it   *)
(* has to pay when its allowance is too small, prepares again, and sends   *)
(* the transaction. Other fills may come in between: the chain (external)  *)
(* fills at most what is left then, charges the same rounded share, and    *)
(* reverts when the taker's limit does not allow it.                       *)
(***************************************************************************)
EXTENDS Integers

CONSTANTS
    Takers,
    OrderMaking,
    TakingAmount,
    MaximumTakingAmount,  \* the limit of each taker
    MaxFunds              \* of the maker

ASSUME FillConstants ==
    /\ OrderMaking \in Nat \ {0}
    /\ TakingAmount \in Nat \ {0}
    /\ MaximumTakingAmount \in [Takers -> Nat]
    /\ MaxFunds \in Nat

VARIABLES
    remaining,    \* making amount left in the chain
    spendable,    \* the lesser of the maker's balance and allowance
    late,         \* the order has expired, or the deadline has passed
    paid,         \* taking amount paid for all fills together
    fills,        \* number of fills
    approved,     \* of each taker
    stage,        \* of each taker: idle, approving, prepared, ended
    making,       \* of the prepared fill
    taking
orderState == <<remaining, spendable, late, paid, fills>>
taker == <<stage, making, taking>>
fillsVars == <<orderState, approved, taker>>

FillsInit ==
    /\ remaining = OrderMaking
    /\ spendable \in 0 .. MaxFunds
    /\ late = FALSE
    /\ paid = 0 /\ fills = 0
    /\ approved = [t \in Takers |-> 0]
    /\ stage = [t \in Takers |-> "idle"]
    /\ making = [t \in Takers |-> 0]
    /\ taking = [t \in Takers |-> 0]

\* Fault: rounded down.
RequiredTaking_RoundedDown(amount) == (TakingAmount * amount) \div OrderMaking

\* The share of the taking amount, rounded up.
RequiredTaking(amount) ==
    (TakingAmount * amount + OrderMaking - 1) \div OrderMaking

StillFillable(amount) ==
    /\ ~late
    /\ amount \in 1 .. remaining
    /\ amount <= spendable

\* Fault: an allowance is thought to be enough when there is any.
NeedsApproval_WhenZero(t, amount) == approved[t] = 0

NeedsApproval(t, amount) == approved[t] < RequiredTaking(amount)

TakerRefused(t) ==
    /\ stage[t] = "idle"
    /\ \E amount \in 0 .. OrderMaking :
        ~StillFillable(amount) \/ RequiredTaking(amount) > MaximumTakingAmount[t]
    /\ stage' = [stage EXCEPT ![t] = "ended"]
    /\ UNCHANGED <<orderState, approved, making, taking>>

Prepare(t) ==
    /\ stage[t] = "idle"
    /\ \E amount \in 1 .. OrderMaking :
        /\ StillFillable(amount)
        /\ RequiredTaking(amount) <= MaximumTakingAmount[t]
        /\ making' = [making EXCEPT ![t] = amount]
        /\ taking' = [taking EXCEPT ![t] = RequiredTaking(amount)]
        /\ stage' = [stage EXCEPT ![t] =
              IF NeedsApproval(t, amount) THEN "approving" ELSE "prepared"]
    /\ UNCHANGED <<orderState, approved>>

\* The approvals of the prerequisite are sent; the taker begins again.
TakerApprove(t) ==
    /\ stage[t] = "approving"
    /\ approved' = [approved EXCEPT ![t] = taking[t]]
    /\ stage' = [stage EXCEPT ![t] = "idle"]
    /\ UNCHANGED <<orderState, making, taking>>

-----------------------------------------------------------------------------
(* The chain.                                                              *)

Least(a, b) == IF a <= b THEN a ELSE b

FilledBy(t) == Least(making[t], remaining)

Executable(t) ==
    /\ ~late /\ remaining > 0
    /\ FilledBy(t) <= spendable
    /\ RequiredTaking(FilledBy(t)) <= Least(MaximumTakingAmount[t], approved[t])

Execute(t) ==
    /\ stage[t] = "prepared"
    /\ stage' = [stage EXCEPT ![t] = "ended"]
    /\ IF Executable(t)
       THEN /\ remaining' = remaining - FilledBy(t)
            /\ spendable' = spendable - FilledBy(t)
            /\ paid' = paid + RequiredTaking(FilledBy(t))
            /\ fills' = fills + 1
            /\ approved' = [approved EXCEPT ![t] = @ - RequiredTaking(FilledBy(t))]
       ELSE UNCHANGED <<remaining, spendable, paid, fills, approved>>
    /\ UNCHANGED <<late, making, taking>>

OrderExpires ==
    /\ ~late
    /\ late' = TRUE
    /\ UNCHANGED <<remaining, spendable, paid, fills, approved, taker>>

\* The maker spends, receives or approves, on account of other orders too.
MakerFundsChange ==
    /\ spendable' \in 0 .. MaxFunds
    /\ UNCHANGED <<remaining, late, paid, fills, approved, taker>>

FillsNext ==
    \/ \E t \in Takers : TakerRefused(t) \/ Prepare(t) \/ TakerApprove(t) \/ Execute(t)
    \/ OrderExpires \/ MakerFundsChange

FillsSpec == FillsInit /\ [][FillsNext]_fillsVars

-----------------------------------------------------------------------------

\* Types; no more is filled than the order offers.
FillTypeOK ==
    /\ remaining \in 0 .. OrderMaking
    /\ spendable \in 0 .. MaxFunds
    /\ late \in BOOLEAN
    /\ paid \in Nat /\ fills \in Nat
    /\ approved \in [Takers -> Nat]
    /\ stage \in [Takers -> {"idle", "approving", "prepared", "ended"}]
    /\ making \in [Takers -> 0 .. OrderMaking]
    /\ taking \in [Takers -> Nat]

\* However an order is split into fills, the maker is paid at least its price for
\* what was filled, and all takers together less than one unit more per fill.
MakerIsPaid ==
    LET filled == OrderMaking - remaining IN
    /\ paid * OrderMaking >= TakingAmount * filled
    /\ paid * OrderMaking <= TakingAmount * filled + fills * (OrderMaking - 1)

\* A prepared fill succeeds unless the order has changed to its disadvantage:
\* the allowance and the limit it was prepared with are enough for what the
\* chain charges, also when less than prepared is left.
PreparedFillSucceeds ==
    \A t \in Takers :
        /\ stage[t] = "prepared"
        /\ ~late /\ remaining > 0 /\ FilledBy(t) <= spendable
        => Executable(t)
=============================================================================
