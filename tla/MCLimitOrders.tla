----------------------------- MODULE MCLimitOrders -----------------------------
(***************************************************************************)
(* What becomes of an order once it is made, in one run of TLC: it is      *)
(* reconciled with the chain, and takers fill it. The two look at          *)
(* different orders and have no state in common, so that what each does    *)
(* while the other rests is all that it can do. The instance has three     *)
(* takers of an order whose price does not divide evenly, one of them with *)
(* a limit below the price.                                                *)
(***************************************************************************)
EXTENDS OrderReconciliation, TakerFills

CONSTANTS t1, t2, t3

VARIABLE active   \* the order that moves

Init ==
    /\ active \in {"reconciled", "filled"}
    /\ ReconciliationInit /\ FillsInit
    \* At rest: any of the initial states does.
    /\ active # "reconciled" =>
        regime = "bit" /\ \A funds \in Funds : Block(0).spendable <= funds
    /\ active # "filled" => spendable = 0

ReconcileOrder ==
    /\ active = "reconciled"
    /\ ReconciliationNext
    /\ UNCHANGED <<fillsVars, active>>

FillOrder ==
    /\ active = "filled"
    /\ FillsNext
    /\ UNCHANGED <<reconciliationVars, active>>

Next == ReconcileOrder \/ FillOrder

Spec == Init /\ [][Next]_<<reconciliationVars, fillsVars, active>>

MCMaximumTakingAmount == [t \in Takers |-> IF t = t3 THEN 3 ELSE 8]
=============================================================================
