--------------------------- MODULE MCLimitOrderMaker ---------------------------
(***************************************************************************)
(* Instances of LimitOrderMaker for TLC: an order that may be filled in    *)
(* three parts, and two single-fill orders with the same nonce.            *)
(***************************************************************************)
EXTENDS LimitOrderMaker, TLC

CONSTANTS parts, whole, twin

MCMakingAmount == [o \in MakerOrders |-> IF o = parts THEN 3 ELSE 1]

MCRegime == [o \in MakerOrders |-> IF o = parts THEN "remaining" ELSE "bit"]

MCNonce == [o \in MakerOrders |-> IF o = parts THEN 2 ELSE 1]

\* What was read for a preparation, as long as that can still use it.
LiveOrders ==
    <<protocol, offered, step,
      [o \in MakerOrders |-> IF step[o] = "closed" THEN 0 ELSE attempts[o]],
      [o \in MakerOrders |-> IF step[o] = "enumerating" THEN known[o] ELSE {}],
      [o \in MakerOrders |-> IF step[o] \in {"reading", "resetting", "approving"}
                             THEN inventory[o] ELSE NothingRead],
      [o \in MakerOrders |-> IF step[o] \in {"enumerating", "reading"}
                             THEN wallet[o] ELSE Unread]>>
=============================================================================
