---------------------------- MODULE LimitOrderMaker ----------------------------
(***************************************************************************)
(* The orders of one maker and one token, and the allowance they share     *)
(* (packages/operations/src/limit-orders.ts and limit-order-lifecycle.ts). *)
(*                                                                         *)
(* To make an order the maker's client reads the inventory of the orders   *)
(* the service knows, the allowance and the invalidators, and prepares the *)
(* order from what it read; when the allowance is too small it first       *)
(* approves the target and begins again. A prepared order is signed,       *)
(* submitted and listed. All along, takers fill orders in the chain, and   *)
(* orders are cancelled and expire. prepareLimitOrderMaker() and           *)
(* finalizeLimitOrderMaker() are synchronous and read nothing themselves:  *)
(* they see what was read before.                                          *)
(*                                                                         *)
(* The reading of the inventory is that of InventoryRead. Of the maker's   *)
(* orders of other tokens only their effect on the shared invalidators is  *)
(* modelled. Replaced blocks are not modelled here, and no signature is    *)
(* used outside the service.                                               *)
(***************************************************************************)
EXTENDS Integers, Functions

CONSTANTS
    MakerOrders,  \* orders the maker may make
    MakingAmount,
    Regime,       \* "bit" for a single fill, "remaining" for several
    Nonce,        \* derived from the intent: 40 bits of a hash
    MaxUint,      \* 2^256 - 1
    ZeroFirst,    \* the token wants an allowance reset before it is set
    Careful,      \* the client makes one order after the other, and reads the
                  \* allowance and the invalidators after the inventory
    MaxAttempts   \* bound of the model: preparations of an order

ASSUME MakerConstants ==
    /\ MaxUint \in Nat /\ MaxAttempts \in Nat
    /\ MakingAmount \in [MakerOrders -> 1 .. MaxUint]
    /\ Regime \in [MakerOrders -> {"bit", "remaining"}]
    /\ ZeroFirst \in BOOLEAN /\ Careful \in BOOLEAN

VARIABLES
    \* the chain (external)
    left,          \* making amount left of each order
    cancelled,     \* orders whose remaining invalidator is used up
    usedNonces,    \* bits set in the maker's invalidator words
    expired,
    allowance,
    \* the order service (external)
    offered,
    \* the client
    step,          \* of the preparation of each order
    attempts,
    known,         \* orders enumerated
    inventory,     \* amounts left of the live ones
    wallet         \* allowance, used nonces and whether the order's remaining
                   \* invalidator is not zero, as read

protocol == <<left, cancelled, usedNonces, expired, allowance>>
client == <<step, attempts, known, inventory, wallet>>
makerVars == <<protocol, offered, client>>

NothingRead == [o \in {} |-> 0]

Unread == [allowance |-> 0, usedNonces |-> {}, touched |-> FALSE, read |-> FALSE]

Invalidated(o) ==
    IF Regime[o] = "bit" THEN Nonce[o] \in usedNonces ELSE o \in cancelled

Fillable(o) == ~Invalidated(o) /\ o \notin expired /\ left[o] > 0

MakerInit ==
    /\ left = MakingAmount
    /\ cancelled = {} /\ usedNonces = {} /\ expired = {}
    /\ allowance = 0
    /\ offered = {}
    /\ step = [o \in MakerOrders |-> "idle"]
    /\ attempts = [o \in MakerOrders |-> 0]
    /\ known = [o \in MakerOrders |-> {}]
    /\ inventory = [o \in MakerOrders |-> NothingRead]
    /\ wallet = [o \in MakerOrders |-> Unread]

-----------------------------------------------------------------------------
(* The chain and the service.                                              *)

\* A taker fills a listed order, at most what is left and the allowance covers.
Fill(o) ==
    /\ o \in offered /\ Fillable(o)
    /\ \E amount \in 1 .. left[o] :
        /\ Regime[o] = "bit" => amount = left[o]
        /\ amount <= allowance
        /\ left' = [left EXCEPT ![o] = @ - amount]
        /\ allowance' = allowance - amount
    /\ usedNonces' = IF Regime[o] = "bit" THEN usedNonces \cup {Nonce[o]} ELSE usedNonces
    /\ UNCHANGED <<cancelled, expired, offered, client>>

\* prepareLimitOrderCancellation, whose transaction the maker sends: refused
\* when the invalidator shows the order is dead already.
Cancel(o) ==
    /\ o \in offered
    /\ ~Invalidated(o)
    /\ usedNonces' = IF Regime[o] = "bit" THEN usedNonces \cup {Nonce[o]} ELSE usedNonces
    /\ cancelled' = IF Regime[o] = "bit" THEN cancelled ELSE cancelled \cup {o}
    /\ UNCHANGED <<left, expired, allowance, offered, client>>

\* A maker's invalidator bits are shared by its orders of all tokens: an order of
\* another token with the same nonce is filled or cancelled.
OtherTokenUses(o) ==
    /\ Regime[o] = "bit" /\ Nonce[o] \notin usedNonces
    /\ usedNonces' = usedNonces \cup {Nonce[o]}
    /\ UNCHANGED <<left, cancelled, expired, allowance, offered, client>>

Expire(o) ==
    /\ o \notin expired
    /\ expired' = expired \cup {o}
    /\ UNCHANGED <<left, cancelled, usedNonces, allowance, offered, client>>

\* The service accepts a submitted order.
List(o) ==
    /\ step[o] = "submitted"
    /\ step' = [step EXCEPT ![o] = "made"]
    /\ offered' = offered \cup {o}
    /\ UNCHANGED <<protocol, attempts, known, inventory, wallet>>

\* It drops an order once that can no longer be filled.
Unlist(o) ==
    /\ o \in offered /\ ~Fillable(o)
    /\ offered' = offered \ {o}
    /\ UNCHANGED <<protocol, client>>

-----------------------------------------------------------------------------
(* The client: what a preparation is made from.                            *)

Settled(o) == step[o] \in {"idle", "closed", "made"}

\* An order may be prepared although it has been made before.
BeginOrder(o) ==
    /\ step[o] \in {"idle", "made"} /\ attempts[o] < MaxAttempts
    /\ Careful => \A p \in MakerOrders : Settled(p)
    /\ step' = [step EXCEPT ![o] = "enumerating"]
    /\ attempts' = [attempts EXCEPT ![o] = @ + 1]
    /\ known' = [known EXCEPT ![o] = offered]
    /\ inventory' = [inventory EXCEPT ![o] = NothingRead]
    /\ wallet' = [wallet EXCEPT ![o] = Unread]
    /\ UNCHANGED <<protocol, offered>>

\* The chain part of the inventory; also orders listed meanwhile may be in it.
ReadInventory(o) ==
    /\ step[o] = "enumerating"
    /\ step' = [step EXCEPT ![o] = "reading"]
    /\ \E more \in SUBSET offered :
        inventory' = [inventory EXCEPT ![o] =
            [p \in {q \in known[o] \cup more : Fillable(q)} |-> left[p]]]
    /\ UNCHANGED <<protocol, offered, attempts, known, wallet>>

\* MAKER_ORDER_INVENTORY_INCOMPLETE: neither an approval nor an order.
InventoryIncomplete(o) ==
    /\ step[o] = "enumerating"
    /\ step' = [step EXCEPT ![o] = "idle"]
    /\ UNCHANGED <<protocol, offered, attempts, known, inventory, wallet>>

ReadWallet(o) ==
    /\ step[o] \in (IF Careful THEN {"reading"} ELSE {"enumerating", "reading"})
    /\ ~wallet[o].read
    /\ wallet' = [wallet EXCEPT ![o] =
          [allowance |-> allowance, usedNonces |-> usedNonces,
           touched |-> o \in cancelled \/ left[o] < MakingAmount[o], read |-> TRUE]]
    /\ UNCHANGED <<protocol, offered, step, attempts, known, inventory>>

-----------------------------------------------------------------------------
(* prepareLimitOrderMaker, from what was read.                             *)

\* Fault: only the invalidator word is looked at.
IdentityAlreadyUsed_WordOnly(o) ==
    \/ o \in DOMAIN inventory[o]
    \/ Regime[o] = "bit" /\ Nonce[o] \in wallet[o].usedNonces
    \/ Regime[o] = "remaining" /\ wallet[o].touched

IdentityAlreadyUsed(o) ==
    \/ o \in DOMAIN inventory[o]
    \/ /\ Regime[o] = "bit"
       /\ \/ Nonce[o] \in wallet[o].usedNonces
          \/ \E p \in DOMAIN inventory[o] :
                Regime[p] = "bit" /\ Nonce[p] = Nonce[o]
    \/ Regime[o] = "remaining" /\ wallet[o].touched

\* Fault: the allowance is set for the new order alone.
TargetAllowance_NewOrderOnly(o) == MakingAmount[o]

TargetAllowance(o) ==
    MakingAmount[o] + SumFunctionOnSet(inventory[o], DOMAIN inventory[o])

Overflows(target) == target > MaxUint

CanPrepare(o) == step[o] = "reading" /\ wallet[o].read

Refused(o) == IdentityAlreadyUsed(o) \/ Overflows(TargetAllowance(o))

\* Refused(o), or the verifier of the identity disagrees, or the caller knows
\* the order's hash as used.
PrepareRefused(o) ==
    /\ CanPrepare(o)
    /\ step' = [step EXCEPT ![o] = "closed"]
    /\ UNCHANGED <<protocol, offered, attempts, known, inventory, wallet>>

\* Outcome "prerequisite": approval transactions, and nothing to sign.
PreparePrerequisite(o) ==
    /\ CanPrepare(o)
    /\ ~Refused(o)
    /\ wallet[o].allowance < TargetAllowance(o)
    /\ step' = [step EXCEPT ![o] = IF ZeroFirst THEN "resetting" ELSE "approving"]
    /\ UNCHANGED <<protocol, offered, attempts, known, inventory, wallet>>

PrepareDone(o) ==
    /\ CanPrepare(o)
    /\ ~Refused(o)
    /\ wallet[o].allowance >= TargetAllowance(o)
    /\ step' = [step EXCEPT ![o] = "prepared"]
    /\ UNCHANGED <<protocol, offered, attempts, known, inventory, wallet>>

\* The owner's wallet sends the approvals; the client begins again.
ResetAllowance(o) ==
    /\ step[o] = "resetting"
    /\ step' = [step EXCEPT ![o] = "approving"]
    /\ allowance' = 0
    /\ UNCHANGED <<left, cancelled, usedNonces, expired, offered, attempts, known,
                   inventory, wallet>>

Approve(o) ==
    /\ step[o] = "approving"
    /\ step' = [step EXCEPT ![o] = "idle"]
    /\ allowance' = TargetAllowance(o)
    /\ UNCHANGED <<left, cancelled, usedNonces, expired, offered, attempts, known,
                   inventory, wallet>>

\* The owner signs and finalizeLimitOrderMaker() prepares the order again, from
\* the prepared artifact: with the same inventory, allowance and invalidators
\* it comes to the same result.
Finalize(o) ==
    /\ step[o] = "prepared"
    /\ step' = [step EXCEPT ![o] = "signed"]
    /\ UNCHANGED <<protocol, offered, attempts, known, inventory, wallet>>

Submit(o) ==
    /\ step[o] = "signed"
    /\ step' = [step EXCEPT ![o] = "submitted"]
    /\ UNCHANGED <<protocol, offered, attempts, known, inventory, wallet>>

\* The owner gives an order up before it is submitted.
Abandon(o) ==
    /\ step[o] \in {"prepared", "signed"}
    /\ step' = [step EXCEPT ![o] = "closed"]
    /\ UNCHANGED <<protocol, offered, attempts, known, inventory, wallet>>

MakerNext == \E o \in MakerOrders :
    \/ Fill(o) \/ Cancel(o) \/ OtherTokenUses(o) \/ Expire(o) \/ List(o) \/ Unlist(o)
    \/ BeginOrder(o) \/ ReadInventory(o) \/ InventoryIncomplete(o) \/ ReadWallet(o)
    \/ PrepareRefused(o) \/ PreparePrerequisite(o) \/ PrepareDone(o)
    \/ ResetAllowance(o) \/ Approve(o) \/ Finalize(o) \/ Submit(o) \/ Abandon(o)

MakerSpec == MakerInit /\ [][MakerNext]_makerVars

-----------------------------------------------------------------------------

\* Orders a taker may fill, now or once the service lists them.
Outstanding ==
    {o \in MakerOrders :
        (o \in offered \/ step[o] \in {"signed", "submitted"}) /\ Fillable(o)}

\* Unless the owner has just reset the allowance to set it anew, the shared
\* allowance covers all that is left of the maker's orders together: filling
\* one never makes another unfillable. No allowance is asked for that the token
\* cannot hold.
AllowanceCoversOrders ==
    /\ \/ ZeroFirst /\ \E o \in MakerOrders : step[o] = "approving"
       \/ SumFunctionOnSet(left, Outstanding) <= allowance
    /\ allowance <= MaxUint

\* The same of the orders the service knows, as the documents state it.
KnownOrdersAreCovered ==
    SumFunctionOnSet(left, {o \in offered : Fillable(o)}) <= allowance

\* No two orders of this token that can be filled share a nonce: filling or
\* cancelling one would silently kill the other. An order of another token is not
\* in the inventory and may do so (OtherTokenUses): identityAlreadyUsed cannot see
\* it. Nor is an order that takers can fill approved, prepared or submitted a
\* second time.
NoncesOfTokenDiffer ==
    /\ \A o, p \in Outstanding :
          o # p /\ Regime[o] = "bit" /\ Regime[p] = "bit" => Nonce[o] # Nonce[p]
    /\ \A o \in offered :
          step[o] \in {"resetting", "approving", "prepared", "signed", "submitted"}
          => ~Fillable(o)
=============================================================================
