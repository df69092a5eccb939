----------------------------- MODULE InventoryRead -----------------------------
(***************************************************************************)
(* What a reading of a maker's order inventory promises, whatever pages    *)
(* and observations it is made of: a complete inventory holds, with the    *)
(* amounts of one moment of the chain, every live order the service listed *)
(* all the while it was enumerated; a reading that fails yields nothing.   *)
(***************************************************************************)
EXTENDS Integers

CONSTANTS
    Orders,
    ChainStates    \* of an order: [left, invalidated, expired]

VARIABLES
    listed,        \* the maker's orders the service lists
    chain,         \* the state of each order in the chain
    phase,         \* of the reading: idle, reading, complete or failed
    promised,      \* listed since the reading began, as far as it has got
    inventory      \* amounts left, of the orders of a complete inventory

reading == <<phase, promised, inventory>>

Live(state) == ~state.invalidated /\ ~state.expired /\ state.left > 0

LiveAmounts(S) == [o \in {p \in S : Live(chain[p])} |-> chain[o].left]

NoRecords == [o \in {} |-> 0]

Init ==
    /\ listed = {}
    /\ chain \in [Orders -> ChainStates]
    /\ phase = "idle"
    /\ promised = {}
    /\ inventory = NoRecords

\* The service and the chain move on; what is no longer listed need not be
\* promised any more.
Environment ==
    /\ listed' \in SUBSET Orders
    /\ chain' \in [Orders -> ChainStates]
    /\ promised' \in SUBSET promised
    /\ promised \cap listed' \subseteq promised'
    /\ UNCHANGED <<phase, inventory>>

Begin ==
    /\ phase # "reading"
    /\ phase' = "reading"
    /\ promised' = listed
    /\ inventory' = NoRecords
    /\ UNCHANGED <<listed, chain>>

Finish ==
    /\ phase = "reading"
    /\ phase' = "complete"
    /\ \E S \in SUBSET Orders :
        /\ promised \subseteq S
        /\ inventory' = LiveAmounts(S)
    /\ UNCHANGED <<listed, chain, promised>>

Fail ==
    /\ phase = "reading"
    /\ phase' = "failed"
    /\ UNCHANGED <<listed, chain, promised, inventory>>

Next == Environment \/ Begin \/ Finish \/ Fail

Spec == Init /\ [][Next]_<<listed, chain, reading>>
=============================================================================
