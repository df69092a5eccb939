----------------------------- MODULE MCMakerClient -----------------------------
(***************************************************************************)
(* An instance of MakerClient for TLC: three orders in the inventory, and  *)
(* the orders of MCLimitOrderMaker to be made.                             *)
(***************************************************************************)
EXTENDS MakerClient, MCLimitOrderMaker

CONSTANTS o1, o2, o3

MCAmount == [o \in Orders |-> 1]

\* What a later step or a property can still read: a reading that is over keeps
\* its inventory only, and what the service says of dropped orders is past.
LiveInventory ==
    <<position, latest, listed, [o \in listed |-> terms[o]], block, chain, phase,
      promised,
      IF phase \in {"enumerating", "observing"}
      THEN <<enumeration, observation>>
      ELSE IF phase = "complete" THEN records ELSE <<>> >>

LiveData == <<task, IF task = "inventory" THEN LiveInventory ELSE LiveOrders>>

\* The orders of the inventory differ in nothing but their name, and so do the
\* single-fill orders.
Symmetry == Permutations(Orders) \cup Permutations({whole, twin})
=============================================================================
