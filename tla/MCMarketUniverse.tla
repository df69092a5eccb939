---------------------------- MODULE MCMarketUniverse ----------------------------
(***************************************************************************)
(* An instance of MarketUniverse for TLC.                                  *)
(***************************************************************************)
EXTENDS MarketUniverse

MCAdministration == [p \in Providers |-> IF p = "honest" THEN "a" ELSE "b"]

MCTuple == [p \in Pools |-> "t"]

MCSourceClaim == [p \in Pools |-> IF p = 1 THEN "t" ELSE "u"]

MCManifest ==
    [p \in {1, 2} |-> [f \in Facts |-> IF f = "tuple" THEN SourceClaim[p] ELSE "unpaused"]]

\* Once markets are read: what came of the list.
LiveData ==
    IF pinned # 0 \/ market # [p \in Pools |-> NoMarket]
    THEN <<reading = "complete" /\ from = 0, items, allAlong \cap Material, marketVars, universe>>
    ELSE <<listingVars, marketVars, universe>>
=============================================================================
