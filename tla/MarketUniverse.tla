----------------------------- MODULE MarketUniverse -----------------------------
(***************************************************************************)
(* The verified markets of a source                                        *)
(* (packages/operations/src/verified-market.ts:                            *)
(* reconstructVerifiedMarketUniverse). A caller lists the pools of the     *)
(* source, as PhoenixListing reads them, reads and verifies each pool, as  *)
(* in VerifiedMarket, and hands all of them over; pools it deems material  *)
(* must be verified for the universe to be complete. The pools are the     *)
(* items of the list.                                                      *)
(***************************************************************************)
EXTENDS PhoenixListing, VerifiedMarket

CONSTANT Material    \* pools that the caller deems material

ASSUME UniverseConstants == Material \subseteq Pools /\ Pools = Items

VARIABLE universe    \* its verdict
vars == <<listingVars, marketVars, universe>>

NoUniverse == [outcome |-> "none"]

Init == ListingInit /\ MarketInit /\ universe = NoUniverse

\* The list is read before any market is.
Listing ==
    /\ universe = NoUniverse /\ pinned = 0 /\ market = [p \in Pools |-> NoMarket]
    /\ ListingNext
    /\ UNCHANGED <<marketVars, universe>>

Reading ==
    /\ reading \in StopReasons /\ universe = NoUniverse
    /\ \/ \E n \in 1 .. Height : Extend(n)
       \/ \E p \in items : pinned = 0 /\ market[p] = NoMarket /\ Pin(p)
       \/ \E h \in HonestProviders, f \in Facts :
            Ask(h, f) \/ Answer(h, f) \/ AnswerFails(h, f)
       \/ Verified \/ NotVerified
    /\ UNCHANGED <<listingVars, universe>>

Unverified == {p \in items \cap Material : market[p].outcome # "verified"}

\* The caller calls the enumeration complete when it was read from its start to
\* its end.
Reconstruct ==
    /\ reading \in StopReasons /\ universe = NoUniverse
    /\ \A p \in items : market[p] # NoMarket
    /\ universe' =
          IF reading = "complete" /\ from = 0 /\ Unverified = {}
          THEN [outcome |-> "complete",
                markets |-> {p \in items : market[p].outcome = "verified"}]
          ELSE [outcome |-> "incomplete"]
    /\ UNCHANGED <<listingVars, marketVars>>

Next == Listing \/ Reading \/ Reconstruct

Spec == Init /\ [][Next]_vars

-----------------------------------------------------------------------------

\* A complete universe holds, verified, every material pool that the source
\* listed from the beginning to the end of the reading, and no market that is
\* not true of the chain.
CompleteUniverse ==
    universe.outcome = "complete" =>
        /\ allAlong \cap Material \subseteq universe.markets
        /\ \A p \in universe.markets : market[p].facts["state"] = Truth("state", p, market[p].block)
=============================================================================
