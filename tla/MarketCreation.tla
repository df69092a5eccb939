----------------------------- MODULE MarketCreation -----------------------------
(***************************************************************************)
(* The two ways in which a market is made: by a client that deploys its    *)
(* wrapper and its pool (MarketDeployment), and by a Safe, for which calls *)
(* prepare the package of its transactions (SafeMarketPackage), upon one   *)
(* chain. A start names the states that others bring about, the deployment *)
(* that the client works on, if any, and the calls that are made.          *)
(***************************************************************************)
EXTENDS MarketDeployment, SafeMarketPackage

CONSTANT Starts

ASSUME StartsAreStates ==
    \A s \in Starts : s.calls \subseteq Previews /\ \A state \in s.world.states : IsState(state)

vars == <<chainVars, deploymentVars, packageVars>>

Init ==
    \E s \in Starts :
        ChainInit(s.world) /\ DeploymentInit(s.deployment) /\ PackageInit(s.calls)

Chain == ChainNext /\ UNCHANGED <<deploymentVars, packageVars>>

Deployment == DeploymentNext /\ UNCHANGED packageVars

Package == PackageNext /\ UNCHANGED deploymentVars

Next == Chain \/ Deployment \/ Package

Spec == Init /\ [][Next]_vars
=============================================================================
