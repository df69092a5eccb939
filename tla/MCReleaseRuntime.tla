--------------------------- MODULE MCReleaseRuntime ---------------------------
(***************************************************************************)
(* An instance of ReleaseRuntime for TLC.                                  *)
(***************************************************************************)
EXTENDS ReleaseRuntime, TLC

CONSTANTS free, bound   \* a build without a policy, and one that requires it

At(g, s) == [generation |-> g, status |-> s]

Signed(b, d, p) == [build |-> b, deployment |-> d, policy |-> p]

\* A build that needs no policy; then two generations of the deployment and a
\* policy that is active, staged and disabled.
MCReleases ==
    {Signed(free, At(1, "active"), At(1, "staged")),
     Signed(bound, At(1, "active"), At(1, "staged")),
     Signed(bound, At(1, "active"), At(1, "emergency-disabled")),
     Signed(bound, At(2, "active"), At(1, "active"))}

\* The capabilities are alike.
Symmetric == Permutations(Capabilities)
=============================================================================
