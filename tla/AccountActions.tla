----------------------------- MODULE AccountActions -----------------------------
(***************************************************************************)
(* The actions of an account, and the transactions by which one that is a  *)
(* Safe authorizes its own. What a Safe executes is taken from either by   *)
(* the client: they have no state in common, so that what each does while  *)
(* the other rests is all that it can do.                                  *)
(***************************************************************************)
EXTENDS ActionLifecycle, SafeAuthorization

VARIABLE active   \* the part that moves

Init ==
    /\ active \in {"actions", "safe"}
    /\ ActionInit /\ SafeInit

UseActions ==
    /\ active = "actions"
    /\ ActionNext
    /\ UNCHANGED <<safeVars, active>>

UseSafe ==
    /\ active = "safe"
    /\ SafeNext
    /\ UNCHANGED <<actionVars, active>>

Next == UseActions \/ UseSafe

Spec == Init /\ [][Next]_<<actionVars, safeVars, active>>
=============================================================================
