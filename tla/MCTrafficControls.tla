--------------------------- MODULE MCTrafficControls ---------------------------
(***************************************************************************)
(* The controls of the gateway (packages/gateway/src/controls.ts), the     *)
(* credentials and the work admission, in one run of TLC. They have no     *)
(* state in common, so that what each does while the other rests is all    *)
(* that it can do. The instance has three requests with one credential,    *)
(* and five work items of three principals, two of them with credentials   *)
(* of both classes, where "queue" is a reserved dimension and "total" is   *)
(* not.                                                                    *)
(***************************************************************************)
EXTENDS Credentials, WorkAdmission, TLC

CONSTANTS c1, c2, c3, c4, c5, alice, bob, cork

VARIABLE active   \* the part that moves

Init ==
    /\ active \in {"credentials", "admission"}
    /\ CredentialsInit /\ AdmissionInit

UseCredentials ==
    /\ active = "credentials"
    /\ CredentialsNext
    /\ UNCHANGED <<admission, active>>

UseAdmission ==
    /\ active = "admission"
    /\ AdmissionNext
    /\ UNCHANGED <<credentialVars, active>>

Next == UseCredentials \/ UseAdmission

Spec == Init /\ [][Next]_<<credentialVars, admission, active>>

-----------------------------------------------------------------------------

MCPrincipalOf == [c \in Calls |->
    IF c \in {c1, c2} THEN alice ELSE IF c = c3 THEN bob ELSE cork]

MCClassOf == [c \in Calls |-> IF c \in {c1, c3, c5} THEN "public" ELSE "first-party"]

Costs(queue, total) == [d \in Dimensions |-> IF d = "queue" THEN queue ELSE total]

MCCostOf == [c \in Calls |->
    IF c = c2 THEN Costs(2, 1) ELSE IF c = c3 THEN Costs(1, 1) ELSE Costs(1, 2)]

MCPerPrincipal == Costs(2, 4)

MCGlobal == Costs(4, 5)

MCReserve == [d \in Reserved |-> 2]

\* Requests are alike.
Symmetric == Permutations(Requests)
=============================================================================
