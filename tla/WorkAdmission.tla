----------------------------- MODULE WorkAdmission -----------------------------
(***************************************************************************)
(* WorkAdmissionController (packages/gateway/src/controls.ts): weighted    *)
(* limits on the work of each principal, of all of them, and of public     *)
(* traffic, part of the capacity being reserved for first-party traffic.   *)
(* The controller is synchronous: admit() and the release() of a lease are *)
(* atomic.                                                                 *)
(*                                                                         *)
(* A work item c is one use of admit(); its lease is the object returned.  *)
(* A principal that the code's map does not contain has usage Zero here.   *)
(***************************************************************************)
EXTENDS Integers, Functions

CONSTANTS
    Calls,         \* work items
    Principals,
    PrincipalOf,   \* of each work item: its principal,
    ClassOf,       \* its traffic class,
    CostOf,        \* and its cost
    Dimensions,    \* of a cost
    Reserved,      \* the dimensions in which capacity is reserved
    PerPrincipal,  \* limits
    Global,
    Reserve        \* reserved for first-party traffic

Cost == [Dimensions -> Nat]

ASSUME WorkItems ==
    /\ PrincipalOf \in [Calls -> Principals]
    /\ ClassOf \in [Calls -> {"public", "first-party"}]
    /\ CostOf \in [Calls -> Cost]

ASSUME Limits ==
    /\ PerPrincipal \in Cost /\ Global \in Cost
    /\ Reserved \subseteq Dimensions
    /\ Reserve \in [Reserved -> Nat]
    /\ \A d \in Reserved : Reserve[d] <= Global[d]

VARIABLES
    principalUsage,
    globalUsage,
    publicUsage,
    lease            \* of each work item: none yet, held, or released

admission == <<principalUsage, globalUsage, publicUsage, lease>>

Zero == [d \in Dimensions |-> 0]

Plus(u, v) == [d \in Dimensions |-> u[d] + v[d]]

Minus(u, v) == [d \in Dimensions |-> u[d] - v[d]]

Exceeds(u, limit) == \E d \in Dimensions : u[d] > limit[d]

AdmissionInit ==
    /\ principalUsage = [p \in Principals |-> Zero]
    /\ globalUsage = Zero
    /\ publicUsage = Zero
    /\ lease = [c \in Calls |-> "none"]

\* Fault: public traffic may use everything.
PublicLimit_IgnoresReserve == Global

PublicLimit ==
    [d \in Dimensions |->
        IF d \in Reserved THEN Global[d] - Reserve[d] ELSE Global[d]]

IsPublic(c) == ClassOf[c] = "public"

\* Fault: the usage before the admission is compared with the limits.
Admissible_BeforeAdding(c) ==
    /\ ~Exceeds(principalUsage[PrincipalOf[c]], PerPrincipal)
    /\ ~Exceeds(globalUsage, Global)
    /\ IsPublic(c) => ~Exceeds(publicUsage, PublicLimit)

Admissible(c) ==
    /\ ~Exceeds(Plus(principalUsage[PrincipalOf[c]], CostOf[c]), PerPrincipal)
    /\ ~Exceeds(Plus(globalUsage, CostOf[c]), Global)
    /\ IsPublic(c) => ~Exceeds(Plus(publicUsage, CostOf[c]), PublicLimit)

Admit(c) ==
    /\ lease[c] = "none"
    /\ Admissible(c)
    /\ principalUsage' = [principalUsage EXCEPT ![PrincipalOf[c]] = Plus(@, CostOf[c])]
    /\ globalUsage' = Plus(globalUsage, CostOf[c])
    /\ publicUsage' = IF IsPublic(c) THEN Plus(publicUsage, CostOf[c])
                                     ELSE publicUsage
    /\ lease' = [lease EXCEPT ![c] = "held"]

\* Give back what the lease of c holds.
GiveBack(c) ==
    /\ principalUsage' = [principalUsage EXCEPT ![PrincipalOf[c]] = Minus(@, CostOf[c])]
    /\ globalUsage' = Minus(globalUsage, CostOf[c])
    /\ publicUsage' = IF IsPublic(c) THEN Minus(publicUsage, CostOf[c])
                                     ELSE publicUsage
    /\ lease' = [lease EXCEPT ![c] = "released"]

\* Fault: every release gives the cost back.
Release_Repeats(c) == lease[c] # "none" /\ GiveBack(c)

\* release() may be called again, without effect.
Release(c) ==
    \/ lease[c] = "held" /\ GiveBack(c)
    \/ lease[c] = "released" /\ UNCHANGED admission

AdmissionNext == \E c \in Calls : Admit(c) \/ Release(c)

AdmissionSpec == AdmissionInit /\ [][AdmissionNext]_admission

-----------------------------------------------------------------------------

\* Usage never exceeds a limit: of a principal, of the gateway, or of public
\* traffic as a whole.
WithinLimits ==
    /\ \A p \in Principals : ~Exceeds(principalUsage[p], PerPrincipal)
    /\ ~Exceeds(globalUsage, Global)
    /\ ~Exceeds(publicUsage, PublicLimit)

\* In a reserved dimension, first-party work that fits in what other first-party
\* work leaves of the reserve is never turned away for want of global capacity:
\* public traffic cannot have taken it.
ReserveIsAvailable ==
    \A c \in Calls, d \in Reserved :
        (globalUsage[d] - publicUsage[d]) + CostOf[c][d] <= Reserve[d] =>
            globalUsage[d] + CostOf[c][d] <= Global[d]

Sum(S, d) == SumFunctionOnSet([c \in Calls |-> CostOf[c][d]], S)

Held == {c \in Calls : lease[c] = "held"}

\* The three usages are the costs of the leases held, no more and no less:
\* nothing leaks and nothing is given back twice.
UsageIsHeld ==
    \A d \in Dimensions :
        /\ globalUsage[d] = Sum(Held, d)
        /\ publicUsage[d] = Sum({c \in Held : IsPublic(c)}, d)
        /\ \A p \in Principals :
              principalUsage[p][d] = Sum({c \in Held : PrincipalOf[c] = p}, d)
=============================================================================
