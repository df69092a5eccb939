-------------------------- MODULE SubmissionLifecycle --------------------------
(***************************************************************************)
(* What SubmissionService promises about one submission key, with the      *)
(* instances, their calls, leases, versions and time left out: the stages  *)
(* an order goes through and how often it may be attempted.                *)
(***************************************************************************)
EXTENDS Naturals

CONSTANTS Results, None

VARIABLES
    stage,      \* how far the submission has come
    attempts,   \* upstream attempts durably started
    verdict     \* the exact upstream result, once known

lifecycle == <<stage, attempts, verdict>>

Init == stage = "absent" /\ attempts = 0 /\ verdict = None

Move(from, to) == stage = from /\ stage' = to

Claim == Move("absent", "claimed") /\ UNCHANGED <<attempts, verdict>>

\* An attempt is counted before it is made.
Start ==
    /\ Move("claimed", "started")
    /\ attempts < 2
    /\ attempts' = attempts + 1
    /\ UNCHANGED verdict

\* The outcome of an attempt, or of an inquiry, is not known.
LoseTrack ==
    /\ Move("started", "unknown") \/ Move("inquiring", "unknown")
    /\ UNCHANGED <<attempts, verdict>>

Inquire == Move("unknown", "inquiring") /\ UNCHANGED <<attempts, verdict>>

Decide ==
    /\ stage \in {"started", "inquiring"}
    /\ stage' \in {"accepted", "rejected"}
    /\ verdict' \in Results
    /\ UNCHANGED attempts

\* Only an inquiry into a first attempt can clear the way for another one.
ClearRetry ==
    /\ Move("inquiring", "claimed")
    /\ attempts = 1
    /\ UNCHANGED <<attempts, verdict>>

Next == Claim \/ Start \/ LoseTrack \/ Inquire \/ Decide \/ ClearRetry

Spec == Init /\ [][Next]_lifecycle
=============================================================================
