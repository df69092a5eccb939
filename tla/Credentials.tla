------------------------------ MODULE Credentials ------------------------------
(***************************************************************************)
(* CredentialControl.authenticate and the RevocationCache it asks          *)
(* (packages/gateway/src/controls.ts), for one credential presented by     *)
(* concurrent requests.                                                    *)
(*                                                                         *)
(* A request runs atomically between its awaits: the verifier, then the    *)
(* revocation source if the cache has no fresh entry.  The source looks    *)
(* the credential up at some moment between the question and the answer,   *)
(* and answers may overtake each other.                                    *)
(***************************************************************************)
EXTENDS Integers

CONSTANTS
    Requests,
    MaximumAgeMs,   \* how long a cache entry may be used
    MaxClock,       \* bound on the clock
    None

ASSUME AgeAndTime == MaximumAgeMs \in Nat /\ MaxClock \in Nat
ASSUME NoneIsNoTime == None \notin Int

VARIABLES
    clock,      \* the gateway's clock
    entry,      \* the cache entry of the credential, or None
    revokedAt,  \* when the credential was revoked at the source, or None
    claims,     \* the times after which the credential may not be used
    pc,         \* where each request is
    readAt,     \* the clock value a request asks the source with
    looked,     \* what the source saw when it looked the credential up
    told        \* what the request was told

credentialVars == <<clock, entry, revokedAt, claims, pc, readAt, looked, told>>

Time == Nat \cup {None}

Entry == [revoked : BOOLEAN, checkedAt : Nat]

Reply == {"none", "ok", "invalid", "expired", "review", "revoked", "threw"}

CredentialsInit ==
    /\ clock = 0
    /\ entry = None
    /\ revokedAt = None
    /\ claims \in [expires : (0..MaxClock) \cup {None},
                   review  : (0..MaxClock) \cup {None}]
    /\ pc = [r \in Requests |-> "idle"]
    /\ readAt = [r \in Requests |-> 0]
    /\ looked = [r \in Requests |-> FALSE]
    /\ told = [r \in Requests |-> "none"]

-----------------------------------------------------------------------------

Return(r, code) ==
    /\ pc' = [pc EXCEPT ![r] = "done"]
    /\ told' = [told EXCEPT ![r] = code]

Passed(time) == time # None /\ clock >= time

Verdict(revoked) == IF revoked THEN "revoked" ELSE "ok"

Usable(e, time) == e # None /\ time - e.checkedAt < MaximumAgeMs

\* The verifier has answered: check the claims, then the cache.
Authenticate(r) ==
    /\ pc[r] = "idle"
    /\ readAt' = [readAt EXCEPT ![r] = clock]
    /\ \/ Return(r, "invalid")
       \/ Passed(claims.expires) /\ Return(r, "expired")
       \/ /\ ~Passed(claims.expires)
          /\ \/ Passed(claims.review) /\ Return(r, "review")
             \/ /\ ~Passed(claims.review)
                /\ IF Usable(entry, clock)
                      THEN Return(r, Verdict(entry.revoked))
                      ELSE pc' = [pc EXCEPT ![r] = "asked"] /\ UNCHANGED told
    /\ UNCHANGED <<clock, entry, revokedAt, claims, looked>>

\* The source looks the credential up.
LookUp(r) ==
    /\ pc[r] = "asked"
    /\ pc' = [pc EXCEPT ![r] = "looked"]
    /\ looked' = [looked EXCEPT ![r] = revokedAt # None]
    /\ UNCHANGED <<clock, entry, revokedAt, claims, readAt, told>>

\* Fault: the entry is dated when the answer arrives.
CheckedAt_OnArrival(r) == clock

\* The entry is dated when the question was asked.
CheckedAt(r) == readAt[r]

\* The source's answer arrives: it replaces whatever the cache holds.
Learn(r) ==
    /\ pc[r] = "looked"
    /\ entry' = [revoked |-> looked[r], checkedAt |-> CheckedAt(r)]
    /\ Return(r, Verdict(looked[r]))
    /\ UNCHANGED <<clock, revokedAt, claims, readAt, looked>>

\* The source fails: the exception leaves authenticate, nothing is cached.
SourceFails(r) ==
    /\ pc[r] \in {"asked", "looked"}
    /\ Return(r, "threw")
    /\ UNCHANGED <<clock, entry, revokedAt, claims, readAt, looked>>

Revoke ==
    /\ revokedAt = None
    /\ revokedAt' = clock
    /\ UNCHANGED <<clock, entry, claims, pc, readAt, looked, told>>

ClockTick ==
    /\ clock < MaxClock
    /\ clock' = clock + 1
    /\ UNCHANGED <<entry, revokedAt, claims, pc, readAt, looked, told>>

CredentialsNext ==
    \/ Revoke \/ ClockTick
    \/ \E r \in Requests :
          Authenticate(r) \/ LookUp(r) \/ Learn(r) \/ SourceFails(r)

CredentialsSpec == CredentialsInit /\ [][CredentialsNext]_credentialVars

-----------------------------------------------------------------------------

\* Type invariant; no time that was read or recorded lies in the future.
CredentialTypeOK ==
    /\ clock \in Nat
    /\ entry \in Entry \cup {None}
    /\ entry # None => entry.checkedAt <= clock
    /\ revokedAt \in Time
    /\ revokedAt # None => revokedAt <= clock
    /\ claims \in [expires : Time, review : Time]
    /\ pc \in [Requests -> {"idle", "asked", "looked", "done"}]
    /\ readAt \in [Requests -> Nat]
    /\ \A r \in Requests : readAt[r] <= clock
    /\ looked \in [Requests -> BOOLEAN]
    /\ told \in [Requests -> Reply]

\* A request is let in only if, when it was checked, the credential had not
\* been revoked for as long as the maximum age, however slow the source was and
\* in whatever order its answers arrived.  A revocation in the same instant as
\* the check may be missed even without a cache.
RevocationIsBounded ==
    \A r \in Requests :
        told[r] = "ok" /\ revokedAt # None =>
            readAt[r] - revokedAt < MaximumAgeMs \/ readAt[r] <= revokedAt
=============================================================================
