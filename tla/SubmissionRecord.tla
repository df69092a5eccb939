--------------------------- MODULE SubmissionRecord ---------------------------
(***************************************************************************)
(* The durable record of one signed-order submission, as                   *)
(* packages/gateway/src/submission-store.ts defines it, and the successor  *)
(* records that packages/gateway/src/submission.ts builds from it.         *)
(*                                                                         *)
(* The module has no variables: it is the data type shared by the store    *)
(* and by every service instance.  Timestamps that only describe a record  *)
(* (updatedAt, lastDispatchStartedAt, observedAt, leaseClaimedAt) and the  *)
(* digests of the evidence are left out: no decision of the service reads  *)
(* them.  Of the upstream order identifier only matters whether the        *)
(* validation of a record passes it.                                       *)
(***************************************************************************)
EXTENDS Integers, Sequences

CONSTANTS
    Owners,           \* service instances, by their ownerId
    Digests,          \* request digests a client may present under the key
    Results,          \* exact upstream results (the decoded bytes of an answer)
    None,             \* stands for an optional field that is absent
    DispatchLeaseMs,  \* lifetime of a dispatch lease
    ReconcileLeaseMs  \* lifetime of a reconcile lease

ASSUME NoneIsFresh == None \notin Owners \cup Digests \cup Results

ASSUME LeaseDurations == /\ DispatchLeaseMs \in Nat \ {0}
                         /\ ReconcileLeaseMs \in Nat \ {0}

EvidenceKinds ==
    {"transport-uncertain", "content-decoding-failed",
     "compare-and-set-uncertain", "found-accepted", "found-rejected",
     "absence-proved", "absence-unproved",
     "dispatch-lease-expired", "reconcile-lease-expired"}

Lease == [purpose : {"none", "dispatch", "reconcile"},
          owner   : Owners \cup {None},
          expires : Nat]

NoLease == [purpose |-> "none", owner |-> None, expires |-> 0]

NewLease(purpose, owner, now) ==
    [purpose |-> purpose,
     owner   |-> owner,
     expires |-> now + (IF purpose = "dispatch" THEN DispatchLeaseMs
                                                ELSE ReconcileLeaseMs)]

\* upstreamOrderIdentifier: absent or a text that is not empty, or empty.
Identifiers == {"usable", "empty"}

Record ==
    [version    : Nat,
     digest     : Digests \cup {None},
     state      : {"absent", "pending", "ambiguous", "accepted", "rejected"},
     phase      : {"none", "claimed", "started"},
     attempts   : Nat,
     lease      : Lease,
     result     : Results \cup {None},
     identifier : Identifiers,
     evidence   : Seq(EvidenceKinds)]

\* The key is not in the store.
NoRecord ==
    [version |-> 0, digest |-> None, state |-> "absent", phase |-> "none",
     attempts |-> 0, lease |-> NoLease, result |-> None,
     identifier |-> "usable", evidence |-> <<>>]

IsTerminal(r) == r.state \in {"accepted", "rejected"}

-----------------------------------------------------------------------------
(* What validateSubmissionRecord accepts; it throws on anything else. *)

ValidPending(r) ==
    /\ r.phase \in {"claimed", "started"}
    /\ r.lease.purpose = "dispatch"
    /\ r.result = None
    /\ r.phase = "claimed" => r.attempts <= 1
    /\ r.phase = "started" => r.attempts >= 1

ValidAmbiguous(r) ==
    /\ r.phase = "none"
    /\ r.result = None
    /\ r.lease.purpose \in {"none", "reconcile"}
    /\ r.attempts >= 1

ValidTerminal(r) ==
    /\ r.phase = "none"
    /\ r.lease.purpose = "none"
    /\ r.result # None
    /\ r.attempts >= 1

ValidRecord(r) ==
    /\ r.version >= 1
    /\ r.attempts <= 2
    /\ r.identifier # "empty"
    /\ \/ r.state = "pending" /\ ValidPending(r)
       \/ r.state = "ambiguous" /\ ValidAmbiguous(r)
       \/ IsTerminal(r) /\ ValidTerminal(r)

-----------------------------------------------------------------------------
(* The records the service writes. *)

InitialRecord(digest, owner, now) ==
    [version |-> 1, digest |-> digest, state |-> "pending",
     phase |-> "claimed", attempts |-> 0,
     lease |-> NewLease("dispatch", owner, now),
     result |-> None, identifier |-> "usable", evidence |-> <<>>]

\* recordWith: the next version; phase, lease, result and identifier do not
\* carry over unless the caller gives them again, attempts and evidence do.
Successor(r, state) ==
    [r EXCEPT !.version = @ + 1, !.state = state, !.phase = "none",
              !.lease = NoLease, !.result = None, !.identifier = "usable"]

Claimed(r, owner, now) ==
    [Successor(r, "pending") EXCEPT
        !.phase = "claimed", !.lease = NewLease("dispatch", owner, now)]

\* Fault: every attempt is counted as the first.
Started_AlwaysFirst(r) ==
    [Successor(r, "pending") EXCEPT !.phase = "started", !.attempts = 1, !.lease = r.lease]

\* The dispatch lease is kept as it is: starting does not renew it.
Started(r) ==
    [Successor(r, "pending") EXCEPT
        !.phase = "started", !.attempts = r.attempts + 1, !.lease = r.lease]

Ambiguous(r, kind) ==
    [Successor(r, "ambiguous") EXCEPT !.evidence = Append(r.evidence, kind)]

ReconcileClaimed(r, owner, now) ==
    [Successor(r, "ambiguous") EXCEPT
        !.lease = NewLease("reconcile", owner, now)]

Settled(r, state, result, identifier) ==
    [Successor(r, state) EXCEPT !.result = result, !.identifier = identifier]

FoundSettled(r, kind, result, identifier) ==
    [Settled(r, IF kind = "found-accepted" THEN "accepted" ELSE "rejected",
             result, identifier)
        EXCEPT !.evidence = Append(r.evidence, kind)]

RetryClaimed(r, owner, now) ==
    [Claimed(r, owner, now) EXCEPT
        !.evidence = Append(r.evidence, "absence-proved")]

\* Fault: the fence does not compare versions.
Matches_NoVersion(stored, expected) ==
    /\ stored.state = expected.state
    /\ stored.phase = expected.phase
    /\ stored.lease.purpose = expected.lease.purpose
    /\ stored.lease.owner = expected.lease.owner

\* expectationMatches on compareExpectation: the fence of a compare-and-set.
Matches(stored, expected) ==
    /\ stored.version = expected.version
    /\ stored.state = expected.state
    /\ stored.phase = expected.phase
    /\ stored.lease.purpose = expected.lease.purpose
    /\ stored.lease.owner = expected.lease.owner

Unexpired(r, now) == r.lease.purpose # "none" /\ r.lease.expires > now
=============================================================================
