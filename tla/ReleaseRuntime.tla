---------------------------- MODULE ReleaseRuntime ----------------------------
(***************************************************************************)
(* ReleaseController and AtomicReleaseRuntime                              *)
(* (packages/gateway/src/release-controller.ts): the operator's decisions  *)
(* to activate capabilities, what signed evidence makes of them, and the   *)
(* snapshot from which the gateway serves.                                 *)
(*                                                                         *)
(* A release is what one decision is bound to: the payloads of the         *)
(* deployment and the policy root and a build (package candidate and       *)
(* conformance).  Documents stand for their digests: two releases are the  *)
(* same exactly if all digests are.  Evidence is presented by callers, who *)
(* may present any that was ever signed, in any order.                     *)
(***************************************************************************)
EXTENDS Integers

CONSTANTS
    Capabilities,
    Builds,          \* package candidates with their conformance
    PolicyBuilds,    \* those whose conformance requires an active policy
    Generations,     \* generations of the roots
    Releases,        \* releases for which there is signed evidence
    None,
    MaxAge,          \* how long a snapshot may be served (maxAgeSeconds)
    MaxTime          \* bound on the clock

Statuses == {"staged", "active", "retired", "emergency-disabled"}

Root == [generation : Generations, status : Statuses]

Release == [deployment : Root, policy : Root, build : Builds]

ASSUME ReleasesAreSigned == Releases \subseteq Release /\ None \notin Releases
ASSUME AgeAndTime == MaxAge \in Nat /\ MaxTime \in Nat

VARIABLES
    intent,     \* the operator's intent for each capability, or None
    current,    \* the committed snapshot, or None
    now,        \* time
    lostAt,     \* history: when the capability last lost an intent
    decision    \* history: the last activation, and whether it was undone since

vars == <<intent, current, now, lostAt, decision>>

\* A capability as the inventory of a snapshot lists it: release stands for
\* the record's evidence, and for its operator binding where it is activated.
\* These are the records validateCapabilityRecord accepts.
CapabilityRecord ==
    {r \in [release : Releases, activated : BOOLEAN, healthy : BOOLEAN,
            callable : BOOLEAN] :
        /\ r.callable = (r.activated /\ r.healthy)
        /\ r.activated => r.release.deployment.status = "active"}

Snapshot == [inventory   : [Capabilities -> CapabilityRecord \cup {None}],
             refreshedAt : Nat]

Decision == [release : Releases \cup {None}, undone : BOOLEAN]

Init ==
    /\ intent = [c \in Capabilities |-> None]
    /\ current = None
    /\ now = 0
    /\ lostAt = [c \in Capabilities |-> 0]
    /\ decision = [c \in Capabilities |-> [release |-> None, undone |-> TRUE]]

-----------------------------------------------------------------------------
(* Evaluation of one release under an intent. *)

Ended == {"retired", "emergency-disabled"}

Terminal(x) ==
    \/ x.deployment.status \in Ended
    \/ x.build \in PolicyBuilds /\ x.policy.status \in Ended

\* Fault: the status of a required policy is not looked at.
Active_DeploymentOnly(x) == x.deployment.status = "active"

Active(x) ==
    /\ x.deployment.status = "active"
    /\ x.build \in PolicyBuilds => x.policy.status = "active"

\* Fault: an intent for another release is ignored but not cleared.
After_KeepsOther(i, x) == IF Terminal(x) THEN None ELSE i

\* The intent that evaluating x leaves: a terminal generation clears it, and
\* so does a release it is not bound to.
After(i, x) == IF Terminal(x) \/ i # x THEN None ELSE i

Activated(i, x) == ~Terminal(x) /\ Active(x) /\ i = x

\* The capability record that projects the state of a release: what a refresh
\* must find in the inventory it is given.
Projection(i, x, healthy) ==
    [release   |-> x,
     activated |-> Activated(i, x),
     healthy   |-> healthy,
     callable  |-> Activated(i, x) /\ healthy]

-----------------------------------------------------------------------------
(* Operations. *)

\* The new intents, and the history that follows from them.
SetIntents(new) ==
    /\ intent' = new
    /\ lostAt' = [c \in Capabilities |->
                     IF intent[c] # None /\ new[c] # intent[c]
                        THEN now ELSE lostAt[c]]

\* History: evidence x was presented for the capabilities of S.  It undoes a
\* decision for another release and every decision it ends.
Presented(S, x) ==
    decision' = [c \in Capabilities |->
        IF c \in S /\ (Terminal(x[c]) \/ x[c] # decision[c].release)
           THEN [decision[c] EXCEPT !.undone = TRUE] ELSE decision[c]]

Activate(c, x) ==
    /\ Active(x)
    /\ SetIntents([intent EXCEPT ![c] = After(x, x)])
    /\ decision' = [decision EXCEPT ![c] = [release |-> x, undone |-> FALSE]]
    /\ UNCHANGED <<current, now>>

Evaluate(c, x) ==
    /\ SetIntents([intent EXCEPT ![c] = After(@, x)])
    /\ Presented({c}, [d \in {c} |-> x])
    /\ UNCHANGED <<current, now>>

Deactivate(c) ==
    /\ SetIntents([intent EXCEPT ![c] = None])
    /\ decision' = [decision EXCEPT ![c].undone = TRUE]
    /\ UNCHANGED <<current, now>>

\* The effect of evaluating the releases x of the capabilities in S, in turn.
EvaluateAll(S, x) ==
    /\ SetIntents([c \in Capabilities |->
                      IF c \in S THEN After(intent[c], x[c]) ELSE intent[c]])
    /\ Presented(S, x)

\* The inventory given projects the state of every release, and becomes
\* current with all its capabilities at once.  The time of the refresh is the
\* caller's, read at or before it.
Refresh(S, x, healthy, at) ==
    /\ EvaluateAll(S, x)
    /\ current' = [inventory |-> [c \in Capabilities |->
                       IF c \in S THEN Projection(intent[c], x[c], c \in healthy)
                                  ELSE None],
                   refreshedAt |-> at]
    /\ UNCHANGED now

\* A refresh that throws after it evaluated the releases of S: the intents are
\* changed, the snapshot is not.
RefreshThrows(S, x) ==
    /\ EvaluateAll(S, x)
    /\ UNCHANGED <<current, now>>

Clear ==
    /\ current' = None
    /\ UNCHANGED <<intent, now, lostAt, decision>>

Tick ==
    /\ now < MaxTime
    /\ now' = now + 1
    /\ UNCHANGED <<intent, current, lostAt, decision>>

Operate(c) ==
    \/ \E x \in Releases : Activate(c, x) \/ Evaluate(c, x)
    \/ Deactivate(c)

RefreshSome ==
    \E S \in SUBSET Capabilities : \E x \in [S -> Releases] :
        \/ RefreshThrows(S, x)
        \/ \E healthy \in SUBSET S, at \in 0..now : Refresh(S, x, healthy, at)

Next == Clear \/ Tick \/ RefreshSome \/ \E c \in Capabilities : Operate(c)

Spec == Init /\ [][Next]_vars

-----------------------------------------------------------------------------
(* What the runtime serves. *)

\* Fault: a snapshot is served one unit of time too long.
Fresh_OffByOne(s, time) == s.refreshedAt <= time /\ time - s.refreshedAt <= MaxAge + 1

\* snapshot(observedAt) does not throw.
Fresh(s, time) == s.refreshedAt <= time /\ time - s.refreshedAt <= MaxAge

Lists(s, c) == s # None /\ s.inventory[c] # None /\ s.inventory[c].callable

\* A reader of the snapshot finds the capability callable now.
Served(c) == Lists(current, c) /\ Fresh(current, now)

\* Type invariant; what is current is an inventory of valid records.
TypeOK ==
    /\ intent \in [Capabilities -> Releases \cup {None}]
    /\ current \in Snapshot \cup {None}
    /\ now \in Nat
    /\ lostAt \in [Capabilities -> Nat]
    /\ decision \in [Capabilities -> Decision]

\* However a decision comes to its end (deactivation, terminal evidence, other
\* evidence, even in a refresh that throws), the snapshot taken under it is
\* served for at most MaxAge longer.
RevocationIsBounded ==
    \A c \in Capabilities :
        Served(c) /\ intent[c] # current.inventory[c].release =>
            now - lostAt[c] <= MaxAge

\* A capability becomes callable only under a decision made for exactly the
\* evidence of the refresh, with nothing in between that undid it: no health
\* recovery and no return of older evidence restores an intent.
CallableByDecision ==
    [][\A c \in Capabilities :
          current' # current /\ Lists(current', c) =>
              /\ ~decision[c].undone
              /\ decision[c].release = current'.inventory[c].release]_vars

\* What is listed as callable was in force: no root it stands on was staged,
\* retired or disabled.
CallableIsActive ==
    \A c \in Capabilities : Lists(current, c) =>
        LET x == current.inventory[c].release
        IN  {x.deployment.status} \cup
                (IF x.build \in PolicyBuilds THEN {x.policy.status} ELSE {})
            = {"active"}
=============================================================================
