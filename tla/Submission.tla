------------------------------ MODULE Submission ------------------------------
(***************************************************************************)
(* SubmissionService (packages/gateway/src/submission.ts) running in       *)
(* several gateway instances against one durable repository, for one       *)
(* submission key (principalId, upstreamProfileId, clientRequestId).       *)
(*                                                                         *)
(* A call is one invocation of submit() or reconcile().  Its code runs     *)
(* atomically from one await to the next; whatever it read before an await *)
(* may be out of date after it.  pc[c] names the await the call is at:     *)
(*                                                                         *)
(*   submit     create -> expire | reclaim | start                         *)
(*              reclaim -> start -> send -> await -> settle | blur         *)
(*   reconcile  read -> resume -> lapse | release | claim                  *)
(*              claim -> ask -> conclude | retry | yield                   *)
(*                                                                         *)
(* and "done" once it has returned, "thrown" once it has failed with an    *)
(* exception, "crashed" once its process is gone.                          *)
(***************************************************************************)
EXTENDS SubmissionRecord

CONSTANTS
    Calls,         \* invocations of the service, each made once
    OwnerOf,       \* the instance that executes a call
    Skew,          \* how far the clock of an instance is ahead
    MaxTime,       \* bound on the clock
    CasMayRefuse   \* the repository may refuse a write that it could make

ASSUME CallsHaveOwners == OwnerOf \in [Calls -> Owners]
ASSUME ClockModel == Skew \in [Owners -> Nat] /\ MaxTime \in Nat
ASSUME CasModel == CasMayRefuse \in BOOLEAN

VARIABLES
    rec,      \* the repository's record of the key
    now,      \* time
    pc,       \* where each call is
    req,      \* the request of each call: operation and digest
    seen,     \* the record a call holds, from its last read or write
    readAt,   \* the clock value a call holds
    answer,   \* what the upstream adapter answered a call
    reply,    \* what a call returned
    sent      \* history: the upstream submissions made, by call

vars == <<rec, now, pc, req, seen, readAt, answer, reply, sent>>

Request == [op : {"none", "submit", "reconcile"}, digest : Digests \cup {None}]
Answer  == [kind : {"none", "accepted", "rejected"} \cup EvidenceKinds,
            result : Results \cup {None},
            identifier : Identifiers,
            evidence : BOOLEAN]      \* the evidence identity can be digested
Status  == {"none", "accepted", "rejected", "retry-authorized",
            "in-progress", "unknown", "conflict", "invalid"}
Reply   == [status : Status, result : Results \cup {None}]
Sending == [attempt : Nat, digest : Digests \cup {None}]

Pcs == {"idle", "create", "expire", "reclaim", "start", "send", "await",
        "settle", "blur", "read", "resume", "lapse", "release", "claim",
        "ask", "conclude", "retry", "yield", "done", "thrown", "crashed"}

Writing == {"expire", "reclaim", "start", "settle", "blur",
            "lapse", "release", "claim", "conclude", "retry", "yield"}

\* Between the durable start of a dispatch and what is recorded of it, and
\* between the claim of a reconciliation and its outcome.
Dispatching == {"send", "await", "settle", "blur"}
Asking      == {"ask", "conclude", "retry", "yield"}

\* An answer without a verdict; its evidence may be no canonical JSON.
Unproved(kind, evidence) ==
    [kind |-> kind, result |-> None, identifier |-> "usable",
     evidence |-> evidence]

\* An answer with the exact upstream result.
Decided(kind, result, identifier, evidence) ==
    [kind |-> kind, result |-> result, identifier |-> identifier,
     evidence |-> evidence]

NoAnswer == Unproved("none", TRUE)
NoReply  == [status |-> "none", result |-> None]
NotSent  == [attempt |-> 0, digest |-> None]

Clock(c) == now + Skew[OwnerOf[c]]

Init ==
    /\ rec = NoRecord
    /\ now = 0
    /\ pc = [c \in Calls |-> "idle"]
    /\ req = [c \in Calls |-> [op |-> "none", digest |-> None]]
    /\ seen = [c \in Calls |-> NoRecord]
    /\ readAt = [c \in Calls |-> 0]
    /\ answer = [c \in Calls |-> NoAnswer]
    /\ reply = [c \in Calls |-> NoReply]
    /\ sent = [c \in Calls |-> NotSent]

-----------------------------------------------------------------------------
(* Steps shared by the handlers. *)

Goto(c, l) == pc' = [pc EXCEPT ![c] = l] /\ UNCHANGED reply

ReturnResult(c, status, result) ==
    /\ pc' = [pc EXCEPT ![c] = "done"]
    /\ reply' = [reply EXCEPT ![c] = [status |-> status, result |-> result]]

Return(c, status) == ReturnResult(c, status, None)

\* The record a call at one of its compare-and-set awaits wants to store.
PendingWrite(c) ==
    LET r == seen[c]
        o == OwnerOf[c]
        a == answer[c]
    IN  CASE pc[c] \in {"expire", "lapse"} -> Ambiguous(r, "dispatch-lease-expired")
          [] pc[c] = "reclaim"  -> Claimed(r, o, readAt[c])
          [] pc[c] = "start"    -> Started(r)
          [] pc[c] = "settle"   -> Settled(r, a.kind, a.result, a.identifier)
          [] pc[c] = "blur"     -> Ambiguous(r, a.kind)
          [] pc[c] = "release"  -> Ambiguous(r, "reconcile-lease-expired")
          [] pc[c] = "claim"    -> ReconcileClaimed(r, o, readAt[c])
          [] pc[c] = "conclude" -> FoundSettled(r, a.kind, a.result, a.identifier)
          [] pc[c] = "retry"    -> RetryClaimed(r, o, readAt[c])
          [] pc[c] = "yield"    -> Ambiguous(r, a.kind)

\* createEvidence and recordWith go through: neither the digest of the
\* evidence nor the validation of the record throws.
Buildable(c) == answer[c].evidence /\ ValidRecord(PendingWrite(c))

\* compareAndSet with outcome updated: true; the call keeps the new record.
Stores(c) ==
    /\ Buildable(c)
    /\ Matches(rec, seen[c])
    /\ rec' = PendingWrite(c)
    /\ seen' = [seen EXCEPT ![c] = PendingWrite(c)]

\* compareAndSet with outcome updated: false.
Refused(c) ==
    /\ Buildable(c)
    /\ Matches(rec, seen[c]) => CasMayRefuse
    /\ UNCHANGED <<rec, seen>>

Local == <<now, req, readAt, answer, sent>>

\* The record cannot be built: the exception leaves the handler before the
\* compare-and-set, and what the upstream answered is lost.
Throws(c) ==
    /\ pc[c] \in Writing
    /\ ~Buildable(c)
    /\ Goto(c, "thrown")
    /\ UNCHANGED <<rec, seen, Local>>

-----------------------------------------------------------------------------
(* submit() *)

BeginSubmit(c) ==
    /\ pc[c] = "idle"
    /\ \E d \in Digests :
          req' = [req EXCEPT ![c] = [op |-> "submit", digest |-> d]]
    /\ readAt' = [readAt EXCEPT ![c] = Clock(c)]
    /\ Goto(c, "create")
    /\ UNCHANGED <<rec, now, seen, answer, sent>>

\* createIfAbsent made the record: dispatch it.
CreateFresh(c) ==
    /\ pc[c] = "create"
    /\ rec = NoRecord
    /\ rec' = InitialRecord(req[c].digest, OwnerOf[c], readAt[c])
    /\ seen' = [seen EXCEPT ![c] = rec']
    /\ Goto(c, "start")
    /\ UNCHANGED Local

\* Fault: a key may be reused for another request.
Conflicts_Never(c, r) == FALSE

Conflicts(c, r) == r.digest # req[c].digest

\* Fault: leases are ignored when a submission finds a record.
Held_Ignored(c, r) == r.lease.owner = OwnerOf[c]

\* The lease is alive as far as the call can tell.
Held(c, r) == Unexpired(r, readAt[c])

Replays(c, r) == ReturnResult(c, r.state, r.result)

\* createIfAbsent found a record: decide from it and from the time the call
\* read before the await.
CreateFound(c) ==
    /\ pc[c] = "create"
    /\ rec # NoRecord
    /\ seen' = [seen EXCEPT ![c] = rec]
    /\ \/ Conflicts(c, rec) /\ Return(c, "conflict")
       \/ /\ ~Conflicts(c, rec)
          /\ \/ IsTerminal(rec) /\ Replays(c, rec)
             \/ /\ rec.state = "ambiguous"
                /\ Return(c, IF Held(c, rec) THEN "in-progress" ELSE "unknown")
             \/ /\ rec.phase = "started"
                /\ IF Held(c, rec) THEN Return(c, "in-progress")
                                   ELSE Goto(c, "expire")
             \/ /\ rec.phase = "claimed"
                /\ IF ~Held(c, rec) THEN Goto(c, "reclaim")
                   ELSE IF rec.lease.owner = OwnerOf[c] THEN Goto(c, "start")
                   ELSE Return(c, "in-progress")
    /\ UNCHANGED <<rec, Local>>

Expire(c) ==
    /\ pc[c] = "expire"
    /\ Stores(c) \/ Refused(c)
    /\ Return(c, "unknown")
    /\ UNCHANGED Local

Reclaim(c) ==
    /\ pc[c] = "reclaim"
    /\ \/ Stores(c) /\ Goto(c, "start")
       \/ Refused(c) /\ Return(c, "in-progress")
    /\ UNCHANGED Local

\* The durable claimed -> started transition that precedes every submission.
StartDispatch(c) ==
    /\ pc[c] = "start"
    /\ \/ Stores(c) /\ Goto(c, "send")
       \/ Refused(c) /\ Return(c, "in-progress")
    /\ UNCHANGED Local

\* adapter.submit is called: from here the order may reach the upstream.
Send(c) ==
    /\ pc[c] = "send"
    /\ sent' = [sent EXCEPT ![c] =
                  [attempt |-> seen[c].attempts, digest |-> req[c].digest]]
    /\ Goto(c, "await")
    /\ UNCHANGED <<rec, now, req, seen, readAt, answer>>

\* adapter.submit resolves or throws.  A throw is transport uncertainty, a
\* result that does not validate is a decoding failure; the identifier and
\* the evidence identity are taken as the adapter gives them.
SubmitAnswer(c) ==
    /\ pc[c] = "await"
    /\ \/ \E k \in {"accepted", "rejected"}, r \in Results, i \in Identifiers :
             /\ answer' = [answer EXCEPT ![c] = Decided(k, r, i, TRUE)]
             /\ Goto(c, "settle")
       \/ \E k \in {"transport-uncertain", "content-decoding-failed"},
             e \in BOOLEAN :
             /\ answer' = [answer EXCEPT ![c] = Unproved(k, e)]
             /\ Goto(c, "blur")
    /\ UNCHANGED <<rec, now, req, seen, readAt, sent>>

\* Fault: the verdict is returned although it was not stored.
Unsettled_ReturnsVerdict(c) ==
    /\ ReturnResult(c, answer[c].kind, answer[c].result)
    /\ UNCHANGED answer

\* A verdict the store refuses falls back to ambiguity.
Unsettled(c) ==
    /\ answer' = [answer EXCEPT ![c] = Unproved("compare-and-set-uncertain", TRUE)]
    /\ Goto(c, "blur")

Settle(c) ==
    /\ pc[c] = "settle"
    /\ \/ /\ Stores(c)
          /\ ReturnResult(c, answer[c].kind, answer[c].result)
          /\ UNCHANGED answer
       \/ Refused(c) /\ Unsettled(c)
    /\ UNCHANGED <<now, req, readAt, sent>>

MarkAmbiguous(c) ==
    /\ pc[c] = "blur"
    /\ Stores(c) \/ Refused(c)
    /\ Return(c, "unknown")
    /\ UNCHANGED Local

-----------------------------------------------------------------------------
(* reconcile() *)

BeginReconcile(c) ==
    /\ pc[c] = "idle"
    /\ \E d \in Digests :
          req' = [req EXCEPT ![c] = [op |-> "reconcile", digest |-> d]]
    /\ Goto(c, "read")
    /\ UNCHANGED <<rec, now, seen, readAt, answer, sent>>

ReadRecord(c) ==
    /\ pc[c] = "read"
    /\ seen' = [seen EXCEPT ![c] = rec]
    /\ Goto(c, "resume")
    /\ UNCHANGED <<rec, Local>>

\* Fault: an expired claim is treated like an expired dispatch.
StillPending_LeaseOnly(r, time) == Unexpired(r, time)

\* Fault: a dispatch under a live lease is declared over.
StillPending_ClaimOnly(r, time) == r.phase = "claimed"

\* Someone is dispatching, or nothing was dispatched yet.
StillPending(r, time) == Unexpired(r, time) \/ r.phase = "claimed"

\* The read has returned: the clock is read now, the record was read earlier.
Resume(c) ==
    LET r == seen[c] IN
    /\ pc[c] = "resume"
    /\ readAt' = [readAt EXCEPT ![c] = Clock(c)]
    /\ \/ r = NoRecord /\ Return(c, "invalid")
       \/ r # NoRecord /\ Conflicts(c, r) /\ Return(c, "conflict")
       \/ /\ r # NoRecord /\ ~Conflicts(c, r)
          /\ \/ IsTerminal(r) /\ Replays(c, r)
             \/ /\ r.state = "pending"
                /\ IF StillPending(r, Clock(c))
                      THEN Return(c, "in-progress")
                      ELSE Goto(c, "lapse")
             \/ /\ r.state = "ambiguous"
                /\ IF Unexpired(r, Clock(c)) THEN Return(c, "in-progress")
                   ELSE IF r.lease.purpose # "none" THEN Goto(c, "release")
                   ELSE Goto(c, "claim")
    /\ UNCHANGED <<rec, now, req, seen, answer, sent>>

\* An expired started dispatch becomes idle ambiguous before it is claimed.
LapseDispatch(c) ==
    /\ pc[c] = "lapse"
    /\ \/ Stores(c) /\ Goto(c, "claim")
       \/ Refused(c) /\ Return(c, "in-progress")
    /\ UNCHANGED Local

\* So does an ambiguous record whose reconcile lease has expired.
ReleaseLease(c) ==
    /\ pc[c] = "release"
    /\ \/ Stores(c) /\ Goto(c, "claim")
       \/ Refused(c) /\ Return(c, "in-progress")
    /\ UNCHANGED Local

ClaimReconcile(c) ==
    /\ pc[c] = "claim"
    /\ \/ Stores(c) /\ Goto(c, "ask")
       \/ Refused(c) /\ Return(c, "in-progress")
    /\ UNCHANGED Local

\* adapter.reconcile resolves or throws (a throw proves nothing).
FoundUpstream(c) ==
    \E k \in {"found-accepted", "found-rejected"}, r \in Results,
      i \in Identifiers, e \in BOOLEAN :
        /\ answer' = [answer EXCEPT ![c] = Decided(k, r, i, e)]
        /\ Goto(c, "conclude")

\* Fault: unproved absence authorizes a retry too.
AbsentUpstream_WithoutProof(c) ==
    \E k \in {"absence-proved", "absence-unproved"}, e \in BOOLEAN :
        /\ answer' = [answer EXCEPT ![c] = Unproved(k, e)]
        /\ Goto(c, IF seen[c].attempts = 1 THEN "retry" ELSE "yield")

\* Proved absence authorizes a retry only while a single attempt was made.
AbsentUpstream(c) ==
    /\ \E e \in BOOLEAN :
          answer' = [answer EXCEPT ![c] = Unproved("absence-proved", e)]
    /\ Goto(c, IF seen[c].attempts = 1 THEN "retry" ELSE "yield")

UnknownUpstream(c) ==
    \E k \in {"absence-unproved", "content-decoding-failed"}, e \in BOOLEAN :
        /\ answer' = [answer EXCEPT ![c] = Unproved(k, e)]
        /\ Goto(c, "yield")

ReconcileAnswer(c) ==
    /\ pc[c] = "ask"
    /\ readAt' = [readAt EXCEPT ![c] = Clock(c)]
    /\ FoundUpstream(c) \/ AbsentUpstream(c) \/ UnknownUpstream(c)
    /\ UNCHANGED <<rec, now, req, seen, sent>>

Conclude(c) ==
    /\ pc[c] = "conclude"
    /\ \/ Stores(c) /\ Replays(c, PendingWrite(c))
       \/ Refused(c) /\ Return(c, "unknown")
    /\ UNCHANGED Local

AuthorizeRetry(c) ==
    /\ pc[c] = "retry"
    /\ \/ Stores(c) /\ Return(c, "retry-authorized")
       \/ Refused(c) /\ Return(c, "unknown")
    /\ UNCHANGED Local

\* Fault: the reconcile lease is not given back.
YieldUnknown_KeepsLease(c) ==
    /\ pc[c] = "yield"
    /\ Return(c, "unknown")
    /\ UNCHANGED <<rec, seen, Local>>

YieldUnknown(c) ==
    /\ pc[c] = "yield"
    /\ Stores(c) \/ Refused(c)
    /\ Return(c, "unknown")
    /\ UNCHANGED Local

-----------------------------------------------------------------------------
(* The environment. *)

\* The process of a call dies, or its connection to the repository does.
Crash(c) ==
    /\ pc[c] \notin {"idle", "done", "thrown", "crashed"}
    /\ Goto(c, "crashed")
    /\ UNCHANGED <<rec, seen, Local>>

\* The write was made, and the process dies before the call goes on.
CrashAfterWrite(c) ==
    /\ pc[c] \in Writing
    /\ Stores(c)
    /\ Goto(c, "crashed")
    /\ UNCHANGED Local

Tick ==
    /\ now < MaxTime
    /\ now' = now + 1
    /\ UNCHANGED <<rec, pc, req, seen, readAt, answer, reply, sent>>

Submit(c) ==
    \/ BeginSubmit(c) \/ CreateFresh(c) \/ CreateFound(c) \/ Expire(c)
    \/ Reclaim(c) \/ StartDispatch(c) \/ Send(c) \/ SubmitAnswer(c)
    \/ Settle(c) \/ MarkAmbiguous(c)

Reconcile(c) ==
    \/ BeginReconcile(c) \/ ReadRecord(c) \/ Resume(c) \/ LapseDispatch(c)
    \/ ReleaseLease(c) \/ ClaimReconcile(c) \/ ReconcileAnswer(c)
    \/ Conclude(c) \/ AuthorizeRetry(c) \/ YieldUnknown(c)

Next == Tick \/ \E c \in Calls :
            \/ Submit(c) \/ Reconcile(c)
            \/ Throws(c) \/ Crash(c) \/ CrashAfterWrite(c)

Spec == Init /\ [][Next]_vars

-----------------------------------------------------------------------------
(* Safety. *)

\* Type invariant: what the variables hold; a stored record is a valid one.
TypeOK ==
    /\ rec \in Record
    /\ rec = NoRecord \/ ValidRecord(rec)
    /\ now \in Nat
    /\ pc \in [Calls -> Pcs]
    /\ req \in [Calls -> Request]
    /\ seen \in [Calls -> Record]
    /\ readAt \in [Calls -> Nat]
    /\ answer \in [Calls -> Answer]
    /\ reply \in [Calls -> Reply]
    /\ sent \in [Calls -> Sending]

\* The order is handed to the upstream at most twice, and each attempt number
\* by a single call, whatever instances race, stall or die: the durable
\* claimed -> started transition gives an attempt to one dispatcher.
AttemptsAreExclusive ==
    \A c \in Calls :
        /\ sent[c].attempt \in 0..2
        /\ \A d \in Calls :
              sent[c].attempt = sent[d].attempt /\ sent[c].attempt > 0 => c = d

\* No handler builds, from a record that another handler stored, one that
\* validateSubmissionRecord rejects: an exception, which after an upstream call
\* loses its outcome, leaves a handler only with an answer of the adapter whose
\* order identifier is empty or whose evidence identity cannot be digested.
OnlyBadAnswersThrow ==
    \A c \in Calls :
        pc[c] = "thrown" => answer[c].identifier = "empty" \/ ~answer[c].evidence

\* A call that knew the first attempt to be absent upstream and stored that a
\* second may be made.
ProvedAbsence(c) ==
    answer[c].kind = "absence-proved" /\ seen[c].phase = "claimed"

\* The order is sent again only after a reconciliation proved that the first
\* attempt is absent upstream, and that happens at most once.
ResendOnlyAfterAbsence ==
    /\ \A c \in Calls : sent[c].attempt = 2 => \E d \in Calls : ProvedAbsence(d)
    /\ \A c, d \in Calls : ProvedAbsence(c) /\ ProvedAbsence(d) => c = d

\* Once a second attempt is allowed, a call that is still making the first has
\* outlived its lease, however its steps fell between those of the
\* reconciliation: only a dispatcher that overran may still reach the upstream
\* beside the retry.  (It needs synchronized clocks: Skew = 0.)
RetryAfterDispatch ==
    \A c, d \in Calls :
        /\ ProvedAbsence(d)
        /\ pc[c] \in Dispatching /\ seen[c].attempts = 1
        => ~Unexpired(seen[c], now)

\* Every verdict ever returned for the key is the one stored now: first
\* answers and replays agree on the state and on the exact upstream result.
VerdictsAgree ==
    \A c \in Calls :
        reply[c].status \in {"accepted", "rejected"} =>
            reply[c].status = rec.state /\ reply[c].result = rec.result

\* Whatever reached the upstream under the key is the request whose digest the
\* key is bound to; a caller with another digest learns nothing but conflict.
KeyBindsOneRequest ==
    \A c \in Calls :
        /\ sent[c].attempt > 0 => sent[c].digest = rec.digest
        /\ pc[c] = "done" /\ req[c].digest # rec.digest =>
              reply[c].status = "conflict" \/ rec = NoRecord
                  \/ (req[c].op = "reconcile" /\ reply[c].status = "invalid")

\* Work on the key is never abandoned silently: while a dispatch is started or
\* a reconciliation claimed, the call that did it is still at work, or has
\* crashed or failed with an exception.  (It needs a store that makes the writes it can make.)
NoOrphanedWork ==
    /\ rec.phase = "started" =>
         \E c \in Calls : /\ seen[c] = rec
                          /\ pc[c] \in Dispatching \cup {"thrown", "crashed"}
    /\ rec.lease.purpose = "reconcile" =>
         \E c \in Calls : /\ seen[c] = rec
                          /\ pc[c] \in Asking \cup {"thrown", "crashed"}

-----------------------------------------------------------------------------
(* What a step may never do. *)

\* A record under a live lease is changed only by the instance holding the
\* lease, although every contender judges the lease by a clock it read before
\* its awaits.  (It needs synchronized clocks: Skew = 0.)
LiveLeaseIsRespected ==
    [][Unexpired(rec, now) /\ rec' # rec =>
           \E c \in Calls : OwnerOf[c] = rec.lease.owner /\ pc'[c] # pc[c]]_vars

\* A verdict that a record can hold and that arrives within the dispatch lease is
\* recorded: the fallback to ambiguity happens only once the lease is over.  (It
\* needs synchronized clocks and a store that makes the writes it can make.)
VerdictInTimeIsStored ==
    [][\A c \in Calls : pc[c] = "settle" /\ pc'[c] = "blur" =>
           ~Unexpired(seen[c], now)]_vars

-----------------------------------------------------------------------------
(* The abstract life of a submission that the record goes through. *)

Stage ==
    CASE rec.state = "absent"    -> "absent"
      [] rec.state = "pending"   -> rec.phase
      [] rec.state = "ambiguous" -> IF rec.lease.purpose = "none"
                                       THEN "unknown" ELSE "inquiring"
      [] OTHER                   -> rec.state

Lifecycle == INSTANCE SubmissionLifecycle
                 WITH stage <- Stage, attempts <- rec.attempts,
                      verdict <- rec.result

\* Every instance's steps move the record along the abstract life cycle.
FollowsLifecycle == Lifecycle!Spec

=============================================================================
