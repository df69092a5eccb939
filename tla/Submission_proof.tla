--------------------------- MODULE Submission_proof ---------------------------
(***************************************************************************)
(* Theorems about Submission, for any instances, calls, requests, results, *)
(* lease durations and clock skews, and for a repository that may refuse;  *)
(* two need synchronized clocks, two a repository that does not.           *)
(***************************************************************************)
EXTENDS Submission, TLAPS

-----------------------------------------------------------------------------
(* The inductive invariant. *)

\* What a call holds when it is about to act on it.
SeenShape ==
    \A c \in Calls :
        /\ seen[c] = NoRecord \/ ValidRecord(seen[c])
        /\ pc[c] \in {"expire", "lapse", "send", "await", "settle", "blur"} =>
              seen[c].phase = "started"
        /\ pc[c] \in {"reclaim", "start"} => seen[c].phase = "claimed"
        /\ pc[c] = "claim" =>
              seen[c].state = "ambiguous" /\ seen[c].lease.purpose = "none"
        /\ pc[c] \in {"release", "ask", "conclude", "retry", "yield"} =>
              seen[c].state = "ambiguous" /\ seen[c].lease.purpose = "reconcile"
        /\ pc[c] = "retry" => seen[c].attempts = 1

\* The answer a call is about to record.
AnswerShape ==
    \A c \in Calls :
        /\ pc[c] = "settle" =>
              /\ answer[c].kind \in {"accepted", "rejected"}
              /\ answer[c].result \in Results
        /\ pc[c] = "conclude" =>
              /\ answer[c].kind \in {"found-accepted", "found-rejected"}
              /\ answer[c].result \in Results
        /\ pc[c] \in {"blur", "yield"} => answer[c].kind \in EvidenceKinds
        /\ pc[c] = "retry" => answer[c].kind = "absence-proved"
        /\ pc[c] = "thrown" => answer[c].identifier = "empty" \/ ~answer[c].evidence

TypeInv == TypeOK /\ SeenShape /\ AnswerShape

-----------------------------------------------------------------------------
(* The records the service writes. *)

\* NoRecord is a record, though not a valid one.
LEMMA NoRecordType == NoRecord \in Record /\ ~ValidRecord(NoRecord)
BY DEF NoRecord, Record, Identifiers, Lease, NoLease, ValidRecord

\* A new lease is a lease.
LEMMA NewLeaseType ==
    ASSUME NEW purpose \in {"dispatch", "reconcile"}, NEW o \in Owners,
           NEW t \in Nat
    PROVE  /\ NewLease(purpose, o, t) \in Lease
           /\ NewLease(purpose, o, t).purpose = purpose
           /\ NewLease(purpose, o, t).owner = o
BY LeaseDurations DEF NewLease, Lease

\* The first record of a key is valid.
LEMMA InitialRecordValid ==
    ASSUME NEW d \in Digests \cup {None}, NEW o \in Owners, NEW t \in Nat
    PROVE  /\ InitialRecord(d, o, t) \in Record
           /\ ValidRecord(InitialRecord(d, o, t))
BY NewLeaseType
DEF InitialRecord, Record, Identifiers, ValidRecord, ValidPending, IsTerminal

\* A record stays one when fields are replaced by values of their types.
LEMMA UpdateType ==
    ASSUME NEW r \in Record
    PROVE  /\ \A ev \in Seq(EvidenceKinds) : [r EXCEPT !.evidence = ev] \in Record
           /\ \A x \in Results \cup {None}, i \in Identifiers :
                 [r EXCEPT !.result = x, !.identifier = i] \in Record
           /\ \A L \in Lease : [r EXCEPT !.lease = L] \in Record
           /\ \A L \in Lease :
                 [r EXCEPT !.phase = "claimed", !.lease = L] \in Record
           /\ \A L \in Lease, a \in Nat :
                 [r EXCEPT !.phase = "started", !.attempts = a, !.lease = L] \in Record
BY DEF Record

\* recordWith keeps the type of a record and advances its version.
LEMMA SuccessorType ==
    ASSUME NEW r \in Record,
           NEW state \in {"pending", "ambiguous", "accepted", "rejected"}
    PROVE  /\ Successor(r, state) \in Record
           /\ Successor(r, state).version = r.version + 1
           /\ Successor(r, state).digest = r.digest
           /\ Successor(r, state).state = state
           /\ Successor(r, state).phase = "none"
           /\ Successor(r, state).attempts = r.attempts
           /\ Successor(r, state).lease = NoLease
           /\ Successor(r, state).result = None
           /\ Successor(r, state).identifier = "usable"
           /\ Successor(r, state).evidence = r.evidence
<1>1. NoLease \in Lease /\ r.version + 1 \in Nat /\ "usable" \in Identifiers
  BY DEF NoLease, Lease, Record, Identifiers
<1>2. \A v \in Nat :
         [r EXCEPT !.version = v, !.state = state, !.phase = "none",
                   !.lease = NoLease, !.result = None,
                   !.identifier = "usable"] \in Record
  BY <1>1 DEF Record
<1>3. Successor(r, state) \in Record
  BY <1>1, <1>2, Zenon DEF Successor
<1> QED
  BY <1>3 DEF Successor, Record

\* The records built from a record of at least one attempt are valid.
LEMMA AmbiguousValid ==
    ASSUME NEW r \in Record, r.attempts \in 1..2, NEW k \in EvidenceKinds
    PROVE  LET w == Ambiguous(r, k)
           IN  /\ w \in Record /\ ValidRecord(w)
               /\ w.version = r.version + 1 /\ w.digest = r.digest
               /\ w.attempts = r.attempts
               /\ w.state = "ambiguous" /\ w.lease.purpose = "none"
<1> DEFINE s == Successor(r, "ambiguous")
<1>1. Append(r.evidence, k) \in Seq(EvidenceKinds) /\ r.version \in Nat
  BY DEF Record
<1>2. s \in Record
  BY SuccessorType
<1>3. [s EXCEPT !.evidence = Append(r.evidence, k)] \in Record
  BY <1>1, <1>2, UpdateType, Zenon
<1>4. Ambiguous(r, k) = [s EXCEPT !.evidence = Append(r.evidence, k)]
  BY DEF Ambiguous
<1>5. /\ s.version = r.version + 1 /\ s.digest = r.digest
      /\ s.state = "ambiguous" /\ s.phase = "none" /\ s.attempts = r.attempts
      /\ s.lease = NoLease /\ s.result = None /\ s.identifier = "usable"
  BY SuccessorType
<1> HIDE DEF s
<1> DEFINE w == Ambiguous(r, k)
<1>6. /\ w.version = r.version + 1 /\ w.digest = r.digest
      /\ w.state = "ambiguous" /\ w.phase = "none" /\ w.attempts = r.attempts
      /\ w.lease = NoLease /\ w.result = None /\ w.identifier = "usable"
  BY <1>2, <1>4, <1>5 DEF Record
<1>7. w \in Record
  BY <1>3, <1>4
<1> HIDE DEF w
<1> QED
  BY <1>1, <1>6, <1>7 DEF ValidRecord, ValidAmbiguous, NoLease, w

LEMMA ReconcileClaimedValid ==
    ASSUME NEW r \in Record, r.attempts \in 1..2, NEW o \in Owners, NEW t \in Nat
    PROVE  LET w == ReconcileClaimed(r, o, t)
           IN  /\ w \in Record /\ ValidRecord(w)
               /\ w.version = r.version + 1 /\ w.digest = r.digest
               /\ w.attempts = r.attempts
               /\ w.state = "ambiguous" /\ w.lease.purpose = "reconcile"
               /\ w.lease.owner = o
<1> DEFINE s == Successor(r, "ambiguous")  L == NewLease("reconcile", o, t)
<1>1. L \in Lease /\ L.purpose = "reconcile" /\ L.owner = o /\ r.version \in Nat
  BY NewLeaseType DEF Record
<1>2. s \in Record
  BY SuccessorType
<1>3. [s EXCEPT !.lease = L] \in Record
  BY <1>1, <1>2, UpdateType, Zenon
<1> HIDE DEF L
<1>4. ReconcileClaimed(r, o, t) = [s EXCEPT !.lease = L]
  BY DEF ReconcileClaimed, L
<1>5. /\ s.version = r.version + 1 /\ s.digest = r.digest
      /\ s.state = "ambiguous" /\ s.phase = "none" /\ s.attempts = r.attempts
      /\ s.result = None /\ s.identifier = "usable"
  BY SuccessorType
<1> HIDE DEF s
<1> DEFINE w == ReconcileClaimed(r, o, t)
<1>6. /\ w.version = r.version + 1 /\ w.digest = r.digest
      /\ w.state = "ambiguous" /\ w.phase = "none" /\ w.attempts = r.attempts
      /\ w.lease = L /\ w.result = None /\ w.identifier = "usable"
  BY <1>2, <1>4, <1>5 DEF Record
<1>7. w \in Record
  BY <1>3, <1>4
<1> HIDE DEF w
<1> QED
  BY <1>1, <1>6, <1>7 DEF ValidRecord, ValidAmbiguous, w

LEMMA SettledValid ==
    ASSUME NEW r \in Record, r.attempts \in 1..2,
           NEW state \in {"accepted", "rejected"}, NEW x \in Results,
           NEW i \in Identifiers
    PROVE  LET w == Settled(r, state, x, i)
           IN  /\ w \in Record /\ IsTerminal(w)
               /\ i = "usable" => ValidRecord(w)
               /\ w.version = r.version + 1 /\ w.digest = r.digest
               /\ w.attempts = r.attempts
               /\ w.state = state /\ w.result = x /\ w.evidence = r.evidence
<1> DEFINE s == Successor(r, state)
<1>1. s \in Record /\ r.version \in Nat
  BY SuccessorType DEF Record
<1>2. [s EXCEPT !.result = x, !.identifier = i] \in Record
  BY <1>1, UpdateType, Zenon
<1>3. /\ s.version = r.version + 1 /\ s.digest = r.digest
      /\ s.state = state /\ s.phase = "none" /\ s.attempts = r.attempts
      /\ s.lease = NoLease /\ s.evidence = r.evidence
  BY SuccessorType
<1>4. Settled(r, state, x, i) = [s EXCEPT !.result = x, !.identifier = i]
  BY DEF Settled
<1> HIDE DEF s
<1> DEFINE w == Settled(r, state, x, i)
<1>5. /\ w.version = r.version + 1 /\ w.digest = r.digest
      /\ w.state = state /\ w.phase = "none" /\ w.attempts = r.attempts
      /\ w.lease = NoLease /\ w.evidence = r.evidence /\ w.result = x
      /\ w.identifier = i
  BY <1>1, <1>3, <1>4 DEF Record
<1>6. w \in Record
  BY <1>2, <1>4
<1> HIDE DEF w
<1> QED
  BY <1>1, <1>5, <1>6, NoneIsFresh
  DEF ValidRecord, ValidTerminal, IsTerminal, NoLease, w

LEMMA FoundSettledValid ==
    ASSUME NEW r \in Record, r.attempts \in 1..2,
           NEW k \in {"found-accepted", "found-rejected"}, NEW x \in Results,
           NEW i \in Identifiers
    PROVE  LET w == FoundSettled(r, k, x, i)
           IN  /\ w \in Record /\ IsTerminal(w)
               /\ i = "usable" => ValidRecord(w)
               /\ w.version = r.version + 1 /\ w.digest = r.digest
               /\ w.attempts = r.attempts
               /\ w.result = x
<1> DEFINE state == IF k = "found-accepted" THEN "accepted" ELSE "rejected"
           s == Settled(r, state, x, i)
<1>1. /\ s \in Record /\ IsTerminal(s)
      /\ i = "usable" => ValidRecord(s)
      /\ s.version = r.version + 1 /\ s.digest = r.digest
      /\ s.attempts = r.attempts
      /\ s.result = x /\ s.evidence = r.evidence
  BY SettledValid
<1> HIDE DEF s
<1>2. Append(r.evidence, k) \in Seq(EvidenceKinds)
  BY DEF Record, EvidenceKinds
<1>3. [s EXCEPT !.evidence = Append(r.evidence, k)] \in Record
  BY <1>1, <1>2, UpdateType, Zenon
<1>4. FoundSettled(r, k, x, i) = [s EXCEPT !.evidence = Append(r.evidence, k)]
  BY DEF FoundSettled, s
<1> QED
  BY <1>1, <1>3, <1>4
  DEF Record, ValidRecord, ValidPending, ValidAmbiguous, ValidTerminal, IsTerminal

\* So are those that claim and start an attempt, if one is left.
LEMMA ClaimedValid ==
    ASSUME NEW r \in Record, r.attempts \in 0..1, NEW o \in Owners, NEW t \in Nat
    PROVE  LET w == Claimed(r, o, t)
           IN  /\ w \in Record /\ ValidRecord(w)
               /\ w.version = r.version + 1 /\ w.digest = r.digest
               /\ w.attempts = r.attempts
               /\ w.state = "pending" /\ w.phase = "claimed"
               /\ w.evidence = r.evidence /\ w.lease.owner = o
<1> DEFINE s == Successor(r, "pending")  L == NewLease("dispatch", o, t)
<1>1. L \in Lease /\ L.purpose = "dispatch" /\ L.owner = o /\ r.version \in Nat
  BY NewLeaseType DEF Record
<1>2. s \in Record
  BY SuccessorType
<1>3. [s EXCEPT !.phase = "claimed", !.lease = L] \in Record
  BY <1>1, <1>2, UpdateType, Zenon
<1> HIDE DEF L
<1>4. Claimed(r, o, t) = [s EXCEPT !.phase = "claimed", !.lease = L]
  BY DEF Claimed, L
<1>5. /\ s.version = r.version + 1 /\ s.digest = r.digest
      /\ s.state = "pending" /\ s.attempts = r.attempts
      /\ s.result = None /\ s.identifier = "usable" /\ s.evidence = r.evidence
  BY SuccessorType
<1> HIDE DEF s
<1> DEFINE w == Claimed(r, o, t)
<1>6. /\ w.version = r.version + 1 /\ w.digest = r.digest
      /\ w.state = "pending" /\ w.phase = "claimed" /\ w.attempts = r.attempts
      /\ w.lease = L /\ w.result = None /\ w.identifier = "usable"
      /\ w.evidence = r.evidence
  BY <1>2, <1>4, <1>5 DEF Record
<1>7. w \in Record
  BY <1>3, <1>4
<1> HIDE DEF w
<1> QED
  BY <1>1, <1>6, <1>7 DEF ValidRecord, ValidPending, w

LEMMA RetryClaimedValid ==
    ASSUME NEW r \in Record, r.attempts = 1, NEW o \in Owners, NEW t \in Nat
    PROVE  LET w == RetryClaimed(r, o, t)
           IN  /\ w \in Record /\ ValidRecord(w)
               /\ w.version = r.version + 1 /\ w.digest = r.digest
               /\ w.attempts = r.attempts
               /\ w.state = "pending" /\ w.phase = "claimed"
<1> DEFINE s == Claimed(r, o, t)
<1>1. /\ s \in Record /\ ValidRecord(s)
      /\ s.version = r.version + 1 /\ s.digest = r.digest
      /\ s.attempts = r.attempts
      /\ s.state = "pending" /\ s.phase = "claimed"
      /\ s.evidence = r.evidence
  BY ClaimedValid
<1> HIDE DEF s
<1>2. Append(r.evidence, "absence-proved") \in Seq(EvidenceKinds)
  BY DEF Record, EvidenceKinds
<1>3. [s EXCEPT !.evidence = Append(r.evidence, "absence-proved")] \in Record
  BY <1>1, <1>2, UpdateType, Zenon
<1>4. RetryClaimed(r, o, t) =
         [s EXCEPT !.evidence = Append(r.evidence, "absence-proved")]
  BY DEF RetryClaimed, s
<1> QED
  BY <1>1, <1>3, <1>4
  DEF Record, ValidRecord, ValidPending, ValidAmbiguous, ValidTerminal, IsTerminal

LEMMA StartedValid ==
    ASSUME NEW r \in Record, r.attempts \in 0..1, r.lease.purpose = "dispatch"
    PROVE  LET w == Started(r)
           IN  /\ w \in Record /\ ValidRecord(w)
               /\ w.version = r.version + 1 /\ w.digest = r.digest
               /\ w.attempts = r.attempts + 1
               /\ w.state = "pending" /\ w.phase = "started" /\ w.lease = r.lease
<1> DEFINE s == Successor(r, "pending")  n == r.attempts + 1
<1>1. r.lease \in Lease /\ n \in Nat /\ r.version \in Nat
  BY DEF Record
<1>2. s \in Record
  BY SuccessorType
<1> HIDE DEF n
<1>3. [s EXCEPT !.phase = "started", !.attempts = n, !.lease = r.lease] \in Record
  BY <1>1, <1>2, UpdateType, Zenon
<1>4. Started(r) = [s EXCEPT !.phase = "started", !.attempts = n,
                             !.lease = r.lease]
  BY DEF Started, n
<1>5. /\ s.version = r.version + 1 /\ s.digest = r.digest
      /\ s.state = "pending" /\ s.result = None /\ s.identifier = "usable"
  BY SuccessorType
<1> HIDE DEF s
<1> DEFINE w == Started(r)
<1>6. /\ w.version = r.version + 1 /\ w.digest = r.digest
      /\ w.state = "pending" /\ w.phase = "started" /\ w.attempts = n
      /\ w.lease = r.lease /\ w.result = None /\ w.identifier = "usable"
  BY <1>2, <1>4, <1>5 DEF Record
<1>7. w \in Record
  BY <1>3, <1>4
<1> HIDE DEF w
<1> QED
  BY <1>1, <1>6, <1>7 DEF ValidRecord, ValidPending, n, w

\* What the write pending at each await is, in terms of the record held.
Writes(c, w) ==
    /\ w.version = seen[c].version + 1
    /\ w.digest = seen[c].digest
    /\ pc[c] # "start" => w.attempts = seen[c].attempts
    /\ pc[c] \in {"expire", "lapse", "blur", "release", "yield"} =>
          w.state = "ambiguous" /\ w.lease.purpose = "none"
    /\ pc[c] \in {"reclaim", "retry"} => w.phase = "claimed"
    /\ pc[c] = "start" =>
          w.phase = "started" /\ w.attempts = seen[c].attempts + 1
    /\ pc[c] = "claim" => w.state = "ambiguous" /\ w.lease.purpose = "reconcile"
    /\ pc[c] \in {"settle", "conclude"} =>
          IsTerminal(w) /\ w.result \in Results
    /\ pc[c] \in {"reclaim", "claim"} => w.lease.owner = OwnerOf[c]
    /\ pc[c] = "start" => w.lease = seen[c].lease
    /\ pc[c] = "settle" => w.state = answer[c].kind /\ w.result = answer[c].result

\* Every write a call may have pending is a record, and a valid one unless it
\* would hold an empty order identifier.
LEMMA PendingWriteValid ==
    ASSUME TypeInv, NEW c \in Calls, pc[c] \in Writing
    PROVE  /\ PendingWrite(c) \in Record
           /\ answer[c].identifier = "usable" => ValidRecord(PendingWrite(c))
           /\ Writes(c, PendingWrite(c))
<1> DEFINE r == seen[c]  o == OwnerOf[c]  t == readAt[c]  a == answer[c]
<1>1. /\ r \in Record /\ o \in Owners /\ t \in Nat
      /\ r = NoRecord \/ ValidRecord(r)
      /\ r.attempts \in Nat /\ a.identifier \in Identifiers
  BY CallsHaveOwners DEF TypeInv, TypeOK, SeenShape, Record, Answer
<1>2. r.phase = "started" => r.attempts \in 1..2
  BY <1>1 DEF NoRecord, ValidRecord, ValidPending, ValidAmbiguous, ValidTerminal
<1>3. r.state = "ambiguous" => r.attempts \in 1..2
  BY <1>1 DEF NoRecord, ValidRecord, ValidAmbiguous, IsTerminal
<1>4. r.phase = "claimed" => r.attempts \in 0..1 /\ r.lease.purpose = "dispatch"
  BY <1>1 DEF NoRecord, ValidRecord, ValidPending, ValidAmbiguous, ValidTerminal
<1>5. CASE pc[c] \in {"expire", "lapse"}
  <2>1. PendingWrite(c) = Ambiguous(r, "dispatch-lease-expired")
    BY <1>5 DEF PendingWrite
  <2>2. r.attempts \in 1..2 /\ "dispatch-lease-expired" \in EvidenceKinds
    BY <1>2, <1>5 DEF TypeInv, SeenShape, EvidenceKinds
  <2> QED
    BY <1>1, <1>5, <2>1, <2>2, AmbiguousValid DEF Writes
<1>6. CASE pc[c] = "reclaim"
  <2>1. PendingWrite(c) = Claimed(r, o, t) /\ r.attempts \in 0..1
    BY <1>4, <1>6 DEF PendingWrite, TypeInv, SeenShape
  <2> QED
    BY <1>1, <1>6, <2>1, ClaimedValid DEF Writes
<1>7. CASE pc[c] = "start"
  <2>1. /\ PendingWrite(c) = Started(r)
        /\ r.attempts \in 0..1 /\ r.lease.purpose = "dispatch"
    BY <1>4, <1>7 DEF PendingWrite, TypeInv, SeenShape
  <2> QED
    BY <1>1, <1>7, <2>1, StartedValid DEF Writes
<1>8. CASE pc[c] = "settle"
  <2>1. /\ PendingWrite(c) = Settled(r, a.kind, a.result, a.identifier)
        /\ a.kind \in {"accepted", "rejected"} /\ a.result \in Results
        /\ r.attempts \in 1..2
    BY <1>2, <1>8 DEF PendingWrite, TypeInv, SeenShape, AnswerShape
  <2> QED
    BY <1>1, <1>8, <2>1, SettledValid DEF Writes
<1>9. CASE pc[c] \in {"blur", "yield"}
  <2>1. /\ PendingWrite(c) = Ambiguous(r, a.kind)
        /\ r.attempts \in 1..2 /\ a.kind \in EvidenceKinds
    BY <1>2, <1>3, <1>9 DEF PendingWrite, TypeInv, SeenShape, AnswerShape
  <2> QED
    BY <1>1, <1>9, <2>1, AmbiguousValid DEF Writes
<1>10. CASE pc[c] = "release"
  <2>1. PendingWrite(c) = Ambiguous(r, "reconcile-lease-expired")
    BY <1>10 DEF PendingWrite
  <2>2. r.attempts \in 1..2 /\ "reconcile-lease-expired" \in EvidenceKinds
    BY <1>3, <1>10 DEF TypeInv, SeenShape, EvidenceKinds
  <2> QED
    BY <1>1, <1>10, <2>1, <2>2, AmbiguousValid DEF Writes
<1>11. CASE pc[c] = "claim"
  <2>1. PendingWrite(c) = ReconcileClaimed(r, o, t) /\ r.attempts \in 1..2
    BY <1>3, <1>11 DEF PendingWrite, TypeInv, SeenShape
  <2> QED
    BY <1>1, <1>11, <2>1, ReconcileClaimedValid DEF Writes
<1>12. CASE pc[c] = "conclude"
  <2>1. /\ PendingWrite(c) = FoundSettled(r, a.kind, a.result, a.identifier)
        /\ a.kind \in {"found-accepted", "found-rejected"}
        /\ a.result \in Results
        /\ r.attempts \in 1..2
    BY <1>3, <1>12 DEF PendingWrite, TypeInv, SeenShape, AnswerShape
  <2> QED
    BY <1>1, <1>12, <2>1, FoundSettledValid DEF Writes
<1>13. CASE pc[c] = "retry"
  <2>1. PendingWrite(c) = RetryClaimed(r, o, t) /\ r.attempts = 1
    BY <1>13 DEF PendingWrite, TypeInv, SeenShape
  <2> QED
    BY <1>1, <1>13, <2>1, RetryClaimedValid DEF Writes
<1> QED
  BY <1>5, <1>6, <1>7, <1>8, <1>9, <1>10, <1>11, <1>12, <1>13 DEF Writing
-----------------------------------------------------------------------------
(* Type correctness. *)

\* A successful compare-and-set stores a valid record, which the call keeps.
LEMMA StoresType ==
    ASSUME TypeInv, NEW c \in Calls, pc[c] \in Writing, Stores(c)
    PROVE  /\ rec' \in Record /\ ValidRecord(rec') /\ Writes(c, rec')
           /\ seen' \in [Calls -> Record]
           /\ seen' = [seen EXCEPT ![c] = rec']
BY PendingWriteValid DEF Stores, Buildable, TypeInv, TypeOK

\* Moving on and returning keep the types of the control state.
LEMMA GotoType ==
    ASSUME TypeOK, NEW c \in Calls, NEW l \in Pcs, Goto(c, l)
    PROVE  /\ pc' \in [Calls -> Pcs] /\ reply' \in [Calls -> Reply]
           /\ pc' = [pc EXCEPT ![c] = l] /\ reply' = reply
BY DEF TypeOK, Goto

LEMMA ReturnType ==
    ASSUME TypeOK, NEW c \in Calls, NEW status \in Status,
           NEW x \in Results \cup {None}, ReturnResult(c, status, x)
    PROVE  /\ pc' \in [Calls -> Pcs] /\ reply' \in [Calls -> Reply]
           /\ pc' = [pc EXCEPT ![c] = "done"]
           /\ reply' = [reply EXCEPT ![c] = [status |-> status, result |-> x]]
BY DEF TypeOK, ReturnResult, Reply, Pcs

\* Every step preserves the invariant: one step below for each action.
THEOREM TypeInvStep == TypeInv /\ [Next]_vars => TypeInv'
<1> SUFFICES ASSUME TypeInv, [Next]_vars PROVE TypeInv'
  OBVIOUS
<1> USE DEF TypeInv, Local
<1>types. \A c \in Calls : /\ OwnerOf[c] \in Owners
                           /\ Clock(c) \in Nat
                           /\ readAt[c] \in Nat
                           /\ answer[c] \in Answer
                           /\ seen[c] \in Record
  BY CallsHaveOwners, ClockModel DEF Clock, TypeOK
<1>labels. /\ Pcs = {"idle", "create", "expire", "reclaim", "start", "send", "await",
                     "settle", "blur", "read", "resume", "lapse", "release", "claim",
                     "ask", "conclude", "retry", "yield", "done", "thrown",
                     "crashed"}
           /\ None \in Results \cup {None}
           /\ {"accepted", "rejected", "retry-authorized", "in-progress",
               "unknown", "conflict", "invalid"} \subseteq Status
  BY DEF Pcs, Status
<1>1. ASSUME NEW c \in Calls, BeginSubmit(c) PROVE TypeInv'
  <2>1. pc' \in [Calls -> Pcs] /\ reply' \in [Calls -> Reply]
    BY <1>1, <1>labels, GotoType DEF BeginSubmit
  <2>2. \A d \in Digests : [op |-> "submit", digest |-> d] \in Request
    BY DEF Request
  <2>3. req' \in [Calls -> Request]
    BY <1>1, <2>2 DEF TypeOK, BeginSubmit
  <2>4. TypeOK'
    BY <1>1, <1>types, <2>1, <2>3 DEF TypeOK, BeginSubmit
  <2>5. SeenShape' /\ AnswerShape'
    BY <1>1 DEF TypeOK, SeenShape, AnswerShape, Goto, BeginSubmit
  <2> QED
    BY <2>4, <2>5
<1>2. ASSUME NEW c \in Calls, CreateFresh(c) PROVE TypeInv'
  <2>1. pc' \in [Calls -> Pcs] /\ reply' \in [Calls -> Reply]
    BY <1>2, <1>labels, GotoType DEF CreateFresh
  <2>2. req[c].digest \in Digests \cup {None}
    BY DEF TypeOK, Request
  <2>3. rec' \in Record /\ ValidRecord(rec') /\ rec'.phase = "claimed"
    BY <1>2, <1>types, <2>2, InitialRecordValid DEF InitialRecord, CreateFresh
  <2>4. seen' = [seen EXCEPT ![c] = rec'] /\ seen' \in [Calls -> Record]
    BY <1>2, <2>3 DEF TypeOK, CreateFresh
  <2>5. TypeOK'
    BY <1>2, <2>1, <2>3, <2>4 DEF TypeOK, CreateFresh
  <2>6. SeenShape' /\ AnswerShape'
    BY <1>2, <2>3, <2>4 DEF TypeOK, SeenShape, AnswerShape, Goto, CreateFresh
  <2> QED
    BY <2>5, <2>6
<1>3. ASSUME NEW c \in Calls, CreateFound(c) PROVE TypeInv'
  <2>1. pc' \in [Calls -> Pcs] /\ reply' \in [Calls -> Reply]
    <3>1. CASE Return(c, "conflict")
      BY <1>labels, <3>1, ReturnType DEF Return
    <3>2. CASE IsTerminal(rec) /\ Replays(c, rec)
      BY <1>labels, <3>2, ReturnType DEF Replays, IsTerminal, TypeOK, Record
    <3>3. CASE Return(c, "in-progress") \/ Return(c, "unknown")
      BY <1>labels, <3>3, ReturnType DEF Return
    <3>4. CASE Goto(c, "expire") \/ Goto(c, "start") \/ Goto(c, "reclaim")
      BY <1>labels, <3>4, GotoType
    <3> QED
      BY <1>3, <3>1, <3>2, <3>3, <3>4 DEF CreateFound
  <2>2. TypeOK'
    BY <1>3, <2>1 DEF TypeOK, CreateFound
  <2>3. /\ ValidRecord(rec) /\ seen' = [seen EXCEPT ![c] = rec]
        /\ \/ pc' = [pc EXCEPT ![c] = "done"]
           \/ pc' = [pc EXCEPT ![c] = "expire"] /\ rec.phase = "started"
           \/ pc' = [pc EXCEPT ![c] = "start"] /\ rec.phase = "claimed"
           \/ pc' = [pc EXCEPT ![c] = "reclaim"] /\ rec.phase = "claimed"
    BY <1>3 DEF TypeOK, Replays, Goto, Return, ReturnResult, CreateFound
  <2>4. SeenShape' /\ AnswerShape'
    BY <1>3, <2>3 DEF TypeOK, SeenShape, AnswerShape, CreateFound
  <2> QED
    BY <2>2, <2>4
<1>4. ASSUME NEW c \in Calls, Send(c) PROVE TypeInv'
  <2>1. pc' \in [Calls -> Pcs] /\ reply' \in [Calls -> Reply]
    BY <1>4, <1>labels, GotoType DEF Send
  <2>2. [attempt |-> seen[c].attempts, digest |-> req[c].digest] \in Sending
    BY <1>types DEF TypeOK, Record, Request, Sending
  <2>3. TypeOK'
    BY <1>4, <2>1, <2>2 DEF TypeOK, Send
  <2>4. SeenShape' /\ AnswerShape'
    BY <1>4 DEF TypeOK, SeenShape, AnswerShape, Goto, Send
  <2> QED
    BY <2>3, <2>4
<1>5. ASSUME NEW c \in Calls, SubmitAnswer(c) PROVE TypeInv'
  <2>1. pc' \in [Calls -> Pcs] /\ reply' \in [Calls -> Reply]
    BY <1>5, <1>labels, GotoType DEF SubmitAnswer
  <2>2. /\ \A k \in EvidenceKinds, e \in BOOLEAN :
              Unproved(k, e) \in Answer /\ Unproved(k, e).kind = k
        /\ {"transport-uncertain", "content-decoding-failed"} \subseteq EvidenceKinds
    BY DEF Answer, EvidenceKinds, Identifiers, Unproved
  <2>3. \/ /\ pc' = [pc EXCEPT ![c] = "settle"]
           /\ \E a \in Answer : /\ answer' = [answer EXCEPT ![c] = a]
                                /\ a.kind \in {"accepted", "rejected"}
                                /\ a.result \in Results
        \/ /\ pc' = [pc EXCEPT ![c] = "blur"]
           /\ \E a \in Answer : /\ answer' = [answer EXCEPT ![c] = a]
                                /\ a.kind \in EvidenceKinds
    <3>1. ASSUME NEW k \in {"accepted", "rejected"}, NEW x \in Results,
                 NEW i \in Identifiers,
                 answer' = [answer EXCEPT ![c] = Decided(k, x, i, TRUE)]
          PROVE  \E a \in Answer : /\ answer' = [answer EXCEPT ![c] = a]
                                   /\ a.kind \in {"accepted", "rejected"}
                                   /\ a.result \in Results
      <4> DEFINE b == Decided(k, x, i, TRUE)
      <4>1. b \in Answer /\ b.kind = k /\ b.result = x
        BY DEF Answer, Decided
      <4> HIDE DEF b
      <4>2. answer' = [answer EXCEPT ![c] = b]
        BY <3>1 DEF b
      <4> QED
        BY <4>1, <4>2
    <3>2. ASSUME NEW k \in {"transport-uncertain", "content-decoding-failed"},
                 NEW e \in BOOLEAN, answer' = [answer EXCEPT ![c] = Unproved(k, e)]
          PROVE  \E a \in Answer : /\ answer' = [answer EXCEPT ![c] = a]
                                   /\ a.kind \in EvidenceKinds
      <4> DEFINE b == Unproved(k, e)
      <4>1. b \in Answer /\ b.kind \in EvidenceKinds
        BY <2>2
      <4> HIDE DEF b
      <4>2. answer' = [answer EXCEPT ![c] = b]
        BY <3>2 DEF b
      <4> QED
        BY <4>1, <4>2
    <3> QED
      BY <1>5, <3>1, <3>2 DEF SubmitAnswer, Goto
  <2>4. answer' \in [Calls -> Answer]
    BY <2>3 DEF TypeOK
  <2>5. TypeOK'
    BY <1>5, <2>1, <2>4 DEF TypeOK, SubmitAnswer
  <2>6. SeenShape'
    BY <1>5, <2>3 DEF TypeOK, SeenShape, SubmitAnswer
  <2>7. AnswerShape'
    BY <2>3 DEF TypeOK, AnswerShape
  <2> QED
    BY <2>5, <2>6, <2>7
<1>6. ASSUME NEW c \in Calls, BeginReconcile(c) PROVE TypeInv'
  <2>1. pc' \in [Calls -> Pcs] /\ reply' \in [Calls -> Reply]
    BY <1>6, <1>labels, GotoType DEF BeginReconcile
  <2>2. \A d \in Digests : [op |-> "reconcile", digest |-> d] \in Request
    BY DEF Request
  <2>3. req' \in [Calls -> Request]
    BY <1>6, <2>2 DEF TypeOK, BeginReconcile
  <2>4. TypeOK'
    BY <1>6, <1>types, <2>1, <2>3 DEF TypeOK, BeginReconcile
  <2>5. SeenShape' /\ AnswerShape'
    BY <1>6 DEF TypeOK, SeenShape, AnswerShape, Goto, BeginReconcile
  <2> QED
    BY <2>4, <2>5
<1>7. ASSUME NEW c \in Calls, ReadRecord(c) PROVE TypeInv'
  <2>1. pc' \in [Calls -> Pcs] /\ reply' \in [Calls -> Reply]
    BY <1>7, <1>labels, GotoType DEF ReadRecord
  <2>2. TypeOK'
    BY <1>7, <2>1 DEF TypeOK, ReadRecord
  <2>3. SeenShape' /\ AnswerShape'
    BY <1>7 DEF TypeOK, SeenShape, AnswerShape, Goto, ReadRecord
  <2> QED
    BY <2>2, <2>3
<1>8. ASSUME NEW c \in Calls, Resume(c) PROVE TypeInv'
  <2> DEFINE r == seen[c]
  <2>1. pc' \in [Calls -> Pcs] /\ reply' \in [Calls -> Reply]
    <3>1. CASE Return(c, "invalid") \/ Return(c, "conflict") \/ Return(c, "in-progress")
      BY <1>labels, <3>1, ReturnType DEF Return
    <3>2. CASE IsTerminal(r) /\ Replays(c, r)
      BY <1>labels, <1>types, <3>2, ReturnType DEF Replays, IsTerminal, Record
    <3>3. CASE Goto(c, "lapse") \/ Goto(c, "release") \/ Goto(c, "claim")
      BY <1>labels, <3>3, GotoType
    <3> QED
      BY <1>8, <3>1, <3>2, <3>3 DEF Resume
  <2>2. TypeOK'
    BY <1>8, <1>types, <2>1 DEF TypeOK, Resume
  <2>3. r # NoRecord =>
           /\ r.state = "pending" => r.phase \in {"claimed", "started"}
           /\ r.state = "ambiguous" => r.lease.purpose \in {"none", "reconcile"}
    BY <1>types DEF SeenShape, ValidRecord, ValidPending, ValidAmbiguous, IsTerminal
  <2>4. \/ pc' = [pc EXCEPT ![c] = "done"]
        \/ pc' = [pc EXCEPT ![c] = "lapse"] /\ r.phase = "started"
        \/ /\ pc' = [pc EXCEPT ![c] = "release"]
           /\ r.state = "ambiguous" /\ r.lease.purpose = "reconcile"
        \/ /\ pc' = [pc EXCEPT ![c] = "claim"]
           /\ r.state = "ambiguous" /\ r.lease.purpose = "none"
    BY <1>8, <2>3 DEF StillPending, Replays, Goto, Return, ReturnResult, Resume
  <2>5. SeenShape' /\ AnswerShape'
    BY <1>8, <2>4 DEF TypeOK, SeenShape, AnswerShape, Resume
  <2> QED
    BY <2>2, <2>5
<1>9. ASSUME NEW c \in Calls, ReconcileAnswer(c) PROVE TypeInv'
  <2>1. pc' \in [Calls -> Pcs] /\ reply' \in [Calls -> Reply]
    BY <1>9, <1>labels, GotoType
    DEF FoundUpstream, AbsentUpstream, UnknownUpstream, ReconcileAnswer
  <2>2. \/ /\ pc' = [pc EXCEPT ![c] = "conclude"]
           /\ \E k \in {"found-accepted", "found-rejected"}, x \in Results,
                 i \in Identifiers, e \in BOOLEAN :
                 answer' = [answer EXCEPT ![c] = Decided(k, x, i, e)]
        \/ /\ \/ pc' = [pc EXCEPT ![c] = "retry"] /\ seen[c].attempts = 1
              \/ pc' = [pc EXCEPT ![c] = "yield"]
           /\ \E e \in BOOLEAN :
                 answer' = [answer EXCEPT ![c] = Unproved("absence-proved", e)]
        \/ /\ pc' = [pc EXCEPT ![c] = "yield"]
           /\ \E k \in {"absence-unproved", "content-decoding-failed"}, e \in BOOLEAN :
                 answer' = [answer EXCEPT ![c] = Unproved(k, e)]
    BY <1>9 DEF FoundUpstream, AbsentUpstream, UnknownUpstream, Goto, ReconcileAnswer
  <2>3. /\ \A k \in {"found-accepted", "found-rejected"}, x \in Results,
              i \in Identifiers, e \in BOOLEAN :
              /\ Decided(k, x, i, e) \in Answer
              /\ Decided(k, x, i, e).kind = k /\ Decided(k, x, i, e).result = x
        /\ \A k \in EvidenceKinds, e \in BOOLEAN :
              Unproved(k, e) \in Answer /\ Unproved(k, e).kind = k
        /\ {"absence-proved", "absence-unproved", "content-decoding-failed"}
              \subseteq EvidenceKinds
    BY DEF Answer, EvidenceKinds, Identifiers, Decided, Unproved
  <2>4. answer' \in [Calls -> Answer]
    BY <2>2, <2>3 DEF TypeOK
  <2>5. TypeOK'
    BY <1>9, <1>types, <2>1, <2>4 DEF TypeOK, ReconcileAnswer
  <2>6. SeenShape'
    BY <1>9, <2>2 DEF TypeOK, SeenShape, ReconcileAnswer
  <2>7. AnswerShape'
    BY <2>2, <2>3 DEF TypeOK, AnswerShape
  <2> QED
    BY <2>5, <2>6, <2>7
<1>10. ASSUME NEW c \in Calls, Expire(c) PROVE TypeInv'
  <2>1. pc' \in [Calls -> Pcs] /\ reply' \in [Calls -> Reply]
    BY <1>10, <1>labels, GotoType, ReturnType DEF Return, Expire
  <2>3. Stores(c) => /\ rec' \in Record /\ ValidRecord(rec') /\ Writes(c, rec')
                     /\ seen' = [seen EXCEPT ![c] = rec']
    BY <1>10, StoresType DEF Writing, Expire
  <2>4. TypeOK'
    BY <1>10, <1>types, <2>1, <2>3 DEF TypeOK, Refused, Expire
  <2>5. /\ Stores(c) \/ UNCHANGED seen
        /\ pc' = [pc EXCEPT ![c] = "done"]
    BY <1>10 DEF TypeOK, Refused, Goto, Return, ReturnResult, Expire
  <2>6. SeenShape' /\ AnswerShape'
    BY <1>10, <2>3, <2>5 DEF TypeOK, SeenShape, AnswerShape, Writes, Expire
  <2> QED
    BY <2>4, <2>6
<1>11. ASSUME NEW c \in Calls, Reclaim(c) PROVE TypeInv'
  <2>1. pc' \in [Calls -> Pcs] /\ reply' \in [Calls -> Reply]
    BY <1>11, <1>labels, GotoType, ReturnType DEF Return, Reclaim
  <2>3. Stores(c) => /\ rec' \in Record /\ ValidRecord(rec') /\ Writes(c, rec')
                     /\ seen' = [seen EXCEPT ![c] = rec']
    BY <1>11, StoresType DEF Writing, Reclaim
  <2>4. TypeOK'
    BY <1>11, <1>types, <2>1, <2>3 DEF TypeOK, Refused, Reclaim
  <2>5. /\ Stores(c) \/ UNCHANGED seen
        /\ \/ pc' = [pc EXCEPT ![c] = "done"]
           \/ pc' = [pc EXCEPT ![c] = "start"] /\ Stores(c)
    BY <1>11 DEF TypeOK, Refused, Goto, Return, ReturnResult, Reclaim
  <2>6. SeenShape' /\ AnswerShape'
    BY <1>11, <2>3, <2>5 DEF TypeOK, SeenShape, AnswerShape, Writes, Reclaim
  <2> QED
    BY <2>4, <2>6
<1>12. ASSUME NEW c \in Calls, StartDispatch(c) PROVE TypeInv'
  <2>1. pc' \in [Calls -> Pcs] /\ reply' \in [Calls -> Reply]
    BY <1>12, <1>labels, GotoType, ReturnType DEF Return, StartDispatch
  <2>3. Stores(c) => /\ rec' \in Record /\ ValidRecord(rec') /\ Writes(c, rec')
                     /\ seen' = [seen EXCEPT ![c] = rec']
    BY <1>12, StoresType DEF Writing, StartDispatch
  <2>4. TypeOK'
    BY <1>12, <1>types, <2>1, <2>3 DEF TypeOK, Refused, StartDispatch
  <2>5. /\ Stores(c) \/ UNCHANGED seen
        /\ \/ pc' = [pc EXCEPT ![c] = "done"]
           \/ pc' = [pc EXCEPT ![c] = "send"] /\ Stores(c)
    BY <1>12 DEF TypeOK, Refused, Goto, Return, ReturnResult, StartDispatch
  <2>6. SeenShape' /\ AnswerShape'
    BY <1>12, <2>3, <2>5 DEF TypeOK, SeenShape, AnswerShape, Writes, StartDispatch
  <2> QED
    BY <2>4, <2>6
<1>13. ASSUME NEW c \in Calls, Settle(c) PROVE TypeInv'
  <2>0. answer[c].kind \in {"accepted", "rejected"} /\ answer[c].result \in Results
    BY <1>13 DEF AnswerShape, Settle
  <2> DEFINE a == Unproved("compare-and-set-uncertain", TRUE)
  <2>a. /\ answer \in [Calls -> Answer]
        /\ a \in Answer /\ a.kind \in EvidenceKinds
    BY DEF TypeOK, Answer, EvidenceKinds, Identifiers, Unproved
  <2>b. Unsettled(c) => answer' = [answer EXCEPT ![c] = a] /\ Goto(c, "blur")
    BY DEF Unsettled
  <2> HIDE DEF a
  <2>1. pc' \in [Calls -> Pcs] /\ reply' \in [Calls -> Reply]
    BY <1>13, <1>labels, <1>types, GotoType, ReturnType, <2>0
    DEF AnswerShape, Unsettled, Settle
  <2>2. answer' \in [Calls -> Answer]
    BY <1>13, <2>a, <2>b DEF Settle
  <2>3. Stores(c) => /\ rec' \in Record /\ ValidRecord(rec') /\ Writes(c, rec')
                     /\ seen' = [seen EXCEPT ![c] = rec']
    BY <1>13, StoresType DEF Writing, Settle
  <2>4. TypeOK'
    BY <1>13, <1>types, <2>1, <2>2, <2>3 DEF TypeOK, Refused, Settle
  <2>5. /\ Stores(c) \/ UNCHANGED seen
        /\ \/ pc' = [pc EXCEPT ![c] = "done"]
           \/ pc' = [pc EXCEPT ![c] = "blur"] 
              /\ UNCHANGED seen /\ answer'[c].kind \in EvidenceKinds
    BY <1>13, <2>a, <2>b DEF Refused, Goto, Return, ReturnResult, Settle
  <2>6. SeenShape'
    BY <1>13, <2>3, <2>5 DEF TypeOK, SeenShape, Writes, Settle
  <2>7. /\ \A d \in Calls \ {c} : answer'[d] = answer[d]
        /\ answer'[c] = answer[c] \/ pc'[c] = "blur"
    BY <1>13, <2>b DEF TypeOK, Goto, Settle
  <2>8. AnswerShape'
    BY <1>13, <2>5, <2>7 DEF TypeOK, AnswerShape, Settle
  <2> QED
    BY <2>4, <2>6, <2>8
<1>14. ASSUME NEW c \in Calls, MarkAmbiguous(c) PROVE TypeInv'
  <2>1. pc' \in [Calls -> Pcs] /\ reply' \in [Calls -> Reply]
    BY <1>14, <1>labels, GotoType, ReturnType DEF Return, MarkAmbiguous
  <2>3. Stores(c) => /\ rec' \in Record /\ ValidRecord(rec') /\ Writes(c, rec')
                     /\ seen' = [seen EXCEPT ![c] = rec']
    BY <1>14, StoresType DEF Writing, MarkAmbiguous
  <2>4. TypeOK'
    BY <1>14, <1>types, <2>1, <2>3 DEF TypeOK, Refused, MarkAmbiguous
  <2>5. /\ Stores(c) \/ UNCHANGED seen
        /\ pc' = [pc EXCEPT ![c] = "done"]
    BY <1>14 DEF TypeOK, Refused, Goto, Return, ReturnResult, MarkAmbiguous
  <2>6. SeenShape' /\ AnswerShape'
    BY <1>14, <2>3, <2>5 DEF TypeOK, SeenShape, AnswerShape, Writes, MarkAmbiguous
  <2> QED
    BY <2>4, <2>6
<1>15. ASSUME NEW c \in Calls, LapseDispatch(c) PROVE TypeInv'
  <2>1. pc' \in [Calls -> Pcs] /\ reply' \in [Calls -> Reply]
    BY <1>15, <1>labels, GotoType, ReturnType DEF Return, LapseDispatch
  <2>3. Stores(c) => /\ rec' \in Record /\ ValidRecord(rec') /\ Writes(c, rec')
                     /\ seen' = [seen EXCEPT ![c] = rec']
    BY <1>15, StoresType DEF Writing, LapseDispatch
  <2>4. TypeOK'
    BY <1>15, <1>types, <2>1, <2>3 DEF TypeOK, Refused, LapseDispatch
  <2>5. /\ Stores(c) \/ UNCHANGED seen
        /\ \/ pc' = [pc EXCEPT ![c] = "done"]
           \/ pc' = [pc EXCEPT ![c] = "claim"] /\ Stores(c)
    BY <1>15 DEF TypeOK, Refused, Goto, Return, ReturnResult, LapseDispatch
  <2>6. SeenShape' /\ AnswerShape'
    BY <1>15, <2>3, <2>5 DEF TypeOK, SeenShape, AnswerShape, Writes, LapseDispatch
  <2> QED
    BY <2>4, <2>6
<1>16. ASSUME NEW c \in Calls, ReleaseLease(c) PROVE TypeInv'
  <2>1. pc' \in [Calls -> Pcs] /\ reply' \in [Calls -> Reply]
    BY <1>16, <1>labels, GotoType, ReturnType DEF Return, ReleaseLease
  <2>3. Stores(c) => /\ rec' \in Record /\ ValidRecord(rec') /\ Writes(c, rec')
                     /\ seen' = [seen EXCEPT ![c] = rec']
    BY <1>16, StoresType DEF Writing, ReleaseLease
  <2>4. TypeOK'
    BY <1>16, <1>types, <2>1, <2>3 DEF TypeOK, Refused, ReleaseLease
  <2>5. /\ Stores(c) \/ UNCHANGED seen
        /\ \/ pc' = [pc EXCEPT ![c] = "done"]
           \/ pc' = [pc EXCEPT ![c] = "claim"] /\ Stores(c)
    BY <1>16 DEF TypeOK, Refused, Goto, Return, ReturnResult, ReleaseLease
  <2>6. SeenShape' /\ AnswerShape'
    BY <1>16, <2>3, <2>5 DEF TypeOK, SeenShape, AnswerShape, Writes, ReleaseLease
  <2> QED
    BY <2>4, <2>6
<1>17. ASSUME NEW c \in Calls, ClaimReconcile(c) PROVE TypeInv'
  <2>1. pc' \in [Calls -> Pcs] /\ reply' \in [Calls -> Reply]
    BY <1>17, <1>labels, GotoType, ReturnType DEF Return, ClaimReconcile
  <2>3. Stores(c) => /\ rec' \in Record /\ ValidRecord(rec') /\ Writes(c, rec')
                     /\ seen' = [seen EXCEPT ![c] = rec']
    BY <1>17, StoresType DEF Writing, ClaimReconcile
  <2>4. TypeOK'
    BY <1>17, <1>types, <2>1, <2>3 DEF TypeOK, Refused, ClaimReconcile
  <2>5. /\ Stores(c) \/ UNCHANGED seen
        /\ \/ pc' = [pc EXCEPT ![c] = "done"]
           \/ pc' = [pc EXCEPT ![c] = "ask"] /\ Stores(c)
    BY <1>17 DEF TypeOK, Refused, Goto, Return, ReturnResult, ClaimReconcile
  <2>6. SeenShape' /\ AnswerShape'
    BY <1>17, <2>3, <2>5 DEF TypeOK, SeenShape, AnswerShape, Writes, ClaimReconcile
  <2> QED
    BY <2>4, <2>6
<1>18. ASSUME NEW c \in Calls, Conclude(c) PROVE TypeInv'
  <2>0. Stores(c) => /\ PendingWrite(c).state \in {"accepted", "rejected"}
                     /\ PendingWrite(c).result \in Results
    BY <1>18, PendingWriteValid DEF Writes, Writing, IsTerminal, Conclude
  <2>1. pc' \in [Calls -> Pcs] /\ reply' \in [Calls -> Reply]
    BY <1>18, <1>labels, <2>0, ReturnType DEF Replays, Return, Conclude
  <2>3. Stores(c) => /\ rec' \in Record /\ ValidRecord(rec') /\ Writes(c, rec')
                     /\ seen' = [seen EXCEPT ![c] = rec']
    BY <1>18, StoresType DEF Writing, Conclude
  <2>4. TypeOK'
    BY <1>18, <1>types, <2>1, <2>3 DEF TypeOK, Refused, Conclude
  <2>5. /\ Stores(c) \/ UNCHANGED seen
        /\ pc' = [pc EXCEPT ![c] = "done"]
    BY <1>18 DEF TypeOK, Refused, Replays, Goto, Return, ReturnResult, Conclude
  <2>6. SeenShape' /\ AnswerShape'
    BY <1>18, <2>3, <2>5 DEF TypeOK, SeenShape, AnswerShape, Writes, Conclude
  <2> QED
    BY <2>4, <2>6
<1>19. ASSUME NEW c \in Calls, AuthorizeRetry(c) PROVE TypeInv'
  <2>1. pc' \in [Calls -> Pcs] /\ reply' \in [Calls -> Reply]
    BY <1>19, <1>labels, GotoType, ReturnType DEF Return, AuthorizeRetry
  <2>3. Stores(c) => /\ rec' \in Record /\ ValidRecord(rec') /\ Writes(c, rec')
                     /\ seen' = [seen EXCEPT ![c] = rec']
    BY <1>19, StoresType DEF Writing, AuthorizeRetry
  <2>4. TypeOK'
    BY <1>19, <1>types, <2>1, <2>3 DEF TypeOK, Refused, AuthorizeRetry
  <2>5. /\ Stores(c) \/ UNCHANGED seen
        /\ pc' = [pc EXCEPT ![c] = "done"]
    BY <1>19 DEF TypeOK, Refused, Goto, Return, ReturnResult, AuthorizeRetry
  <2>6. SeenShape' /\ AnswerShape'
    BY <1>19, <2>3, <2>5 DEF TypeOK, SeenShape, AnswerShape, Writes, AuthorizeRetry
  <2> QED
    BY <2>4, <2>6
<1>20. ASSUME NEW c \in Calls, YieldUnknown(c) PROVE TypeInv'
  <2>1. pc' \in [Calls -> Pcs] /\ reply' \in [Calls -> Reply]
    BY <1>20, <1>labels, GotoType, ReturnType DEF Return, YieldUnknown
  <2>3. Stores(c) => /\ rec' \in Record /\ ValidRecord(rec') /\ Writes(c, rec')
                     /\ seen' = [seen EXCEPT ![c] = rec']
    BY <1>20, StoresType DEF Writing, YieldUnknown
  <2>4. TypeOK'
    BY <1>20, <1>types, <2>1, <2>3 DEF TypeOK, Refused, YieldUnknown
  <2>5. /\ Stores(c) \/ UNCHANGED seen
        /\ pc' = [pc EXCEPT ![c] = "done"]
    BY <1>20 DEF TypeOK, Refused, Goto, Return, ReturnResult, YieldUnknown
  <2>6. SeenShape' /\ AnswerShape'
    BY <1>20, <2>3, <2>5 DEF TypeOK, SeenShape, AnswerShape, Writes, YieldUnknown
  <2> QED
    BY <2>4, <2>6
<1>21. ASSUME NEW c \in Calls, Crash(c) PROVE TypeInv'
  <2>1. pc' \in [Calls -> Pcs] /\ reply' \in [Calls -> Reply]
    BY <1>21, <1>labels, GotoType DEF Crash
  <2> QED
    BY <1>21, <2>1 DEF TypeOK, SeenShape, AnswerShape, Goto, Crash
<1>24. ASSUME NEW c \in Calls, Throws(c) PROVE TypeInv'
  <2>1. pc' \in [Calls -> Pcs] /\ reply' \in [Calls -> Reply]
    BY <1>24, <1>labels, GotoType DEF Throws
  <2>2. answer[c].identifier = "empty" \/ ~answer[c].evidence
    BY <1>24, <1>types, PendingWriteValid DEF Throws, Buildable, Answer, Identifiers
  <2> QED
    BY <1>24, <2>1, <2>2 DEF TypeOK, SeenShape, AnswerShape, Goto, Throws
<1>25. ASSUME NEW c \in Calls, CrashAfterWrite(c) PROVE TypeInv'
  <2>1. pc' \in [Calls -> Pcs] /\ reply' \in [Calls -> Reply]
    BY <1>25, <1>labels, GotoType DEF CrashAfterWrite
  <2>2. /\ rec' \in Record /\ ValidRecord(rec')
        /\ seen' = [seen EXCEPT ![c] = rec']
    BY <1>25, StoresType DEF CrashAfterWrite
  <2>3. TypeOK'
    BY <1>25, <2>1, <2>2 DEF TypeOK, CrashAfterWrite
  <2>4. SeenShape' /\ AnswerShape'
    BY <1>25, <2>2 DEF TypeOK, SeenShape, AnswerShape, Goto, CrashAfterWrite
  <2> QED
    BY <2>3, <2>4
<1>22. ASSUME Tick PROVE TypeInv'
  BY <1>22 DEF TypeOK, SeenShape, AnswerShape, Tick
<1>23. ASSUME UNCHANGED vars PROVE TypeInv'
  BY <1>23 DEF TypeOK, SeenShape, AnswerShape, vars
<1> QED
  BY <1>1, <1>2, <1>3, <1>4, <1>5, <1>6, <1>7, <1>8, <1>9, <1>10,
     <1>11, <1>12, <1>13, <1>14, <1>15, <1>16, <1>17, <1>18, <1>19, <1>20,
     <1>21, <1>22, <1>23, <1>24, <1>25
  DEF Next, Submit, Reconcile

\* Initially it holds.
LEMMA TypeInvInit == Init => TypeInv
BY NoRecordType DEF Init, TypeInv, TypeOK, SeenShape, AnswerShape, Pcs,
   Request, Answer, Identifiers, Reply, Status, Sending, NoAnswer, Unproved, NoReply,
   NotSent, NoRecord

\* Type invariant: every variable keeps its type, and the store only ever
\* holds records that validateSubmissionRecord accepts.
THEOREM TypeCorrect == Spec => []TypeOK
<1>1. TypeInv => TypeOK
  BY DEF TypeInv
<1> QED
  BY <1>1, TypeInvInit, TypeInvStep, PTL DEF Spec

\* Only an answer with an empty identifier or evidence that cannot be digested
\* makes a handler throw: what the others left in the store never does.
THEOREM ThrowsBlameAnswers == Spec => []OnlyBadAnswersThrow
<1>1. TypeInv => OnlyBadAnswersThrow
  BY DEF TypeInv, AnswerShape, OnlyBadAnswersThrow
<1> QED
  BY <1>1, TypeInvInit, TypeInvStep, PTL DEF Spec

-----------------------------------------------------------------------------
(* The fence: a compare-and-set succeeds only on the record its caller holds. *)

\* A version of the record determines the record.
Fence ==
    \A c \in Calls :
        /\ seen[c].version <= rec.version
        /\ seen[c].version = rec.version => seen[c] = rec

\* A step leaves the record alone, creates it, or is one successful
\* compare-and-set.
Created(c) ==
    /\ rec = NoRecord
    /\ rec' = InitialRecord(req[c].digest, OwnerOf[c], readAt[c])
    /\ seen' = [seen EXCEPT ![c] = rec']

LEMMA StepShape ==
    ASSUME TypeInv, [Next]_vars
    PROVE  \/ /\ UNCHANGED rec
              /\ \A c \in Calls : seen'[c] \in {seen[c], rec}
           \/ \E c \in Calls : Created(c)
           \/ \E c \in Calls : pc[c] \in Writing /\ Stores(c)
<1> DEFINE Quiet == UNCHANGED rec /\ \A c \in Calls : seen'[c] \in {seen[c], rec}
<1>0. seen \in [Calls -> Record]
  BY DEF TypeInv, TypeOK
<1>1. CASE Tick \/ UNCHANGED vars
  BY <1>1 DEF Tick, vars
<1>2. ASSUME NEW c \in Calls,
             BeginSubmit(c) \/ Send(c) \/ SubmitAnswer(c) \/ BeginReconcile(c)
                \/ Resume(c) \/ ReconcileAnswer(c) \/ Throws(c) \/ Crash(c)
      PROVE  Quiet
  BY <1>2 DEF BeginSubmit, Send, SubmitAnswer, BeginReconcile, Resume,
     ReconcileAnswer, Throws, Crash
<1>3. ASSUME NEW c \in Calls, CreateFound(c) \/ ReadRecord(c) PROVE Quiet
  BY <1>0, <1>3 DEF CreateFound, ReadRecord
<1>4. ASSUME NEW c \in Calls, CreateFresh(c) PROVE Created(c)
  BY <1>4 DEF CreateFresh, Created
<1>5. ASSUME NEW c \in Calls,
             Expire(c) \/ Reclaim(c) \/ StartDispatch(c) \/ Settle(c)
                \/ MarkAmbiguous(c) \/ LapseDispatch(c) \/ ReleaseLease(c)
                \/ ClaimReconcile(c) \/ Conclude(c) \/ AuthorizeRetry(c)
                \/ YieldUnknown(c) \/ CrashAfterWrite(c)
      PROVE  Quiet \/ (pc[c] \in Writing /\ Stores(c))
  BY <1>5 DEF Expire, Reclaim, StartDispatch, Settle, MarkAmbiguous,
     LapseDispatch, ReleaseLease, ClaimReconcile, Conclude, AuthorizeRetry,
     YieldUnknown, CrashAfterWrite, Refused, Writing
<1> QED
  BY <1>1, <1>2, <1>3, <1>4, <1>5 DEF Next, Submit, Reconcile

\* A successful compare-and-set replaces exactly the record the call holds.
LEMMA StoresOnSeen ==
    ASSUME TypeInv, Fence, NEW c \in Calls, Stores(c)
    PROVE  seen[c] = rec
BY DEF Fence, Stores, Matches

LEMMA FenceStep == TypeInv /\ Fence /\ [Next]_vars => Fence'
<1> SUFFICES ASSUME TypeInv, Fence, [Next]_vars PROVE Fence'
  OBVIOUS
<1>0. /\ seen \in [Calls -> Record] /\ rec.version \in Nat
      /\ \A c \in Calls : seen[c].version \in Nat
  BY DEF TypeInv, TypeOK, Record
<1>1. CASE /\ UNCHANGED rec
           /\ \A c \in Calls : seen'[c] \in {seen[c], rec}
  BY <1>0, <1>1 DEF Fence
<1>2. ASSUME NEW c \in Calls, Created(c) PROVE Fence'
  <2>1. rec.version = 0 /\ rec'.version = 1
    BY <1>2 DEF Created, NoRecord, InitialRecord
  <2> QED
    BY <1>0, <1>2, <2>1 DEF Fence, Created
<1>3. ASSUME NEW c \in Calls, pc[c] \in Writing, Stores(c) PROVE Fence'
  <2>1. rec'.version = rec.version + 1 /\ seen' = [seen EXCEPT ![c] = rec']
    BY <1>3, StoresOnSeen, StoresType DEF Writes
  <2> QED
    BY <1>0, <2>1 DEF Fence
<1> QED
  BY <1>1, <1>2, <1>3, StepShape

LEMMA FenceInit == Init => Fence
BY DEF Init, Fence, NoRecord

-----------------------------------------------------------------------------
(* Attempts are exclusive. *)

\* The attempt a call may make or has made.
Own(c) == IF pc[c] = "send" THEN seen[c].attempts ELSE sent[c].attempt

AttemptInv ==
    \A c \in Calls :
        /\ Own(c) <= rec.attempts
        /\ pc[c] \notin {"await", "settle", "blur", "done", "thrown", "crashed"} =>
              sent[c].attempt = 0
        /\ \A d \in Calls : Own(c) = Own(d) /\ Own(c) > 0 => c = d

\* The count of attempts never goes back.
LEMMA AttemptsGrow ==
    ASSUME TypeInv, Fence, [Next]_vars
    PROVE  rec.attempts \in Nat /\ rec'.attempts \in Nat /\ rec'.attempts >= rec.attempts
<1>0. rec.attempts \in Nat
  BY DEF TypeInv, TypeOK, Record
<1>1. ASSUME NEW c \in Calls, Created(c)
      PROVE  rec'.attempts \in Nat /\ rec'.attempts >= rec.attempts
  BY <1>1 DEF Created, NoRecord, InitialRecord
<1>2. ASSUME NEW c \in Calls, pc[c] \in Writing, Stores(c)
      PROVE  rec'.attempts \in Nat /\ rec'.attempts >= rec.attempts
  BY <1>0, <1>2, StoresOnSeen, StoresType DEF Writes
<1> QED
  BY <1>0, <1>1, <1>2, StepShape

\* Only these steps change what a call owns.
Calm ==
    /\ sent' = sent
    /\ \A d \in Calls :
          /\ pc[d] = "send" => pc'[d] = "send" /\ seen'[d] = seen[d]
          /\ pc[d] # "send" => pc'[d] # "send"
          /\ pc[d] \in {"await", "settle", "blur", "done", "thrown", "crashed"} =>
                pc'[d] \in {"await", "settle", "blur", "done", "thrown", "crashed"}

LEMMA CalmSteps ==
    ASSUME TypeInv, [Next]_vars
    PROVE  \/ Calm
           \/ \E c \in Calls : \/ StartDispatch(c) /\ Stores(c)
                               \/ Send(c) \/ Crash(c)
<1> USE DEF Goto, Return, ReturnResult, Local
<1>0. pc \in [Calls -> Pcs] /\ seen \in [Calls -> Record]
  BY DEF TypeInv, TypeOK
<1>1. CASE Tick \/ UNCHANGED vars
  BY <1>1 DEF Tick, vars, Calm
<1>2. ASSUME NEW c \in Calls, BeginSubmit(c) \/ BeginReconcile(c) PROVE Calm
  BY <1>0, <1>2 DEF BeginSubmit, BeginReconcile, Calm
<1>3. ASSUME NEW c \in Calls, CreateFresh(c) \/ CreateFound(c) PROVE Calm
  BY <1>0, <1>3 DEF CreateFresh, CreateFound, Replays, Calm
<1>4. ASSUME NEW c \in Calls, SubmitAnswer(c) PROVE Calm
  BY <1>0, <1>4 DEF SubmitAnswer, Calm
<1>5. ASSUME NEW c \in Calls, ReadRecord(c) \/ Resume(c) PROVE Calm
  BY <1>0, <1>5 DEF ReadRecord, Resume, Replays, Calm
<1>6. ASSUME NEW c \in Calls, ReconcileAnswer(c) PROVE Calm
  BY <1>0, <1>6 DEF ReconcileAnswer, FoundUpstream, AbsentUpstream,
     UnknownUpstream, Calm
<1>7. ASSUME NEW c \in Calls, Expire(c) \/ Reclaim(c) \/ MarkAmbiguous(c) PROVE Calm
  BY <1>0, <1>7 DEF Expire, Reclaim, MarkAmbiguous, Stores, Refused, Calm
<1>8. ASSUME NEW c \in Calls, Settle(c) PROVE Calm
  BY <1>0, <1>8 DEF Settle, Unsettled, Stores, Refused, Calm
<1>9. ASSUME NEW c \in Calls, LapseDispatch(c) \/ ReleaseLease(c) \/ ClaimReconcile(c)
      PROVE  Calm
  BY <1>0, <1>9 DEF LapseDispatch, ReleaseLease, ClaimReconcile, Stores, Refused, Calm
<1>10. ASSUME NEW c \in Calls, Conclude(c) \/ AuthorizeRetry(c) \/ YieldUnknown(c)
       PROVE  Calm
  BY <1>0, <1>10 DEF Conclude, AuthorizeRetry, YieldUnknown, Replays, Stores,
     Refused, Calm
<1>11. ASSUME NEW c \in Calls, StartDispatch(c), ~Stores(c) PROVE Calm
  BY <1>0, <1>11 DEF StartDispatch, Refused, Calm
<1>12. ASSUME NEW c \in Calls, Throws(c) \/ CrashAfterWrite(c) PROVE Calm
  BY <1>0, <1>12 DEF Throws, CrashAfterWrite, Writing, Stores, Calm
<1> QED
  BY <1>1, <1>2, <1>3, <1>4, <1>5, <1>6, <1>7, <1>8, <1>9, <1>10, <1>11, <1>12
  DEF Next, Submit, Reconcile

LEMMA AttemptStep == TypeInv /\ Fence /\ AttemptInv /\ [Next]_vars => AttemptInv'
<1> SUFFICES ASSUME TypeInv, Fence, AttemptInv, [Next]_vars PROVE AttemptInv'
  OBVIOUS
<1>0. /\ rec.attempts \in Nat /\ rec'.attempts \in Nat
      /\ rec'.attempts >= rec.attempts
      /\ pc \in [Calls -> Pcs] /\ seen \in [Calls -> Record]
      /\ sent \in [Calls -> Sending]
      /\ \A d \in Calls : seen[d].attempts \in Nat /\ sent[d].attempt \in Nat
  BY AttemptsGrow DEF TypeInv, TypeOK, Record, Sending
<1>1. CASE Calm
  <2>1. \A d \in Calls : Own(d)' = Own(d)
    BY <1>1 DEF Own, Calm
  <2> QED
    BY <1>0, <1>1, <2>1 DEF AttemptInv, Calm, Own
<1>2. ASSUME NEW c \in Calls, StartDispatch(c), Stores(c) PROVE AttemptInv'
  <2>1. /\ pc[c] = "start" /\ pc' = [pc EXCEPT ![c] = "send"] /\ sent' = sent
        /\ seen' = [seen EXCEPT ![c] = rec'] /\ rec'.attempts = rec.attempts + 1
    <3>1. pc[c] = "start" /\ sent' = sent
      BY <1>2 DEF StartDispatch, Local
    <3>2. pc[c] \in Writing
      BY <3>1 DEF Writing
    <3>3. /\ seen' = [seen EXCEPT ![c] = rec']
          /\ rec'.attempts = rec.attempts + 1
      BY <1>2, <3>1, <3>2, StoresOnSeen, StoresType DEF Writes
    <3>4. rec' # rec
      BY <1>0, <3>3
    <3>5. ~Refused(c)
      BY <3>4 DEF Refused
    <3> QED
      BY <1>2, <3>1, <3>3, <3>5 DEF StartDispatch, Goto
  <2>2. Own(c)' = rec.attempts + 1 /\ \A d \in Calls \ {c} : Own(d)' = Own(d)
    BY <1>0, <2>1 DEF Own
  <2> QED
    BY <1>0, <2>1, <2>2 DEF AttemptInv, Own
<1>3. ASSUME NEW c \in Calls, Send(c) PROVE AttemptInv'
  <2>1. /\ pc[c] = "send" /\ pc' = [pc EXCEPT ![c] = "await"]
        /\ sent' = [sent EXCEPT ![c] =
                       [attempt |-> seen[c].attempts, digest |-> req[c].digest]]
        /\ seen' = seen /\ rec' = rec
    BY <1>3 DEF Send, Goto
  <2>2. \A d \in Calls : Own(d)' = Own(d)
    BY <1>0, <2>1 DEF Own
  <2> QED
    BY <1>0, <2>1, <2>2 DEF AttemptInv, Own
<1>4. ASSUME NEW c \in Calls, Crash(c) PROVE AttemptInv'
  <2>1. /\ pc' = [pc EXCEPT ![c] = "crashed"] /\ sent' = sent
        /\ seen' = seen /\ rec' = rec
    BY <1>4 DEF Crash, Goto, Local
  <2>2. /\ \A d \in Calls \ {c} : Own(d)' = Own(d)
        /\ Own(c)' = IF pc[c] = "send" THEN 0 ELSE Own(c)
    BY <1>0, <2>1 DEF Own, AttemptInv
  <2> QED
    BY <1>0, <2>1, <2>2 DEF AttemptInv, Own
<1> QED
  BY <1>1, <1>2, <1>3, <1>4, CalmSteps

\* The upstream is given the order at most twice, each attempt by one call.
THEOREM AttemptsExclusive == Spec => []AttemptsAreExclusive
<1>1. Init => AttemptInv
  BY DEF Init, AttemptInv, Own, NotSent, NoRecord
<1>2. TypeInv /\ AttemptInv => AttemptsAreExclusive
  <2> SUFFICES ASSUME TypeInv, AttemptInv PROVE AttemptsAreExclusive
    OBVIOUS
  <2>1. rec.attempts \in 0..2
    <3>1. rec.attempts \in Nat /\ (rec = NoRecord \/ rec.attempts <= 2)
      BY DEF TypeInv, TypeOK, Record, ValidRecord
    <3> QED
      BY <3>1 DEF NoRecord
  <2>2. \A c \in Calls : sent[c].attempt \in Nat
    BY DEF TypeInv, TypeOK, Sending
  <2>3. \A c \in Calls : sent[c].attempt > 0 => sent[c].attempt = Own(c)
    BY <2>2 DEF AttemptInv, Own
  <2> QED
    BY <2>1, <2>2, <2>3 DEF AttemptInv, AttemptsAreExclusive
<1> QED
  BY <1>1, <1>2, TypeInvInit, TypeInvStep, FenceInit, FenceStep, AttemptStep,
     PTL DEF Spec

-----------------------------------------------------------------------------
(* Refinement. *)

\* Every step of an instance is a step of the life cycle or leaves it alone.
LEMMA StageStep ==
    ASSUME TypeInv, TypeInv', Fence, [Next]_vars
    PROVE  [Lifecycle!Next]_(Lifecycle!lifecycle)
<1> USE DEF Lifecycle!lifecycle, Lifecycle!Next, Lifecycle!Move
<1>0. rec \in Record /\ rec' \in Record
  BY DEF TypeInv, TypeOK
<1>1. CASE UNCHANGED rec
  BY <1>1 DEF Stage
<1>2. ASSUME NEW c \in Calls, Created(c) PROVE Lifecycle!Claim
  <2>1. /\ rec.state = "absent" /\ rec.attempts = 0 /\ rec.result = None
        /\ rec'.state = "pending" /\ rec'.phase = "claimed"
        /\ rec'.attempts = 0 /\ rec'.result = None
    BY <1>2 DEF Created, NoRecord, InitialRecord
  <2> QED
    BY <2>1 DEF Lifecycle!Claim, Stage
<1>3. ASSUME NEW c \in Calls, pc[c] \in Writing, Stores(c)
      PROVE  Lifecycle!Next \/ UNCHANGED Lifecycle!lifecycle
  <2> DEFINE w == rec'
  <2>1. seen[c] = rec /\ Writes(c, w) /\ ValidRecord(w) /\ w \in Record
    BY <1>3, StoresOnSeen, StoresType
  <2>2. rec = NoRecord \/ ValidRecord(rec)
    BY DEF TypeInv, TypeOK
  <2>3. rec.phase # "none" => rec.state = "pending" /\ rec.result = None
    BY <2>2 DEF NoRecord, ValidRecord, ValidPending, ValidAmbiguous, ValidTerminal
  <2>4. rec.state = "ambiguous" => rec.result = None
    BY <2>2 DEF ValidRecord, ValidAmbiguous, IsTerminal, NoRecord
  <2>5. w.phase # "none" => w.state = "pending" /\ w.result = None
    BY <2>1 DEF ValidRecord, ValidPending, ValidAmbiguous, ValidTerminal
  <2>6. w.state = "ambiguous" => w.result = None
    BY <2>1 DEF ValidRecord, ValidAmbiguous, IsTerminal
  <2>7. rec.attempts \in Nat
    BY <1>0 DEF Record
  <2>8. CASE pc[c] \in {"expire", "lapse", "blur"}
    <3>1. /\ rec.phase = "started" /\ w.state = "ambiguous"
          /\ w.lease.purpose = "none" /\ w.attempts = rec.attempts
      BY <2>1, <2>8 DEF TypeInv, SeenShape, Writes
    <3> QED
      BY <2>3, <2>6, <3>1 DEF Lifecycle!LoseTrack, Stage
  <2>9. CASE pc[c] = "reclaim"
    <3>1. rec.phase = "claimed" /\ w.phase = "claimed" /\ w.attempts = rec.attempts
      BY <2>1, <2>9 DEF TypeInv, SeenShape, Writes
    <3> QED
      BY <2>3, <2>5, <3>1 DEF Stage
  <2>10. CASE pc[c] = "start"
    <3>1. rec.phase = "claimed" /\ w.phase = "started" /\ w.attempts = rec.attempts + 1
      BY <2>1, <2>10 DEF TypeInv, SeenShape, Writes
    <3>2. w.attempts <= 2
      BY <2>1 DEF ValidRecord
    <3> QED
      BY <2>3, <2>5, <2>7, <3>1, <3>2 DEF Lifecycle!Start, Stage
  <2>11. CASE pc[c] = "settle"
    <3>1. /\ rec.phase = "started" /\ w.state \in {"accepted", "rejected"}
          /\ w.attempts = rec.attempts /\ w.result \in Results
      BY <2>1, <2>11 DEF TypeInv, SeenShape, Writes, IsTerminal
    <3> QED
      BY <2>3, <3>1 DEF Lifecycle!Decide, Stage
  <2>12. CASE pc[c] \in {"release", "yield"}
    <3>1. /\ rec.state = "ambiguous" /\ rec.lease.purpose = "reconcile"
          /\ w.state = "ambiguous" /\ w.lease.purpose = "none"
          /\ w.attempts = rec.attempts
      BY <2>1, <2>12 DEF TypeInv, SeenShape, Writes
    <3> QED
      BY <2>4, <2>6, <3>1 DEF Lifecycle!LoseTrack, Stage
  <2>13. CASE pc[c] = "claim"
    <3>1. /\ rec.state = "ambiguous" /\ rec.lease.purpose = "none"
          /\ w.state = "ambiguous" /\ w.lease.purpose = "reconcile"
          /\ w.attempts = rec.attempts
      BY <2>1, <2>13 DEF TypeInv, SeenShape, Writes
    <3> QED
      BY <2>4, <2>6, <3>1 DEF Lifecycle!Inquire, Stage
  <2>14. CASE pc[c] = "conclude"
    <3>1. /\ rec.state = "ambiguous" /\ rec.lease.purpose = "reconcile"
          /\ w.state \in {"accepted", "rejected"}
          /\ w.attempts = rec.attempts /\ w.result \in Results
      BY <2>1, <2>14 DEF TypeInv, SeenShape, Writes, IsTerminal
    <3> QED
      BY <2>4, <3>1 DEF Lifecycle!Decide, Stage
  <2>15. CASE pc[c] = "retry"
    <3>1. /\ rec.state = "ambiguous" /\ rec.lease.purpose = "reconcile"
          /\ rec.attempts = 1
          /\ w.phase = "claimed" /\ w.attempts = rec.attempts
      BY <2>1, <2>15 DEF TypeInv, SeenShape, Writes
    <3> QED
      BY <2>4, <2>5, <3>1 DEF Lifecycle!ClearRetry, Stage
  <2> QED
    BY <1>3, <2>8, <2>9, <2>10, <2>11, <2>12, <2>13, <2>14, <2>15 DEF Writing
<1> QED
  BY <1>1, <1>2, <1>3, StepShape

\* Whatever the instances do, the record follows the abstract life cycle.
THEOREM RefinesLifecycle == Spec => FollowsLifecycle
<1>1. Init => Lifecycle!Init
  BY DEF Init, Lifecycle!Init, Stage, NoRecord
<1>2. TypeInv /\ TypeInv' /\ Fence /\ [Next]_vars =>
         [Lifecycle!Next]_(Lifecycle!lifecycle)
  BY StageStep
<1> QED
  BY <1>1, <1>2, TypeInvInit, TypeInvStep, FenceInit, FenceStep, PTL
  DEF Spec, FollowsLifecycle, Lifecycle!Spec

-----------------------------------------------------------------------------
(* One verdict. *)

\* The digest of a record never changes, and a terminal record not at all.
LEMMA RecordStep ==
    ASSUME TypeInv, Fence, [Next]_vars
    PROVE  /\ rec # NoRecord => rec' # NoRecord /\ rec'.digest = rec.digest
           /\ IsTerminal(rec) => rec' = rec
<1>1. ASSUME NEW c \in Calls, Created(c)
      PROVE  rec = NoRecord /\ ~IsTerminal(rec)
  BY <1>1 DEF Created, NoRecord, IsTerminal
<1>2. ASSUME NEW c \in Calls, pc[c] \in Writing, Stores(c)
      PROVE  rec' # NoRecord /\ rec'.digest = rec.digest /\ ~IsTerminal(rec)
  <2>1. seen[c] = rec /\ Writes(c, rec') /\ rec.version \in Nat
    BY <1>2, StoresOnSeen, StoresType DEF TypeInv, TypeOK, Record
  <2>2. rec'.version # 0 /\ rec'.digest = rec.digest
    BY <2>1 DEF Writes
  <2>3. rec.phase # "none" \/ rec.state = "ambiguous"
    BY <1>2, <2>1 DEF TypeInv, SeenShape, Writing
  <2>4. ~IsTerminal(rec)
    BY <2>3 DEF TypeInv, TypeOK, NoRecord, IsTerminal, ValidRecord, ValidTerminal
  <2> QED
    BY <2>2, <2>4 DEF NoRecord
<1> QED
  BY <1>1, <1>2, StepShape

\* What a call holds is of the request of the key; a verdict it holds is the
\* one stored.
SeenOfKey ==
    \A c \in Calls :
        /\ seen[c] # NoRecord => rec # NoRecord /\ seen[c].digest = rec.digest
        /\ IsTerminal(seen[c]) => seen[c] = rec

LEMMA SeenStep == TypeInv /\ Fence /\ SeenOfKey /\ [Next]_vars => SeenOfKey'
<1> SUFFICES ASSUME TypeInv, Fence, SeenOfKey, [Next]_vars PROVE SeenOfKey'
  OBVIOUS
<1>0. seen \in [Calls -> Record] /\ ~IsTerminal(NoRecord)
  BY DEF TypeInv, TypeOK, NoRecord, IsTerminal
<1>1. CASE UNCHANGED rec /\ \A c \in Calls : seen'[c] \in {seen[c], rec}
  BY <1>1 DEF SeenOfKey, IsTerminal
<1>2. ASSUME NEW c \in Calls, Created(c) PROVE SeenOfKey'
  <2>1. rec' # NoRecord
    BY <1>2 DEF Created, NoRecord, InitialRecord
  <2>2. \A d \in Calls \ {c} : seen'[d] = NoRecord
    BY <1>0, <1>2 DEF Created, SeenOfKey
  <2>3. seen'[c] = rec'
    BY <1>0, <1>2 DEF Created
  <2> QED
    BY <1>0, <2>1, <2>2, <2>3 DEF SeenOfKey, IsTerminal
<1>3. ASSUME NEW c \in Calls, pc[c] \in Writing, Stores(c) PROVE SeenOfKey'
  <2>1. seen' = [seen EXCEPT ![c] = rec'] /\ rec' # NoRecord /\ seen[c] = rec
    BY <1>3, StoresOnSeen, StoresType DEF ValidRecord, NoRecord
  <2>2. rec # NoRecord
    BY <1>3, <2>1 DEF TypeInv, SeenShape, Writing, NoRecord
  <2> QED
    BY <1>0, <2>1, <2>2, RecordStep DEF SeenOfKey, IsTerminal
<1> QED
  BY <1>1, <1>2, <1>3, StepShape

LEMMA SeenInit == Init => SeenOfKey
BY DEF Init, SeenOfKey, NoRecord, IsTerminal

\* A call answers with a verdict only when it holds that verdict.
LEMMA ReplyStep ==
    ASSUME TypeInv, [Next]_vars, NEW c \in Calls
    PROVE  \/ reply'[c] = reply[c]
           \/ reply'[c].status \notin {"accepted", "rejected"}
           \/ /\ IsTerminal(seen'[c])
              /\ reply'[c] = [status |-> seen'[c].state, result |-> seen'[c].result]
<1> DEFINE Verdict(d) == reply' = [reply EXCEPT ![d] =
                          [status |-> seen'[d].state, result |-> seen'[d].result]]
           Other(d) == \E s \in Status \ {"accepted", "rejected"} :
                          reply' = [reply EXCEPT ![d] = [status |-> s, result |-> None]]
           Answers(d) == UNCHANGED reply \/ Other(d) \/ (IsTerminal(seen'[d]) /\ Verdict(d))
<1> USE DEF Goto, Local
<1>0. /\ seen \in [Calls -> Record] /\ reply \in [Calls -> Reply]
      /\ {"retry-authorized", "in-progress", "unknown", "conflict", "invalid"}
            \subseteq Status \ {"accepted", "rejected"}
  BY DEF TypeInv, TypeOK, Status
<1>1. ASSUME Tick \/ UNCHANGED vars PROVE UNCHANGED reply
  BY <1>1 DEF Tick, vars
<1>2. ASSUME NEW d \in Calls,
             BeginSubmit(d) \/ BeginReconcile(d) \/ CreateFresh(d) \/ Send(d)
                \/ SubmitAnswer(d) \/ ReadRecord(d) \/ ReconcileAnswer(d)
                \/ Throws(d) \/ Crash(d) \/ CrashAfterWrite(d)
      PROVE  UNCHANGED reply
  BY <1>2 DEF BeginSubmit, BeginReconcile, CreateFresh, Send, SubmitAnswer, ReadRecord,
     ReconcileAnswer, FoundUpstream, AbsentUpstream, UnknownUpstream, Throws, Crash,
     CrashAfterWrite
<1>3. ASSUME NEW d \in Calls, CreateFound(d) PROVE Answers(d)
  <2>1. seen'[d] = rec
    BY <1>0, <1>3 DEF CreateFound
  <2>2. CASE IsTerminal(rec) /\ Replays(d, rec)
    BY <2>1, <2>2 DEF Replays, ReturnResult, IsTerminal
  <2>3. CASE Return(d, "conflict") \/ Return(d, "in-progress") \/ Return(d, "unknown")
             \/ UNCHANGED reply
    BY <1>0, <2>3 DEF Return, ReturnResult
  <2> QED
    BY <1>3, <2>2, <2>3 DEF CreateFound
<1>4. ASSUME NEW d \in Calls, Resume(d) PROVE Answers(d)
  <2>1. CASE IsTerminal(seen[d]) /\ Replays(d, seen[d])
    BY <1>4, <2>1 DEF Resume, Replays, ReturnResult, IsTerminal
  <2>2. CASE Return(d, "invalid") \/ Return(d, "conflict") \/ Return(d, "in-progress")
             \/ UNCHANGED reply
    BY <1>0, <2>2 DEF Return, ReturnResult
  <2> QED
    BY <1>4, <2>1, <2>2 DEF Resume
<1>5. ASSUME NEW d \in Calls,
             Expire(d) \/ Reclaim(d) \/ StartDispatch(d) \/ MarkAmbiguous(d)
                \/ LapseDispatch(d) \/ ReleaseLease(d) \/ ClaimReconcile(d)
                \/ AuthorizeRetry(d) \/ YieldUnknown(d)
      PROVE  Answers(d)
  BY <1>0, <1>5 DEF Expire, Reclaim, StartDispatch, MarkAmbiguous, LapseDispatch,
     ReleaseLease, ClaimReconcile, AuthorizeRetry, YieldUnknown, Return, ReturnResult
<1>6. ASSUME NEW d \in Calls, Settle(d) PROVE Answers(d)
  <2>1. CASE Stores(d) /\ ReturnResult(d, answer[d].kind, answer[d].result)
    <3>1. Writes(d, rec') /\ seen' = [seen EXCEPT ![d] = rec'] /\ pc[d] = "settle"
      BY <1>6, <2>1, StoresType DEF Settle, Writing
    <3>2. /\ seen'[d] = rec' /\ IsTerminal(rec')
          /\ rec'.state = answer[d].kind /\ rec'.result = answer[d].result
      BY <1>0, <3>1 DEF Writes
    <3> QED
      BY <2>1, <3>2 DEF ReturnResult
  <2>2. CASE Refused(d) /\ Unsettled(d)
    BY <2>2 DEF Unsettled
  <2> QED
    BY <1>6, <2>1, <2>2 DEF Settle
<1>7. ASSUME NEW d \in Calls, Conclude(d) PROVE Answers(d)
  <2>1. CASE Stores(d) /\ Replays(d, PendingWrite(d))
    <3>1. /\ Writes(d, rec') /\ seen' = [seen EXCEPT ![d] = rec'] /\ pc[d] = "conclude"
          /\ rec' = PendingWrite(d)
      BY <1>7, <2>1, StoresType DEF Conclude, Stores, Writing
    <3>2. seen'[d] = rec' /\ IsTerminal(rec')
      BY <1>0, <3>1 DEF Writes
    <3> QED
      BY <2>1, <3>1, <3>2 DEF Replays, ReturnResult
  <2>2. CASE Return(d, "unknown")
    BY <1>0, <2>2 DEF Return, ReturnResult
  <2> QED
    BY <1>7, <2>1, <2>2 DEF Conclude
<1>8. UNCHANGED reply \/ \E d \in Calls : Answers(d)
  BY <1>1, <1>2, <1>3, <1>4, <1>5, <1>6, <1>7 DEF Next, Submit, Reconcile
<1> QED
  BY <1>0, <1>8

\* Whatever verdict was returned under the key is the one that is stored.
THEOREM OneVerdict == Spec => []VerdictsAgree
<1>1. Init => VerdictsAgree
  BY DEF Init, VerdictsAgree, NoReply
<1>2. ASSUME TypeInv, Fence, SeenOfKey, SeenOfKey', VerdictsAgree, [Next]_vars
      PROVE  VerdictsAgree'
  <2> SUFFICES ASSUME NEW c \in Calls, reply'[c].status \in {"accepted", "rejected"}
               PROVE  reply'[c].status = rec'.state /\ reply'[c].result = rec'.result
    BY DEF VerdictsAgree
  <2>1. CASE reply'[c] = reply[c]
    BY <1>2, <2>1, RecordStep DEF VerdictsAgree, IsTerminal
  <2>2. CASE /\ IsTerminal(seen'[c])
             /\ reply'[c] = [status |-> seen'[c].state, result |-> seen'[c].result]
    BY <1>2, <2>2 DEF SeenOfKey, IsTerminal
  <2> QED
    BY <1>2, <2>1, <2>2, ReplyStep
<1> QED
  BY <1>1, <1>2, TypeInvInit, TypeInvStep, FenceInit, FenceStep, SeenInit, SeenStep,
     PTL DEF Spec

-----------------------------------------------------------------------------
(* One request. *)

\* A call that has decided to act holds the record of its own request.
Working == {"expire", "reclaim", "start", "send", "await", "settle", "blur",
            "lapse", "release", "claim", "ask", "conclude", "retry", "yield"}

\* Whoever has another request was told so, or asked before there was a record.
RequestInv ==
    \A c \in Calls :
        /\ pc[c] \in Working => req[c].digest = seen[c].digest
        /\ pc[c] \in {"read", "resume"} => req[c].op = "reconcile"
        /\ pc[c] = "done" =>
              \/ reply[c].status = "conflict"
              \/ req[c].op = "reconcile" /\ reply[c].status = "invalid"
              \/ rec # NoRecord /\ req[c].digest = rec.digest
        /\ sent[c].attempt > 0 => rec # NoRecord /\ sent[c].digest = rec.digest

\* Who acts holds a record.
LEMMA WorkingHolds ==
    ASSUME TypeInv, NEW c \in Calls, pc[c] \in Working
    PROVE  seen[c] # NoRecord
BY DEF TypeInv, SeenShape, Working, NoRecord

\* A step of a call that acts: it goes on acting, returns, throws or dies.
Acts(c) ==
    /\ pc[c] \in Working /\ UNCHANGED <<req, sent>>
    /\ \E l \in Working \cup {"done", "thrown", "crashed"} : pc' = [pc EXCEPT ![c] = l]
    /\ \A d \in Calls \ {c} : reply'[d] = reply[d]
    /\ \/ UNCHANGED <<rec, seen>>
       \/ pc[c] \in Writing /\ Stores(c)

LEMMA ActingSteps ==
    ASSUME TypeInv, NEW c \in Calls,
           \/ Expire(c) \/ Reclaim(c) \/ StartDispatch(c) \/ SubmitAnswer(c)
           \/ Settle(c) \/ MarkAmbiguous(c) \/ LapseDispatch(c) \/ ReleaseLease(c)
           \/ ClaimReconcile(c) \/ ReconcileAnswer(c) \/ Conclude(c)
           \/ AuthorizeRetry(c) \/ YieldUnknown(c) \/ Throws(c) \/ CrashAfterWrite(c)
    PROVE  Acts(c)
<1> USE DEF Goto, Return, ReturnResult, Local, Working, Writing, Refused
<1>0. reply \in [Calls -> Reply]
  BY DEF TypeInv, TypeOK
<1>1. ASSUME Expire(c) \/ Reclaim(c) \/ StartDispatch(c) PROVE Acts(c)
  BY <1>0, <1>1 DEF Expire, Reclaim, StartDispatch, Acts
<1>2. ASSUME MarkAmbiguous(c) \/ LapseDispatch(c) \/ ReleaseLease(c) PROVE Acts(c)
  BY <1>0, <1>2 DEF MarkAmbiguous, LapseDispatch, ReleaseLease, Acts
<1>3. ASSUME ClaimReconcile(c) \/ AuthorizeRetry(c) \/ YieldUnknown(c) PROVE Acts(c)
  BY <1>0, <1>3 DEF ClaimReconcile, AuthorizeRetry, YieldUnknown, Acts
<1>4. ASSUME SubmitAnswer(c) PROVE Acts(c)
  BY <1>0, <1>4 DEF SubmitAnswer, Acts
<1>5. ASSUME ReconcileAnswer(c) PROVE Acts(c)
  BY <1>0, <1>5 DEF ReconcileAnswer, FoundUpstream, AbsentUpstream, UnknownUpstream, Acts
<1>6. ASSUME Settle(c) PROVE Acts(c)
  BY <1>0, <1>6 DEF Settle, Unsettled, Acts
<1>7. ASSUME Conclude(c) PROVE Acts(c)
  BY <1>0, <1>7 DEF Conclude, Replays, Acts
<1>8. ASSUME Throws(c) \/ CrashAfterWrite(c) PROVE Acts(c)
  BY <1>0, <1>8 DEF Throws, CrashAfterWrite, Acts
<1> QED
  BY <1>1, <1>2, <1>3, <1>4, <1>5, <1>6, <1>7, <1>8

LEMMA RequestStep ==
    TypeInv /\ Fence /\ SeenOfKey /\ RequestInv /\ [Next]_vars => RequestInv'
<1> SUFFICES ASSUME TypeInv, Fence, SeenOfKey, RequestInv, [Next]_vars PROVE RequestInv'
  OBVIOUS
<1>0. /\ pc \in [Calls -> Pcs] /\ req \in [Calls -> Request] /\ seen \in [Calls -> Record]
      /\ reply \in [Calls -> Reply] /\ sent \in [Calls -> Sending]
      /\ rec # NoRecord => rec' # NoRecord /\ rec'.digest = rec.digest
  BY RecordStep DEF TypeInv, TypeOK
<1>w. \A c \in Calls : pc[c] \in Working =>
          rec # NoRecord /\ seen[c].digest = rec.digest /\ req[c].digest = rec.digest
  BY WorkingHolds DEF SeenOfKey, RequestInv
<1>1. ASSUME NEW c \in Calls, Acts(c) PROVE RequestInv'
  <2>1. /\ rec' # NoRecord /\ rec'.digest = rec.digest
        /\ \A d \in Calls : pc[d] \in Working => seen'[d].digest = rec.digest
    <3>1. CASE UNCHANGED <<rec, seen>>
      BY <1>0, <1>1, <1>w, <3>1 DEF Acts
    <3>2. ASSUME pc[c] \in Writing, Stores(c)
          PROVE  seen' = [seen EXCEPT ![c] = rec'] /\ rec'.digest = rec.digest
      BY <1>0, <1>1, <1>w, <3>2, StoresType DEF Writes, Acts
    <3> QED
      BY <1>0, <1>1, <1>w, <3>1, <3>2 DEF Acts
  <2>2. PICK l \in Working \cup {"done", "thrown", "crashed"} : pc' = [pc EXCEPT ![c] = l]
    BY <1>1 DEF Acts
  <2>3. ASSUME NEW d \in Calls \ {c}
        PROVE  pc'[d] = pc[d] /\ reply'[d] = reply[d] /\ req'[d] = req[d] /\ sent'[d] = sent[d]
    BY <1>0, <1>1, <2>2 DEF Acts
  <2>4. /\ pc'[c] = l /\ req'[c] = req[c] /\ sent'[c] = sent[c]
        /\ req[c].digest = rec.digest
    BY <1>0, <1>1, <1>w, <2>2 DEF Acts
  <2>5. pc[c] \in Working
    BY <1>1 DEF Acts
  <2> QED
    BY <1>0, <1>w, <2>1, <2>3, <2>4, <2>5 DEF RequestInv, Working
<1>2. ASSUME NEW c \in Calls, Send(c) PROVE RequestInv'
  BY <1>0, <1>2, <1>w DEF RequestInv, Working, Send, Goto
<1>3. ASSUME NEW c \in Calls, BeginSubmit(c) \/ BeginReconcile(c) PROVE RequestInv'
  BY <1>0, <1>3 DEF RequestInv, Working, BeginSubmit, BeginReconcile, Goto
<1>4. ASSUME NEW c \in Calls, CreateFresh(c) PROVE RequestInv'
  <2>1. rec' # NoRecord /\ rec'.digest = req[c].digest /\ rec = NoRecord
    BY <1>4 DEF CreateFresh, InitialRecord, NoRecord
  <2>2. seen' = [seen EXCEPT ![c] = rec'] /\ pc' = [pc EXCEPT ![c] = "start"]
        /\ UNCHANGED <<req, reply, sent>>
    BY <1>4 DEF CreateFresh, Goto, Local
  <2> QED
    BY <1>0, <1>w, <2>1, <2>2 DEF RequestInv, Working
<1>5. ASSUME NEW c \in Calls, CreateFound(c) PROVE RequestInv'
  <2>1. /\ rec # NoRecord /\ UNCHANGED <<rec, req, sent>>
        /\ seen' = [seen EXCEPT ![c] = rec]
    BY <1>5 DEF CreateFound, Local
  <2>2. \/ Conflicts(c, rec) /\ Return(c, "conflict")
        \/ /\ ~Conflicts(c, rec)
           /\ \E l \in Working \cup {"done"} : pc' = [pc EXCEPT ![c] = l]
           /\ \A d \in Calls \ {c} : reply'[d] = reply[d]
    BY <1>0, <1>5 DEF CreateFound, Replays, Return, ReturnResult, Goto, Working
  <2>3. CASE Conflicts(c, rec) /\ Return(c, "conflict")
    BY <1>0, <2>1, <2>3 DEF RequestInv, Working, Return, ReturnResult
  <2>4. CASE /\ ~Conflicts(c, rec)
             /\ \E l \in Working \cup {"done"} : pc' = [pc EXCEPT ![c] = l]
             /\ \A d \in Calls \ {c} : reply'[d] = reply[d]
    BY <1>0, <2>1, <2>4 DEF RequestInv, Conflicts, Working
  <2> QED
    BY <2>2, <2>3, <2>4
<1>6. ASSUME NEW c \in Calls, ReadRecord(c) PROVE RequestInv'
  BY <1>0, <1>6 DEF RequestInv, Working, ReadRecord, Goto, Local
<1>7. ASSUME NEW c \in Calls, Resume(c) PROVE RequestInv'
  <2>1. UNCHANGED <<rec, req, sent, seen>> /\ pc[c] = "resume"
    BY <1>7 DEF Resume
  <2>2. \/ Return(c, "invalid") \/ Return(c, "conflict")
        \/ /\ seen[c] # NoRecord /\ ~Conflicts(c, seen[c])
           /\ \E l \in Working \cup {"done"} : pc' = [pc EXCEPT ![c] = l]
           /\ \A d \in Calls \ {c} : reply'[d] = reply[d]
    BY <1>0, <1>7 DEF Resume, Replays, Return, ReturnResult, Goto, Working
  <2>3. CASE Return(c, "invalid") \/ Return(c, "conflict")
    BY <1>0, <2>1, <2>3 DEF RequestInv, Working, Return, ReturnResult
  <2>4. CASE /\ seen[c] # NoRecord /\ ~Conflicts(c, seen[c])
             /\ \E l \in Working \cup {"done"} : pc' = [pc EXCEPT ![c] = l]
             /\ \A d \in Calls \ {c} : reply'[d] = reply[d]
    BY <1>0, <2>1, <2>4 DEF RequestInv, Conflicts, SeenOfKey, Working
  <2> QED
    BY <2>2, <2>3, <2>4
<1>8. ASSUME NEW c \in Calls, Crash(c) PROVE RequestInv'
  BY <1>0, <1>8 DEF RequestInv, Working, Crash, Goto, Local
<1>9. ASSUME Tick \/ UNCHANGED vars PROVE RequestInv'
  BY <1>9 DEF RequestInv, Tick, vars
<1> QED
  BY <1>1, <1>2, <1>3, <1>4, <1>5, <1>6, <1>7, <1>8, <1>9, ActingSteps
  DEF Next, Submit, Reconcile

\* Only the request that the key is bound to reaches the upstream, and only a
\* caller with that request learns what became of it.
THEOREM OneRequest == Spec => []KeyBindsOneRequest
<1>1. Init => RequestInv
  BY DEF Init, RequestInv, Working, NotSent
<1>2. RequestInv => KeyBindsOneRequest
  BY DEF RequestInv, KeyBindsOneRequest
<1> QED
  BY <1>1, <1>2, TypeInvInit, TypeInvStep, FenceInit, FenceStep, SeenInit, SeenStep,
     RequestStep, PTL DEF Spec

-----------------------------------------------------------------------------
(* One retry. *)

\* The second attempt is allowed, or made.
Cleared == rec.attempts = 2 \/ (rec.attempts = 1 /\ rec.phase = "claimed")

\* Where a call that was told of an absence may be.
Told == {"retry", "yield", "done", "thrown", "crashed"}

\* It is when some reconciliation, and one only, proved that the first is absent.
AbsenceInv ==
    /\ \A c \in Calls : answer[c].kind = "absence-proved" => pc[c] \in Told
    /\ \A c \in Calls : ProvedAbsence(c) => Cleared
    /\ Cleared => \E c \in Calls : ProvedAbsence(c)
    /\ \A c, d \in Calls : ProvedAbsence(c) /\ ProvedAbsence(d) => c = d

SameProofs ==
    \A c \in Calls :
        /\ ProvedAbsence(c)' <=> ProvedAbsence(c)
        /\ answer'[c].kind = "absence-proved" => pc'[c] \in Told

\* A step after which nobody has more of a proof than before.
Untold ==
    /\ SameProofs
    /\ \/ UNCHANGED rec
       \/ \E c \in Calls : Created(c)
       \/ \E c \in Calls : pc[c] \in Writing \ {"retry"} /\ Stores(c)

\* The step that stores the proof; its process may die with it.
Authorizes(c) ==
    /\ pc[c] = "retry" /\ Stores(c)
    /\ UNCHANGED answer
    /\ \E l \in {"done", "crashed"} : pc' = [pc EXCEPT ![c] = l]

\* A call that is not told anything keeps or loses nothing by moving on.
LEMMA MovingTellsNothing ==
    ASSUME TypeInv, AbsenceInv, UNCHANGED <<seen, answer>>, NEW c \in Calls,
           NEW l \in Pcs, pc' = [pc EXCEPT ![c] = l], pc[c] \in Told => l \in Told
    PROVE  SameProofs
BY DEF TypeInv, TypeOK, AbsenceInv, SameProofs, ProvedAbsence

\* Nor by storing anything but the authorization of a retry.
LEMMA StoringTellsNothing ==
    ASSUME TypeInv, AbsenceInv, UNCHANGED answer, NEW c \in Calls,
           pc[c] \in Writing \ {"retry"}, Stores(c),
           NEW l \in Pcs, pc' = [pc EXCEPT ![c] = l], pc[c] \in Told => l \in Told
    PROVE  SameProofs
<1>0. pc \in [Calls -> Pcs] /\ seen \in [Calls -> Record]
  BY DEF TypeInv, TypeOK
<1>1. /\ seen' = [seen EXCEPT ![c] = rec'] /\ ValidRecord(rec') /\ Writes(c, rec')
  BY StoresType
<1>2. CASE answer[c].kind = "absence-proved"
  <2>1. pc[c] = "yield"
    BY <1>2 DEF AbsenceInv, Told, Writing
  <2>2. rec'.phase = "none"
    BY <1>1, <2>1 DEF Writes, ValidRecord, ValidAmbiguous, IsTerminal
  <2>3. seen[c].phase = "none"
    BY <2>1 DEF TypeInv, SeenShape, NoRecord, ValidRecord, ValidAmbiguous, IsTerminal
  <2> QED
    BY <1>0, <1>1, <2>2, <2>3 DEF AbsenceInv, SameProofs, ProvedAbsence
<1>3. CASE answer[c].kind # "absence-proved"
  BY <1>0, <1>1, <1>3 DEF AbsenceInv, SameProofs, ProvedAbsence
<1> QED
  BY <1>2, <1>3

LEMMA UntoldSteps ==
    ASSUME TypeInv, AbsenceInv, [Next]_vars
    PROVE  Untold \/ \E c \in Calls : Authorizes(c)
<1> USE DEF Goto, Return, ReturnResult, Local
<1>0. /\ pc \in [Calls -> Pcs] /\ answer \in [Calls -> Answer]
      /\ seen \in [Calls -> Record]
      /\ Pcs = {"idle", "create", "expire", "reclaim", "start", "send", "await",
                "settle", "blur", "read", "resume", "lapse", "release", "claim",
                "ask", "conclude", "retry", "yield", "done", "thrown", "crashed"}
  BY DEF TypeInv, TypeOK, Pcs
<1>1. ASSUME NEW c \in Calls,
             \/ BeginSubmit(c) \/ Send(c) \/ BeginReconcile(c) \/ Crash(c) \/ Throws(c)
      PROVE  Untold
  <2>1. /\ UNCHANGED <<rec, seen, answer>>
        /\ \E l \in Pcs : /\ pc' = [pc EXCEPT ![c] = l]
                          /\ pc[c] \in Told => l \in Told
    BY <1>0, <1>1 DEF BeginSubmit, Send, BeginReconcile, Crash, Throws, Told
  <2> QED
    BY <2>1, MovingTellsNothing DEF Untold
<1>2. ASSUME NEW c \in Calls, SubmitAnswer(c) \/ ReconcileAnswer(c) PROVE Untold
  <2>1. /\ UNCHANGED <<rec, seen>>
        /\ \E a \in {answer'[c]} : answer' = [answer EXCEPT ![c] = a]
    BY <1>0, <1>2 DEF SubmitAnswer, ReconcileAnswer, FoundUpstream, AbsentUpstream,
       UnknownUpstream
  <2>2. /\ \E l \in {"settle", "blur", "conclude", "retry", "yield"} :
              pc' = [pc EXCEPT ![c] = l]
        /\ answer'[c].kind = "absence-proved" => pc'[c] \in {"retry", "yield"}
    BY <1>0, <1>2 DEF SubmitAnswer, ReconcileAnswer, FoundUpstream, AbsentUpstream,
       UnknownUpstream, Decided, Unproved
  <2>3. pc[c] \in {"await", "ask"} /\ answer[c].kind # "absence-proved"
    BY <1>2 DEF SubmitAnswer, ReconcileAnswer, AbsenceInv, Told
  <2>4. seen[c].phase # "claimed"
    BY <2>3 DEF TypeInv, SeenShape, NoRecord, ValidRecord, ValidAmbiguous, IsTerminal
  <2> QED
    BY <1>0, <2>1, <2>2, <2>3, <2>4 DEF AbsenceInv, Told, SameProofs, ProvedAbsence, Untold
<1>3. ASSUME NEW c \in Calls, CreateFresh(c) \/ CreateFound(c) \/ ReadRecord(c)
      PROVE  Untold
  <2>1. /\ pc[c] \in {"create", "read"} /\ UNCHANGED answer
        /\ \E r \in {seen'[c]} : seen' = [seen EXCEPT ![c] = r]
        /\ \E l \in Pcs : pc' = [pc EXCEPT ![c] = l]
    BY <1>0, <1>3 DEF CreateFresh, CreateFound, ReadRecord, Replays
  <2>2. answer[c].kind # "absence-proved"
    BY <2>1 DEF AbsenceInv, Told
  <2>3. SameProofs
    BY <1>0, <2>1, <2>2 DEF AbsenceInv, SameProofs, ProvedAbsence
  <2>4. UNCHANGED rec \/ Created(c)
    BY <1>3 DEF CreateFresh, CreateFound, ReadRecord, Created
  <2> QED
    BY <2>3, <2>4 DEF Untold
<1>4. ASSUME NEW c \in Calls, Resume(c) PROVE Untold
  <2>1. /\ UNCHANGED <<rec, seen, answer>> /\ pc[c] \notin Told
        /\ \E l \in Pcs : pc' = [pc EXCEPT ![c] = l]
    BY <1>0, <1>4 DEF Resume, Replays, Told
  <2> QED
    BY <2>1, MovingTellsNothing DEF Untold
<1>5. ASSUME NEW c \in Calls,
             \/ Expire(c) \/ Reclaim(c) \/ StartDispatch(c) \/ MarkAmbiguous(c)
             \/ LapseDispatch(c) \/ ReleaseLease(c) \/ ClaimReconcile(c)
             \/ Conclude(c) \/ AuthorizeRetry(c) \/ YieldUnknown(c) \/ CrashAfterWrite(c)
      PROVE  Untold \/ Authorizes(c)
  <2>1. /\ pc[c] \in Writing /\ UNCHANGED answer
        /\ Stores(c) \/ UNCHANGED <<rec, seen>>
    BY <1>5 DEF Expire, Reclaim, StartDispatch, MarkAmbiguous, LapseDispatch, ReleaseLease,
       ClaimReconcile, Conclude, AuthorizeRetry, YieldUnknown, CrashAfterWrite, Refused,
       Writing
  <2>2. \E l \in Pcs : /\ pc' = [pc EXCEPT ![c] = l]
                       /\ pc[c] \in Told => l \in {"done", "crashed"}
    BY <1>0, <1>5 DEF Expire, Reclaim, StartDispatch, MarkAmbiguous, LapseDispatch,
       ReleaseLease, ClaimReconcile, Conclude, Replays, AuthorizeRetry, YieldUnknown,
       CrashAfterWrite, Writing, Told
  <2>3. CASE UNCHANGED <<rec, seen>>
    BY <2>1, <2>2, <2>3, MovingTellsNothing DEF Untold, Told
  <2>4. CASE Stores(c) /\ pc[c] # "retry"
    BY <2>1, <2>2, <2>4, StoringTellsNothing DEF Untold, Told
  <2>5. CASE Stores(c) /\ pc[c] = "retry"
    BY <2>1, <2>2, <2>5 DEF Authorizes, Told
  <2> QED
    BY <2>1, <2>3, <2>4, <2>5
<1>6. ASSUME NEW c \in Calls, Settle(c) PROVE Untold
  <2>1. pc[c] = "settle" /\ pc[c] \notin Told /\ pc[c] \in Writing \ {"retry"}
    BY <1>6 DEF Settle, Told, Writing
  <2>2. CASE Stores(c) /\ UNCHANGED answer /\ pc' = [pc EXCEPT ![c] = "done"]
    BY <1>0, <2>1, <2>2, StoringTellsNothing DEF Untold
  <2>3. CASE Refused(c) /\ Unsettled(c)
    <3>1. /\ UNCHANGED <<rec, seen>> /\ pc' = [pc EXCEPT ![c] = "blur"]
          /\ answer' = [answer EXCEPT ![c] = Unproved("compare-and-set-uncertain", TRUE)]
      BY <2>3 DEF Refused, Unsettled
    <3>2. answer[c].kind # "absence-proved"
      BY <2>1 DEF AbsenceInv
    <3>3. answer'[c].kind # "absence-proved"
      BY <1>0, <3>1 DEF Unproved
    <3>4. \A d \in Calls \ {c} : answer'[d] = answer[d] /\ pc'[d] = pc[d]
      BY <1>0, <3>1
    <3> QED
      BY <3>1, <3>2, <3>3, <3>4 DEF AbsenceInv, SameProofs, ProvedAbsence, Untold
  <2> QED
    BY <1>6, <2>2, <2>3 DEF Settle
<1>7. ASSUME Tick \/ UNCHANGED vars PROVE Untold
  BY <1>7 DEF Tick, vars, Untold, SameProofs, ProvedAbsence, AbsenceInv
<1> QED
  BY <1>1, <1>2, <1>3, <1>4, <1>5, <1>6, <1>7 DEF Next, Submit, Reconcile

\* No other write allows a second attempt, or takes it back.
LEMMA ClearedStep ==
    ASSUME TypeInv, Fence, Untold
    PROVE  Cleared' = Cleared
<1>1. ASSUME NEW c \in Calls, Created(c) PROVE ~Cleared /\ ~Cleared'
  BY <1>1 DEF Created, NoRecord, InitialRecord, Cleared
<1>2. ASSUME NEW c \in Calls, pc[c] \in Writing \ {"retry"}, Stores(c)
      PROVE  Cleared' <=> Cleared
  <2>1. /\ seen[c] = rec /\ Writes(c, rec') /\ ValidRecord(rec')
        /\ rec \in Record
        /\ rec = NoRecord \/ ValidRecord(rec)
    BY <1>2, StoresOnSeen, StoresType DEF TypeInv, TypeOK
  <2>2. CASE pc[c] = "reclaim"
    BY <2>1, <2>2 DEF TypeInv, SeenShape, Writes, Cleared
  <2>3. CASE pc[c] = "start"
    <3>1. rec.phase = "claimed" /\ rec'.phase = "started"
          /\ rec'.attempts = rec.attempts + 1 /\ rec.attempts \in Nat
      BY <2>1, <2>3 DEF TypeInv, SeenShape, Writes, Record
    <3>2. rec.attempts <= 1
      BY <2>1, <3>1 DEF NoRecord, ValidRecord, ValidPending, ValidAmbiguous, ValidTerminal
    <3> QED
      BY <3>1, <3>2 DEF Cleared
  <2>4. CASE pc[c] \in Writing \ {"retry", "reclaim", "start"}
    <3>1. rec.phase # "claimed"
      BY <2>1, <2>4 DEF TypeInv, SeenShape, Writing, NoRecord, ValidRecord, ValidPending,
         ValidAmbiguous, IsTerminal
    <3>2. rec'.state # "pending" /\ rec'.attempts = rec.attempts
      BY <2>1, <2>4 DEF Writes, Writing, IsTerminal
    <3>3. rec'.phase = "none"
      BY <2>1, <3>2 DEF ValidRecord, ValidAmbiguous, ValidTerminal
    <3> QED
      BY <3>1, <3>2, <3>3 DEF Cleared
  <2> QED
    BY <1>2, <2>2, <2>3, <2>4
<1> QED
  BY <1>1, <1>2 DEF Untold, Cleared

LEMMA AbsenceStep == TypeInv /\ Fence /\ AbsenceInv /\ [Next]_vars => AbsenceInv'
<1> SUFFICES ASSUME TypeInv, Fence, AbsenceInv, [Next]_vars PROVE AbsenceInv'
  OBVIOUS
<1>1. CASE Untold
  <2>1. Cleared' <=> Cleared
    BY <1>1, ClearedStep
  <2> QED
    BY <1>1, <2>1 DEF Untold, SameProofs, AbsenceInv
<1>2. ASSUME NEW c \in Calls, Authorizes(c) PROVE AbsenceInv'
  <2>1. /\ pc[c] = "retry" /\ pc[c] \in Writing /\ answer' = answer /\ Stores(c)
    BY <1>2 DEF Authorizes, Writing
  <2>2. /\ seen[c] = rec /\ Writes(c, rec') /\ ValidRecord(rec')
        /\ seen' = [seen EXCEPT ![c] = rec']
        /\ rec \in Record
        /\ rec = NoRecord \/ ValidRecord(rec)
    BY <2>1, StoresOnSeen, StoresType DEF TypeInv, TypeOK
  <2>3. /\ rec.attempts = 1 /\ rec.state = "ambiguous" /\ answer[c].kind = "absence-proved"
    BY <2>1, <2>2 DEF TypeInv, SeenShape, AnswerShape
  <2>4. ~Cleared
    BY <2>2, <2>3 DEF Cleared, NoRecord, ValidRecord, ValidAmbiguous, IsTerminal
  <2>5. Cleared' /\ rec'.phase = "claimed"
    BY <2>1, <2>2, <2>3 DEF Cleared, Writes
  <2>6. pc \in [Calls -> Pcs] /\ seen \in [Calls -> Record]
    BY DEF TypeInv, TypeOK
  <2>7. ProvedAbsence(c)' /\ \A d \in Calls \ {c} : ~ProvedAbsence(d)'
    BY <2>1, <2>2, <2>3, <2>4, <2>5, <2>6 DEF ProvedAbsence, AbsenceInv
  <2>8. \A d \in Calls : answer'[d].kind = "absence-proved" => pc'[d] \in Told
    BY <1>2, <2>1, <2>6 DEF Authorizes, AbsenceInv, Told
  <2> QED
    BY <2>5, <2>7, <2>8 DEF AbsenceInv
<1> QED
  BY <1>1, <1>2, UntoldSteps

LEMMA AbsenceInit == Init => AbsenceInv
BY DEF Init, AbsenceInv, ProvedAbsence, Cleared, NoRecord, NoAnswer, Unproved

\* The order is sent again only after one reconciliation proved it absent.
THEOREM OneRetry == Spec => []ResendOnlyAfterAbsence
<1>2. ASSUME TypeInv, AttemptInv, AbsenceInv PROVE ResendOnlyAfterAbsence
  <2>1. ASSUME NEW c \in Calls, sent[c].attempt = 2 PROVE Cleared
    <3>1. rec.attempts \in Nat /\ (rec = NoRecord \/ rec.attempts <= 2)
      BY <1>2 DEF TypeInv, TypeOK, Record, ValidRecord
    <3>2. Own(c) = 2
      BY <1>2, <2>1 DEF AttemptInv, Own
    <3>3. Own(c) <= rec.attempts
      BY <1>2 DEF AttemptInv
    <3> QED
      BY <3>1, <3>2, <3>3 DEF Cleared, NoRecord
  <2> QED
    BY <1>2, <2>1 DEF AbsenceInv, ResendOnlyAfterAbsence
<1>3. Init => AttemptInv
  BY DEF Init, AttemptInv, Own, NotSent, NoRecord
<1> QED
  BY <1>2, <1>3, AbsenceInit, TypeInvInit, TypeInvStep, FenceInit, FenceStep, AttemptStep,
     AbsenceStep, PTL DEF Spec

-----------------------------------------------------------------------------
(* No work is orphaned by a store that makes the writes it can make. *)

Unfinished(c, S) == pc[c] \in S \cup {"thrown", "crashed"}

\* A step after which whoever was at work on the record still is.
Keeps ==
    /\ UNCHANGED rec
    /\ \A c \in Calls : seen[c] = rec =>
          /\ seen'[c] = rec
          /\ Unfinished(c, Dispatching) => Unfinished(c, Dispatching)'
          /\ Unfinished(c, Asking) => Unfinished(c, Asking)'

\* A write that starts no work, and one that does.
Ends(c)   == pc[c] \in Writing \ {"start", "claim"} /\ Stores(c)
Begins(c) == /\ pc[c] \in {"start", "claim"} /\ Stores(c)
             /\ \E l \in {IF pc[c] = "start" THEN "send" ELSE "ask", "crashed"} :
                   pc' = [pc EXCEPT ![c] = l]

LEMMA WorkSteps ==
    ASSUME TypeInv, Fence, ~CasMayRefuse, [Next]_vars
    PROVE  Keeps \/ \E c \in Calls : Created(c) \/ Ends(c) \/ Begins(c)
<1> USE DEF Goto, Return, ReturnResult, Local, Dispatching, Asking, Unfinished
<1>0. pc \in [Calls -> Pcs] /\ seen \in [Calls -> Record]
  BY DEF TypeInv, TypeOK
<1>f. ASSUME NEW c \in Calls, Refused(c)
      PROVE  UNCHANGED <<rec, seen>> /\ seen[c] # rec
  BY <1>f DEF Refused, Matches
<1>1. ASSUME NEW c \in Calls,
             \/ BeginSubmit(c) \/ Send(c) \/ BeginReconcile(c) \/ Resume(c)
      PROVE  Keeps
  BY <1>0, <1>1 DEF BeginSubmit, Send, BeginReconcile, Resume, Replays, Keeps
<1>8. ASSUME NEW c \in Calls, Throws(c) \/ Crash(c) PROVE Keeps
  BY <1>0, <1>8 DEF Throws, Crash, Keeps
<1>9. ASSUME NEW c \in Calls, CrashAfterWrite(c) PROVE Ends(c) \/ Begins(c)
  BY <1>9 DEF CrashAfterWrite, Ends, Begins
<1>2. ASSUME NEW c \in Calls, SubmitAnswer(c) \/ ReconcileAnswer(c) PROVE Keeps
  BY <1>0, <1>2 DEF SubmitAnswer, ReconcileAnswer, FoundUpstream, AbsentUpstream,
     UnknownUpstream, Keeps
<1>3. ASSUME NEW c \in Calls, CreateFound(c) \/ ReadRecord(c) PROVE Keeps
  BY <1>0, <1>3 DEF CreateFound, ReadRecord, Replays, Keeps
<1>4. ASSUME NEW c \in Calls, CreateFresh(c) PROVE Created(c)
  BY <1>4 DEF CreateFresh, Created
<1>5. ASSUME NEW c \in Calls,
             \/ Expire(c) \/ Reclaim(c) \/ MarkAmbiguous(c) \/ Settle(c)
             \/ LapseDispatch(c) \/ ReleaseLease(c) \/ Conclude(c)
             \/ AuthorizeRetry(c) \/ YieldUnknown(c)
      PROVE  Keeps \/ Ends(c)
  <2>1. CASE Stores(c)
    BY <1>5, <2>1 DEF Expire, Reclaim, MarkAmbiguous, Settle, LapseDispatch, ReleaseLease,
       Conclude, AuthorizeRetry, YieldUnknown, Writing, Ends
  <2>2. CASE ~Stores(c)
    <3>1. Refused(c) /\ \E l \in Pcs : pc' = [pc EXCEPT ![c] = l]
      BY <1>5, <2>2 DEF Expire, Reclaim, MarkAmbiguous, Settle, Unsettled, LapseDispatch,
         ReleaseLease, Conclude, AuthorizeRetry, YieldUnknown, Pcs
    <3> QED
      BY <1>0, <1>f, <3>1 DEF Keeps
  <2> QED
    BY <2>1, <2>2
<1>6. ASSUME NEW c \in Calls, StartDispatch(c) \/ ClaimReconcile(c)
      PROVE  Keeps \/ Begins(c)
  <2>1. CASE Stores(c) /\ ~Refused(c)
    BY <1>6, <2>1 DEF StartDispatch, ClaimReconcile, Begins
  <2>2. CASE Refused(c)
    <3>1. \E l \in Pcs : pc' = [pc EXCEPT ![c] = l]
      BY <1>6 DEF StartDispatch, ClaimReconcile, Pcs
    <3> QED
      BY <1>0, <1>f, <2>2, <3>1 DEF Keeps
  <2> QED
    BY <1>6, <2>1, <2>2 DEF StartDispatch, ClaimReconcile
<1>7. ASSUME Tick \/ UNCHANGED vars PROVE Keeps
  BY <1>7 DEF Tick, vars, Keeps
<1> QED
  BY <1>1, <1>2, <1>3, <1>4, <1>5, <1>6, <1>7, <1>8, <1>9 DEF Next, Submit, Reconcile

LEMMA WorkStep ==
    ASSUME TypeInv, Fence, NoOrphanedWork, ~CasMayRefuse, [Next]_vars
    PROVE  NoOrphanedWork'
<1>0. pc \in [Calls -> Pcs] /\ seen \in [Calls -> Record]
  BY DEF TypeInv, TypeOK
<1>1. CASE Keeps
  BY <1>1 DEF Keeps, NoOrphanedWork, Unfinished
<1>2. ASSUME NEW c \in Calls, Created(c) PROVE NoOrphanedWork'
  BY <1>2 DEF Created, InitialRecord, NewLease, NoOrphanedWork
<1>3. ASSUME NEW c \in Calls, Ends(c) PROVE NoOrphanedWork'
  <2>1. pc[c] \in Writing \ {"start", "claim"} /\ ValidRecord(rec') /\ Writes(c, rec')
    BY <1>3, StoresType DEF Ends
  <2>2. CASE pc[c] \in {"reclaim", "retry"}
    <3>1. rec'.phase = "claimed"
      BY <2>1, <2>2 DEF Writes
    <3>2. rec'.lease.purpose = "dispatch"
      BY <2>1, <3>1 DEF ValidRecord, ValidPending, ValidAmbiguous, ValidTerminal
    <3> QED
      BY <3>1, <3>2 DEF NoOrphanedWork
  <2>3. CASE pc[c] \in {"expire", "lapse", "blur", "release", "yield"}
    <3>1. rec'.state = "ambiguous" /\ rec'.lease.purpose = "none"
      BY <2>1, <2>3 DEF Writes
    <3>2. rec'.phase = "none"
      BY <2>1, <3>1 DEF ValidRecord, ValidAmbiguous, IsTerminal
    <3> QED
      BY <3>1, <3>2 DEF NoOrphanedWork
  <2>4. CASE pc[c] \in {"settle", "conclude"}
    <3>1. IsTerminal(rec')
      BY <2>1, <2>4 DEF Writes
    <3>2. rec'.phase = "none" /\ rec'.lease.purpose = "none"
      BY <2>1, <3>1 DEF ValidRecord, ValidTerminal, IsTerminal
    <3> QED
      BY <3>2 DEF NoOrphanedWork
  <2> QED
    BY <2>1, <2>2, <2>3, <2>4 DEF Writing
<1>4. ASSUME NEW c \in Calls, Begins(c) PROVE NoOrphanedWork'
  <2>1. /\ pc[c] \in {"start", "claim"} /\ ValidRecord(rec') /\ Writes(c, rec')
        /\ seen'[c] = rec'
        /\ pc'[c] \in {IF pc[c] = "start" THEN "send" ELSE "ask", "crashed"}
    BY <1>0, <1>4, StoresType DEF Begins, Writing
  <2>2. CASE pc[c] = "start"
    <3>1. rec'.phase = "started"
      BY <2>1, <2>2 DEF Writes
    <3>2. rec'.lease.purpose = "dispatch"
      BY <2>1, <3>1 DEF ValidRecord, ValidPending, ValidAmbiguous, ValidTerminal
    <3> QED
      BY <2>1, <2>2, <3>2 DEF NoOrphanedWork, Dispatching
  <2>3. CASE pc[c] = "claim"
    <3>1. rec'.state = "ambiguous"
      BY <2>1, <2>3 DEF Writes
    <3>2. rec'.phase = "none"
      BY <2>1, <3>1 DEF ValidRecord, ValidAmbiguous, IsTerminal
    <3> QED
      BY <2>1, <2>3, <3>2 DEF NoOrphanedWork, Asking
  <2> QED
    BY <2>1, <2>2, <2>3
<1> QED
  BY <1>1, <1>2, <1>3, <1>4, WorkSteps

\* With a store that makes the writes it can make, a dispatch that is started,
\* or a reconciliation that is claimed, has its call at work or crashed.
THEOREM WorkIsNotOrphaned ==
    ASSUME ~CasMayRefuse
    PROVE  Spec => []NoOrphanedWork
<1>1. Init => NoOrphanedWork
  BY DEF Init, NoOrphanedWork, NoRecord, NoLease
<1>2. TypeInv /\ Fence /\ NoOrphanedWork /\ [Next]_vars => NoOrphanedWork'
  BY WorkStep
<1> QED
  BY <1>1, <1>2, TypeInvInit, TypeInvStep, FenceInit, FenceStep, PTL DEF Spec

-----------------------------------------------------------------------------
(* Leases, under synchronized clocks. *)

Synchronized == \A o \in Owners : Skew[o] = 0

\* Where a call acts under its own lease, and where on one that has expired.
Owning  == {"start", "send", "await", "settle", "blur", "ask", "conclude", "retry", "yield"}
Lapsing == {"expire", "reclaim", "lapse", "release"}

LeaseInv ==
    \A c \in Calls :
        /\ readAt[c] <= now
        /\ pc[c] \in Owning => seen[c].lease.owner = OwnerOf[c]
        /\ pc[c] \in Lapsing => ~Unexpired(seen[c], readAt[c])

\* Every write moves its call, and starts a dispatch only from "start".
Moves(c) ==
    /\ pc[c] \in Writing /\ Stores(c)
    /\ UNCHANGED <<now, readAt, sent>>
    /\ \E l \in Pcs \ {pc[c]} :
          /\ pc' = [pc EXCEPT ![c] = l]
          /\ l \in Owning => \/ pc[c] = "start" /\ l = "send"
                             \/ pc[c] = "reclaim" /\ l = "start"
                             \/ pc[c] = "claim" /\ l = "ask"
          /\ l \notin Lapsing

\* The other steps leave the record alone.
Reads ==
    /\ UNCHANGED rec
    /\ \A c \in Calls :
          /\ pc'[c] \in {"send", "await", "settle", "blur"} =>
                /\ pc[c] \in {"send", "await", "settle", "blur"}
                /\ seen'[c] = seen[c]
                /\ pc'[c] = "send" => pc[c] = "send"
                /\ pc[c] \in {"settle", "blur"} => pc'[c] \in {pc[c], "blur"}
                /\ pc[c] # "send" => sent'[c] = sent[c]
                /\ pc[c] = "send" /\ pc'[c] # "send" => sent'[c].attempt = seen[c].attempts
    /\ now' \in Nat /\ now' >= now

LEMMA WriteOrRead ==
    ASSUME TypeInv, Fence, [Next]_vars
    PROVE  Reads \/ \E c \in Calls : CreateFresh(c) \/ Moves(c)
<1> USE DEF Goto, Return, ReturnResult, Local
<1>0. /\ pc \in [Calls -> Pcs] /\ seen \in [Calls -> Record] /\ now \in Nat
      /\ sent \in [Calls -> Sending]
      /\ Pcs = {"idle", "create", "expire", "reclaim", "start", "send", "await",
                "settle", "blur", "read", "resume", "lapse", "release", "claim",
                "ask", "conclude", "retry", "yield", "done", "thrown", "crashed"}
  BY DEF TypeInv, TypeOK, Pcs
<1>1. ASSUME NEW c \in Calls,
             BeginSubmit(c) \/ BeginReconcile(c) \/ Crash(c)
      PROVE  Reads
  BY <1>0, <1>1 DEF BeginSubmit, BeginReconcile, Crash, Reads
<1>10. ASSUME NEW c \in Calls, Throws(c) PROVE Reads
  BY <1>0, <1>10 DEF Throws, Reads
<1>9. ASSUME NEW c \in Calls, CrashAfterWrite(c) PROVE Moves(c)
  <2>1. /\ pc[c] \in Writing /\ Stores(c) /\ UNCHANGED <<now, readAt, sent>>
        /\ pc' = [pc EXCEPT ![c] = "crashed"]
    BY <1>9 DEF CrashAfterWrite
  <2>2. "crashed" \in Pcs \ {pc[c]} /\ "crashed" \notin Owning \cup Lapsing
    BY <1>0, <2>1 DEF Writing, Owning, Lapsing
  <2>3. \E l \in Pcs \ {pc[c]} :
            /\ pc' = [pc EXCEPT ![c] = l]
            /\ l \notin Owning /\ l \notin Lapsing
    BY <2>1, <2>2, Zenon
  <2> QED
    BY <2>1, <2>3 DEF Moves
<1>2. ASSUME NEW c \in Calls, Send(c) PROVE Reads
  BY <1>0, <1>2 DEF Send, Reads
<1>4. ASSUME NEW c \in Calls, SubmitAnswer(c) PROVE Reads
  <2>1. /\ pc[c] = "await" /\ UNCHANGED <<rec, now, seen, sent>>
        /\ pc' = [pc EXCEPT ![c] = "settle"] \/ pc' = [pc EXCEPT ![c] = "blur"]
    BY <1>4 DEF SubmitAnswer
  <2> QED
    BY <1>0, <2>1 DEF Reads
<1>3. ASSUME NEW c \in Calls, ReconcileAnswer(c) PROVE Reads
  BY <1>0, <1>3 DEF ReconcileAnswer, FoundUpstream, AbsentUpstream, UnknownUpstream, Reads
<1>5. ASSUME NEW c \in Calls, CreateFound(c) \/ ReadRecord(c) PROVE Reads
  BY <1>0, <1>5 DEF CreateFound, ReadRecord, Replays, Reads
<1>6. ASSUME NEW c \in Calls, Resume(c) PROVE Reads
  BY <1>0, <1>6 DEF Resume, Replays, Reads
<1>7. ASSUME NEW c \in Calls,
             \/ Expire(c) \/ Reclaim(c) \/ StartDispatch(c) \/ MarkAmbiguous(c) \/ Settle(c)
             \/ LapseDispatch(c) \/ ReleaseLease(c) \/ ClaimReconcile(c) \/ Conclude(c)
             \/ AuthorizeRetry(c) \/ YieldUnknown(c)
      PROVE  Reads \/ Moves(c)
  <2>1. CASE Refused(c)
    <3>1. /\ UNCHANGED <<rec, seen, now, sent>>
          /\ \/ pc' = [pc EXCEPT ![c] = "done"]
             \/ pc[c] = "settle" /\ pc' = [pc EXCEPT ![c] = "blur"]
             \/ \E l \in Pcs : pc' = [pc EXCEPT ![c] = l] /\ Stores(c)
      BY <1>0, <1>7, <2>1 DEF Refused, Expire, Reclaim, StartDispatch, MarkAmbiguous, Settle,
         Unsettled, LapseDispatch, ReleaseLease, ClaimReconcile, Conclude, Replays,
         AuthorizeRetry, YieldUnknown
    <3>2. pc[c] \in Writing
      BY <1>7 DEF Expire, Reclaim, StartDispatch, MarkAmbiguous, Settle, LapseDispatch,
         ReleaseLease, ClaimReconcile, Conclude, AuthorizeRetry, YieldUnknown, Writing
    <3>3. ~Stores(c)
      <4>1. SUFFICES ASSUME Stores(c) PROVE FALSE
        OBVIOUS
      <4>2. rec'.version = rec.version + 1 /\ rec.version \in Nat
        BY <3>2, <4>1, StoresOnSeen, StoresType DEF Writes, TypeInv, TypeOK, Record
      <4> QED
        BY <3>1, <4>2
    <3> QED
      BY <1>0, <3>1, <3>3 DEF Reads
  <2>2. CASE Stores(c) /\ ~Refused(c)
    <3>1. pc[c] \in Writing /\ UNCHANGED <<now, readAt, sent>>
      BY <1>7 DEF Expire, Reclaim, StartDispatch, MarkAmbiguous, Settle, LapseDispatch,
         ReleaseLease, ClaimReconcile, Conclude, AuthorizeRetry, YieldUnknown, Writing
    <3>2. \/ pc' = [pc EXCEPT ![c] = "done"]
          \/ pc[c] = "start" /\ pc' = [pc EXCEPT ![c] = "send"]
          \/ pc[c] = "reclaim" /\ pc' = [pc EXCEPT ![c] = "start"]
          \/ pc[c] = "claim" /\ pc' = [pc EXCEPT ![c] = "ask"]
          \/ pc[c] \in {"lapse", "release"} /\ pc' = [pc EXCEPT ![c] = "claim"]
      BY <1>7, <2>2 DEF Expire, Reclaim, StartDispatch, MarkAmbiguous, Settle,
         LapseDispatch, ReleaseLease, ClaimReconcile, Conclude, Replays, AuthorizeRetry,
         YieldUnknown
    <3> QED
      BY <1>0, <2>2, <3>1, <3>2 DEF Moves, Owning, Lapsing, Writing
  <2> QED
    BY <1>7, <2>1, <2>2 DEF Expire, Reclaim, StartDispatch, MarkAmbiguous, Settle,
       LapseDispatch, ReleaseLease, ClaimReconcile, Conclude, AuthorizeRetry, YieldUnknown
<1>8. ASSUME Tick \/ UNCHANGED vars PROVE Reads
  BY <1>0, <1>8 DEF Tick, vars, Reads
<1> QED
  BY <1>1, <1>2, <1>3, <1>4, <1>5, <1>6, <1>7, <1>8, <1>9, <1>10 DEF Next, Submit, Reconcile

LEMMA LeaseStep ==
    ASSUME Synchronized
    PROVE  TypeInv /\ Fence /\ LeaseInv /\ [Next]_vars => LeaseInv'
<1> SUFFICES ASSUME TypeInv, Fence, LeaseInv, [Next]_vars PROVE LeaseInv'
  OBVIOUS
<1> USE DEF Goto, Return, ReturnResult, Local
<1>0. /\ pc \in [Calls -> Pcs] /\ seen \in [Calls -> Record] /\ readAt \in [Calls -> Nat]
      /\ now \in Nat
      /\ \A c \in Calls : Clock(c) = now
  BY CallsHaveOwners DEF TypeInv, TypeOK, Synchronized, Clock
<1>1. ASSUME NEW c \in Calls,
             BeginSubmit(c) \/ BeginReconcile(c) \/ Throws(c) \/ Crash(c)
      PROVE  LeaseInv'
  BY <1>0, <1>1 DEF BeginSubmit, BeginReconcile, Throws, Crash, LeaseInv, Owning, Lapsing
<1>9. ASSUME NEW c \in Calls, CrashAfterWrite(c) PROVE LeaseInv'
  BY <1>0, <1>9 DEF CrashAfterWrite, Stores, LeaseInv, Owning, Lapsing
<1>2. ASSUME NEW c \in Calls, Send(c) \/ SubmitAnswer(c) PROVE LeaseInv'
  BY <1>0, <1>2 DEF Send, SubmitAnswer, LeaseInv, Owning, Lapsing
<1>3. ASSUME NEW c \in Calls, ReconcileAnswer(c) PROVE LeaseInv'
  BY <1>0, <1>3 DEF ReconcileAnswer, FoundUpstream, AbsentUpstream, UnknownUpstream,
     LeaseInv, Owning, Lapsing
<1>4. ASSUME NEW c \in Calls, CreateFresh(c) PROVE LeaseInv'
  <2>1. rec'.lease.owner = OwnerOf[c]
    BY <1>4 DEF CreateFresh, InitialRecord, NewLease
  <2> QED
    BY <1>0, <1>4, <2>1 DEF CreateFresh, LeaseInv, Owning, Lapsing
<1>5. ASSUME NEW c \in Calls, CreateFound(c) \/ ReadRecord(c) PROVE LeaseInv'
  BY <1>0, <1>5 DEF CreateFound, ReadRecord, Replays, Held, LeaseInv, Owning, Lapsing
<1>6. ASSUME NEW c \in Calls, Resume(c) PROVE LeaseInv'
  BY <1>0, <1>6 DEF Resume, Replays, StillPending, LeaseInv, Owning, Lapsing
<1>7. ASSUME NEW c \in Calls,
             \/ Expire(c) \/ Reclaim(c) \/ StartDispatch(c) \/ MarkAmbiguous(c) \/ Settle(c)
             \/ LapseDispatch(c) \/ ReleaseLease(c) \/ ClaimReconcile(c) \/ Conclude(c)
             \/ AuthorizeRetry(c) \/ YieldUnknown(c)
      PROVE  LeaseInv'
  <2>0. pc[c] \in Writing /\ UNCHANGED <<now, readAt>>
    BY <1>7 DEF Expire, Reclaim, StartDispatch, MarkAmbiguous, Settle, LapseDispatch,
       ReleaseLease, ClaimReconcile, Conclude, AuthorizeRetry, YieldUnknown, Writing
  <2>1. CASE UNCHANGED seen /\ \E l \in {"done", "blur"} : pc' = [pc EXCEPT ![c] = l]
                            /\ (l = "blur" => pc[c] = "settle")
    BY <1>0, <2>0, <2>1 DEF LeaseInv, Owning, Lapsing
  <2>2. CASE /\ Stores(c)
             /\ \/ pc' = [pc EXCEPT ![c] = "done"]
                \/ pc[c] = "start" /\ pc' = [pc EXCEPT ![c] = "send"]
                \/ pc[c] = "reclaim" /\ pc' = [pc EXCEPT ![c] = "start"]
                \/ pc[c] = "claim" /\ pc' = [pc EXCEPT ![c] = "ask"]
                \/ pc[c] \in {"lapse", "release"} /\ pc' = [pc EXCEPT ![c] = "claim"]
    <3>1. Writes(c, rec') /\ seen' = [seen EXCEPT ![c] = rec']
      BY <2>0, <2>2, StoresType
    <3>2. /\ pc[c] \in {"reclaim", "claim"} => rec'.lease.owner = OwnerOf[c]
          /\ pc[c] = "start" => rec'.lease.owner = OwnerOf[c]
      BY <3>1 DEF Writes, LeaseInv, Owning
    <3> QED
      BY <1>0, <2>0, <2>2, <3>1, <3>2 DEF LeaseInv, Owning, Lapsing
  <2> QED
    BY <1>7, <2>1, <2>2 DEF Refused, Expire, Reclaim, StartDispatch, MarkAmbiguous, Settle,
       Unsettled, LapseDispatch, ReleaseLease, ClaimReconcile, Conclude, Replays,
       AuthorizeRetry, YieldUnknown
<1>8. ASSUME Tick \/ UNCHANGED vars PROVE LeaseInv'
  BY <1>0, <1>8 DEF Tick, vars, LeaseInv
<1> QED
  BY <1>1, <1>2, <1>3, <1>4, <1>5, <1>6, <1>7, <1>8, <1>9 DEF Next, Submit, Reconcile

LEMMA LeaseInit == Init => LeaseInv
BY DEF Init, LeaseInv, Owning, Lapsing

\* Who writes over a lease that is alive, holds it.
LEMMA WriterHolds ==
    ASSUME TypeInv, Fence, LeaseInv, Unexpired(rec, now), NEW c \in Calls, Moves(c)
    PROVE  pc[c] \in Owning /\ rec.lease.owner = OwnerOf[c]
<1>1. seen[c] = rec /\ pc[c] \in Writing /\ rec.lease.expires \in Nat
  BY StoresOnSeen DEF Moves, TypeInv, TypeOK, Record, Lease
<1>2. pc[c] \notin Lapsing
  BY <1>1 DEF LeaseInv, Unexpired, TypeInv, TypeOK
<1>3. pc[c] # "claim"
  BY <1>1 DEF TypeInv, SeenShape, Unexpired
<1> QED
  BY <1>1, <1>2, <1>3 DEF LeaseInv, Owning, Lapsing, Writing

\* With synchronized clocks, only its holder changes a record under a live lease.
THEOREM LeasesAreRespected ==
    ASSUME Synchronized
    PROVE  Spec => LiveLeaseIsRespected
<1>1. ASSUME TypeInv, Fence, LeaseInv, [Next]_vars, Unexpired(rec, now), rec' # rec
      PROVE  \E c \in Calls : OwnerOf[c] = rec.lease.owner /\ pc'[c] # pc[c]
  <2>1. ASSUME NEW c \in Calls PROVE ~CreateFresh(c)
    BY <1>1 DEF CreateFresh, NoRecord, NoLease, Unexpired
  <2>2. PICK c \in Calls : Moves(c)
    BY <1>1, <2>1, WriteOrRead DEF Reads
  <2>3. pc'[c] # pc[c]
    BY <1>1, <2>2 DEF Moves, TypeInv, TypeOK
  <2> QED
    BY <1>1, <2>2, <2>3, WriterHolds
<1>2. TypeInv /\ Fence /\ LeaseInv /\ [Next]_vars =>
         [Unexpired(rec, now) /\ rec' # rec =>
            \E c \in Calls : OwnerOf[c] = rec.lease.owner /\ pc'[c] # pc[c]]_vars
  BY <1>1
<1> QED
  BY <1>2, TypeInvInit, TypeInvStep, FenceInit, FenceStep, LeaseInit, LeaseStep, PTL
  DEF Spec, LiveLeaseIsRespected

\* A dispatch under a live lease has the record to itself.
DispatchInv ==
    \A c \in Calls :
        /\ pc[c] \in {"await", "settle", "blur"} => sent[c].attempt = seen[c].attempts
        /\ pc[c] \in Dispatching /\ Unexpired(seen[c], now) => seen[c] = rec

LEMMA DispatchStep ==
    TypeInv /\ Fence /\ SeenOfKey /\ AttemptInv /\ LeaseInv /\ DispatchInv /\ [Next]_vars
        => DispatchInv'
<1> SUFFICES ASSUME TypeInv, Fence, SeenOfKey, AttemptInv, LeaseInv, DispatchInv, [Next]_vars
             PROVE  DispatchInv'
  OBVIOUS
<1>0. /\ pc \in [Calls -> Pcs] /\ seen \in [Calls -> Record] /\ now \in Nat
      /\ \A c \in Calls : seen[c].lease.expires \in Nat
  BY DEF TypeInv, TypeOK, Record, Lease
<1>1. CASE Reads
  <2> SUFFICES ASSUME NEW c \in Calls, pc'[c] \in {"send", "await", "settle", "blur"}
               PROVE  /\ pc'[c] # "send" => sent'[c].attempt = seen'[c].attempts
                      /\ Unexpired(seen'[c], now') => seen'[c] = rec'
    BY DEF DispatchInv, Dispatching
  <2>1. /\ pc[c] \in {"send", "await", "settle", "blur"}
        /\ seen'[c] = seen[c] /\ rec' = rec /\ now' >= now /\ now' \in Nat
    BY <1>1 DEF Reads
  <2>2. pc'[c] # "send" =>
            sent'[c].attempt = IF pc[c] = "send" THEN seen[c].attempts ELSE sent[c].attempt
    BY <1>1 DEF Reads
  <2>3. Unexpired(seen'[c], now') => Unexpired(seen[c], now)
    BY <1>0, <2>1 DEF Unexpired
  <2> QED
    BY <2>1, <2>2, <2>3 DEF DispatchInv, Dispatching
<1>2. ASSUME NEW c \in Calls, CreateFresh(c) PROVE DispatchInv'
  <2>1. ASSUME NEW d \in Calls
        PROVE  pc[d] \notin {"send", "await", "settle", "blur"}
    BY <1>2 DEF CreateFresh, SeenOfKey, TypeInv, SeenShape, NoRecord
  <2>2. \A d \in Calls : pc'[d] \notin {"send", "await", "settle", "blur"}
    BY <1>0, <1>2, <2>1 DEF CreateFresh, Goto
  <2> QED
    BY <2>2 DEF DispatchInv, Dispatching
<1>3. ASSUME NEW c \in Calls, Moves(c) PROVE DispatchInv'
  <2>1. /\ seen' = [seen EXCEPT ![c] = rec'] /\ seen[c] = rec /\ pc[c] \in Writing
        /\ now' = now /\ sent' = sent
    BY <1>3, StoresOnSeen, StoresType DEF Moves
  <2>2. ASSUME NEW d \in Calls, d # c, pc[d] \in {"send", "await", "settle", "blur"},
               seen[d] = rec
        PROVE  ~Unexpired(rec, now)
    <3>1. SUFFICES ASSUME Unexpired(rec, now) PROVE FALSE
      OBVIOUS
    <3>2. rec.phase = "started" /\ rec.attempts \in Nat /\ rec.attempts >= 1
      BY <2>2 DEF TypeInv, TypeOK, SeenShape, Record, NoRecord, ValidRecord, ValidPending,
         ValidAmbiguous, ValidTerminal, IsTerminal
    <3>3. pc[c] \in {"settle", "blur"}
      <4>1. pc[c] \in Owning
        BY <1>3, <3>1, WriterHolds
      <4>2. pc[c] \notin {"start", "conclude", "retry", "yield"}
        BY <2>1, <3>2 DEF TypeInv, TypeOK, SeenShape, NoRecord, ValidRecord, ValidPending,
           ValidAmbiguous, ValidTerminal, IsTerminal
      <4> QED
        BY <2>1, <4>1, <4>2 DEF Owning, Writing
    <3>4. Own(c) = rec.attempts /\ Own(d) = rec.attempts
      BY <2>1, <2>2, <3>3 DEF Own, DispatchInv
    <3> QED
      BY <2>2, <3>2, <3>4 DEF AttemptInv
  <2>3. PICK l \in Pcs \ {pc[c]} :
            /\ pc' = [pc EXCEPT ![c] = l]
            /\ l \in Owning => l \in {"send", "start", "ask"}
    BY <1>3 DEF Moves
  <2>4. ASSUME NEW d \in Calls, d # c
        PROVE  pc'[d] = pc[d] /\ seen'[d] = seen[d] /\ sent'[d] = sent[d]
    <3>1. pc'[d] = pc[d]
      BY <1>0, <2>3, <2>4
    <3>2. seen'[d] = seen[d]
      BY <1>0, <2>1, <2>4
    <3> QED
      BY <2>1, <3>1, <3>2
  <2>5. pc'[c] = l /\ seen'[c] = rec'
    BY <1>0, <2>1, <2>3
  <2> QED
    BY <2>1, <2>2, <2>3, <2>4, <2>5 DEF DispatchInv, Dispatching, Owning
<1> QED
  BY <1>1, <1>2, <1>3, WriteOrRead

\* With synchronized clocks and a store that makes the writes it can make, a
\* verdict that arrives while the lease is alive is stored.
THEOREM VerdictsInTimeAreStored ==
    ASSUME Synchronized, ~CasMayRefuse
    PROVE  Spec => VerdictInTimeIsStored
<1>1. ASSUME TypeInv, DispatchInv, [Next]_vars, NEW c \in Calls,
             pc[c] = "settle", pc'[c] = "blur"
      PROVE  ~Unexpired(seen[c], now)
  <2>0. pc \in [Calls -> Pcs]
    BY <1>1 DEF TypeInv, TypeOK
  <2>1. Settle(c)
    <3> USE DEF Goto, Return, ReturnResult
    <3>1. ASSUME NEW d \in Calls, Submit(d), d # c PROVE FALSE
      BY <1>1, <2>0, <3>1 DEF Submit, BeginSubmit, CreateFresh, CreateFound, Expire, Reclaim,
         StartDispatch, Send, SubmitAnswer, Settle, Unsettled, MarkAmbiguous, Replays
    <3>2. ASSUME NEW d \in Calls, Reconcile(d), d # c PROVE FALSE
      BY <1>1, <2>0, <3>2 DEF Reconcile, BeginReconcile, ReadRecord, Resume, LapseDispatch,
         ReleaseLease, ClaimReconcile, ReconcileAnswer, FoundUpstream, AbsentUpstream,
         UnknownUpstream, Conclude, AuthorizeRetry, YieldUnknown, Replays
    <3>3. ASSUME NEW d \in Calls, Throws(d) \/ Crash(d) \/ CrashAfterWrite(d) PROVE FALSE
      BY <1>1, <2>0, <3>3 DEF Throws, Crash, CrashAfterWrite
    <3>4. ~Tick /\ ~UNCHANGED vars
      BY <1>1 DEF Tick, vars
    <3>5. Submit(c) => Settle(c)
      BY <1>1 DEF Submit, BeginSubmit, CreateFresh, CreateFound, Expire, Reclaim,
         StartDispatch, Send, SubmitAnswer, MarkAmbiguous
    <3>6. ~Reconcile(c)
      BY <1>1 DEF Reconcile, BeginReconcile, ReadRecord, Resume, LapseDispatch,
         ReleaseLease, ClaimReconcile, ReconcileAnswer, Conclude, AuthorizeRetry, YieldUnknown
    <3> QED
      BY <1>1, <3>1, <3>2, <3>3, <3>4, <3>5, <3>6 DEF Next
  <2>2. Refused(c)
    BY <1>1, <2>0, <2>1 DEF Settle, ReturnResult
  <2>3. seen[c] # rec
    BY <2>2 DEF Refused, Matches
  <2> QED
    BY <1>1, <2>3 DEF DispatchInv, Dispatching
<1>2. TypeInv /\ DispatchInv /\ [Next]_vars =>
         [\A c \in Calls : pc[c] = "settle" /\ pc'[c] = "blur" =>
             ~Unexpired(seen[c], now)]_vars
  BY <1>1
<1>3. Init => DispatchInv
  BY DEF Init, DispatchInv, Dispatching
<1>4. Init => AttemptInv
  BY DEF Init, AttemptInv, Own, NotSent, NoRecord
<1> QED
  BY <1>2, <1>3, <1>4, TypeInvInit, TypeInvStep, FenceInit, FenceStep, SeenInit, SeenStep,
     LeaseInit, LeaseStep, AttemptStep, DispatchStep, PTL DEF Spec, VerdictInTimeIsStored

\* With synchronized clocks, only a dispatcher that outlived its lease is still at
\* the first attempt when a second one is allowed.
THEOREM RetriesFollowDispatch ==
    ASSUME Synchronized
    PROVE  Spec => []RetryAfterDispatch
<1>1. ASSUME TypeInv, DispatchInv, AbsenceInv PROVE RetryAfterDispatch
  <2> SUFFICES ASSUME NEW c \in Calls, NEW d \in Calls, ProvedAbsence(d),
                      pc[c] \in Dispatching, seen[c].attempts = 1,
                      Unexpired(seen[c], now)
               PROVE  FALSE
    BY DEF RetryAfterDispatch
  <2>1. rec.phase = "started" /\ rec.attempts = 1
    BY <1>1 DEF DispatchInv, TypeInv, SeenShape, Dispatching
  <2> QED
    BY <1>1, <2>1 DEF AbsenceInv, Cleared
<1>2. Init => DispatchInv
  BY DEF Init, DispatchInv, Dispatching
<1>3. Init => AttemptInv
  BY DEF Init, AttemptInv, Own, NotSent, NoRecord
<1> QED
  BY <1>1, <1>2, <1>3, TypeInvInit, TypeInvStep, FenceInit, FenceStep, SeenInit, SeenStep,
     LeaseInit, LeaseStep, AttemptStep, DispatchStep, AbsenceInit, AbsenceStep, PTL DEF Spec
=============================================================================
