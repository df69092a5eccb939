------------------------- MODULE ReleaseRuntime_proof -------------------------
(***************************************************************************)
(* Proofs about ReleaseRuntime, for every set of capabilities and releases *)
(* and every age limit.                                                    *)
(***************************************************************************)
EXTENDS ReleaseRuntime, TLAPS

\* An intent is the decision made last, not undone since, for a release whose
\* roots are active.
IntentStands ==
    \A c \in Capabilities :
        intent[c] # None =>
            /\ Active(intent[c])
            /\ ~decision[c].undone
            /\ decision[c].release = intent[c]

\* A capability that lost the decision it is listed under lost it at or after
\* the time of the refresh.
LostAfterRefresh ==
    /\ current # None => current.refreshedAt <= now
    /\ \A c \in Capabilities :
          Lists(current, c) /\ intent[c] # current.inventory[c].release =>
              current.refreshedAt <= lostAt[c]

\* A capability is listed as callable under active roots only.
ListedAreActive ==
    \A c \in Capabilities :
        Lists(current, c) => Active(current.inventory[c].release)

\* The inductive invariant.
IndInv == TypeOK /\ IntentStands /\ ListedAreActive /\ LostAfterRefresh

-----------------------------------------------------------------------------
(* The pieces the operations are made of. *)

\* What After leaves is the intent it was given, or none.
LEMMA AfterShape ==
    ASSUME NEW i, NEW x
    PROVE  After(i, x) = None \/ (After(i, x) = i /\ i = x /\ ~Terminal(x))
  BY DEF After

\* A projected record is one the inventory validation accepts.
LEMMA ProjectionValid ==
    ASSUME NEW i, NEW x \in Releases, NEW h \in BOOLEAN
    PROVE  Projection(i, x, h) \in CapabilityRecord
  <1> DEFINE p == Projection(i, x, h)
  <1>1. p \in [release : Releases, activated : BOOLEAN, healthy : BOOLEAN,
               callable : BOOLEAN]
    BY DEF Projection, Activated
  <1>2. p.callable = (p.activated /\ p.healthy)
    BY DEF Projection
  <1>3. p.activated => p.release.deployment.status = "active"
    BY DEF Projection, Activated, Active
  <1> QED
    BY <1>1, <1>2, <1>3 DEF CapabilityRecord

\* A callable projection stands on an intent for its release, which the
\* evaluation keeps.
LEMMA CallableProjection ==
    ASSUME NEW i, NEW x \in Releases, NEW h, Projection(i, x, h).callable
    PROVE  i = x /\ i # None /\ Active(x) /\ After(i, x) = i
  BY ReleasesAreSigned DEF Projection, Activated, After

\* None is none of the records that are current.
LEMMA NoneIsNoSnapshot ==
    ASSUME TypeOK, current # None
    PROVE  current \in Snapshot
  BY DEF TypeOK

-----------------------------------------------------------------------------
(* Type correctness. *)

LEMMA SetIntentsType ==
    ASSUME TypeOK, NEW new \in [Capabilities -> Releases \cup {None}],
           SetIntents(new)
    PROVE  /\ intent' \in [Capabilities -> Releases \cup {None}]
           /\ lostAt' \in [Capabilities -> Nat]
  BY DEF TypeOK, SetIntents

LEMMA PresentedType ==
    ASSUME TypeOK, NEW S, NEW x, Presented(S, x)
    PROVE  decision' \in [Capabilities -> Decision]
  <1>1. \A c \in Capabilities :
           /\ decision[c] \in Decision
           /\ [decision[c] EXCEPT !.undone = TRUE] \in Decision
    BY DEF TypeOK, Decision
  <1> QED
    BY <1>1 DEF Presented

LEMMA EvaluateAllType ==
    ASSUME TypeOK, NEW S, NEW x, EvaluateAll(S, x)
    PROVE  /\ intent' \in [Capabilities -> Releases \cup {None}]
           /\ lostAt' \in [Capabilities -> Nat]
           /\ decision' \in [Capabilities -> Decision]
  <1> DEFINE new == [c \in Capabilities |->
                        IF c \in S THEN After(intent[c], x[c]) ELSE intent[c]]
  <1>1. new \in [Capabilities -> Releases \cup {None}]
    BY AfterShape DEF TypeOK
  <1>2. SetIntents(new) /\ Presented(S, x)
    BY DEF EvaluateAll
  <1> HIDE DEF new
  <1> QED
    BY <1>1, <1>2, SetIntentsType, PresentedType

LEMMA TypeStep ==
    ASSUME TypeOK, [Next]_vars
    PROVE  TypeOK'
  <1>1. ASSUME NEW c \in Capabilities, NEW x \in Releases, Activate(c, x)
        PROVE  TypeOK'
    <2>1. [intent EXCEPT ![c] = After(x, x)] \in [Capabilities -> Releases \cup {None}]
      BY AfterShape DEF TypeOK
    <2>2. decision' \in [Capabilities -> Decision]
      BY <1>1 DEF Activate, TypeOK, Decision
    <2> QED
      BY <1>1, <2>1, <2>2, SetIntentsType DEF Activate, TypeOK
  <1>2. ASSUME NEW c \in Capabilities, NEW x \in Releases, Evaluate(c, x)
        PROVE  TypeOK'
    <2>1. [intent EXCEPT ![c] = After(intent[c], x)]
             \in [Capabilities -> Releases \cup {None}]
      BY AfterShape DEF TypeOK
    <2>2. SetIntents([intent EXCEPT ![c] = After(intent[c], x)])
      BY <1>2 DEF Evaluate
    <2>3. decision' \in [Capabilities -> Decision]
      BY <1>2, PresentedType DEF Evaluate
    <2> QED
      BY <1>2, <2>1, <2>2, <2>3, SetIntentsType DEF Evaluate, TypeOK
  <1>3. ASSUME NEW c \in Capabilities, Deactivate(c)
        PROVE  TypeOK'
    <2>1. [intent EXCEPT ![c] = None] \in [Capabilities -> Releases \cup {None}]
      BY DEF TypeOK
    <2>2. decision' \in [Capabilities -> Decision]
      BY <1>3 DEF Deactivate, TypeOK, Decision
    <2> QED
      BY <1>3, <2>1, <2>2, SetIntentsType DEF Deactivate, TypeOK
  <1>4. ASSUME NEW S \in SUBSET Capabilities, NEW x \in [S -> Releases],
               RefreshThrows(S, x)
        PROVE  TypeOK'
    BY <1>4, EvaluateAllType DEF RefreshThrows, TypeOK
  <1>5. ASSUME NEW S \in SUBSET Capabilities, NEW x \in [S -> Releases],
               NEW healthy \in SUBSET S, NEW at \in 0..now,
               Refresh(S, x, healthy, at)
        PROVE  TypeOK'
    <2> DEFINE listed == [c \in Capabilities |->
                 IF c \in S THEN Projection(intent[c], x[c], c \in healthy) ELSE None]
    <2>1. ASSUME NEW c \in S
          PROVE  Projection(intent[c], x[c], c \in healthy) \in CapabilityRecord
      <3>1. x[c] \in Releases /\ (c \in healthy) \in BOOLEAN
        OBVIOUS
      <3> QED
        BY <3>1, ProjectionValid, Zenon
    <2>2. listed \in [Capabilities -> CapabilityRecord \cup {None}]
      BY <2>1
    <2>3. at \in Nat
      BY DEF TypeOK
    <2>4. current' = [inventory |-> listed, refreshedAt |-> at]
      BY <1>5 DEF Refresh
    <2>5. current' \in Snapshot
      <3> HIDE DEF listed
      <3> QED
        BY <2>2, <2>3, <2>4 DEF Snapshot
    <2> QED
      BY <1>5, <2>5, EvaluateAllType DEF Refresh, TypeOK
  <1>6. CASE Clear
    BY <1>6 DEF Clear, TypeOK
  <1>7. CASE Tick
    BY <1>7 DEF Tick, TypeOK
  <1>8. CASE UNCHANGED vars
    BY <1>8 DEF vars, TypeOK
  <1> QED
    BY <1>1, <1>2, <1>3, <1>4, <1>5, <1>6, <1>7, <1>8
       DEF Next, Operate, RefreshSome

-----------------------------------------------------------------------------
(* The invariant is inductive. *)

LEMMA InitInv == Init => IndInv
  <1> SUFFICES ASSUME Init PROVE IndInv
    OBVIOUS
  <1>1. TypeOK
    BY DEF Init, TypeOK, Decision
  <1>2. IntentStands /\ ListedAreActive /\ LostAfterRefresh
    BY DEF Init, IntentStands, ListedAreActive, LostAfterRefresh, Lists
  <1> QED
    BY <1>1, <1>2 DEF IndInv

\* Steps that leave the snapshot and the clock alone and take intents away:
\* whatever is listed stays active, and what is lost is lost now.
LEMMA LosingKeepsBound ==
    ASSUME IndInv, NEW new, SetIntents(new), UNCHANGED <<current, now>>
    PROVE  ListedAreActive' /\ LostAfterRefresh'
  <1>1. ListedAreActive'
    BY DEF IndInv, ListedAreActive, Lists
  <1>2. ASSUME NEW c \in Capabilities, Lists(current, c),
               new[c] # current.inventory[c].release
        PROVE  current.refreshedAt <= lostAt'[c]
    <2>1. CASE intent[c] # current.inventory[c].release
      <3>1. current.refreshedAt <= lostAt[c] /\ current.refreshedAt <= now
        BY <1>2, <2>1 DEF IndInv, LostAfterRefresh, Lists
      <3> QED
        BY <3>1 DEF SetIntents
    <2>2. CASE intent[c] = current.inventory[c].release
      <3>1. current.inventory[c] \in CapabilityRecord
        BY <1>2, NoneIsNoSnapshot DEF IndInv, Lists, Snapshot
      <3>2. intent[c] # None
        BY <2>2, <3>1, ReleasesAreSigned DEF CapabilityRecord
      <3>3. lostAt'[c] = now
        BY <1>2, <2>2, <3>2 DEF SetIntents
      <3> QED
        BY <1>2, <3>3 DEF IndInv, LostAfterRefresh, Lists
    <2> QED
      BY <2>1, <2>2
  <1>3. intent' = new
    BY DEF SetIntents
  <1>4. current' = current /\ now' = now
    OBVIOUS
  <1>5. current' # None => current'.refreshedAt <= now'
    BY <1>4 DEF IndInv, LostAfterRefresh
  <1>6. \A c \in Capabilities :
           Lists(current', c) /\ intent'[c] # current'.inventory[c].release =>
              current'.refreshedAt <= lostAt'[c]
    BY <1>2, <1>3, <1>4
  <1> QED
    BY <1>1, <1>5, <1>6 DEF LostAfterRefresh, Lists

\* An evaluation keeps an intent only if the evidence does not undo the
\* decision behind it.
LEMMA PresentedKeeps ==
    ASSUME IndInv, NEW S, NEW x, Presented(S, x),
           NEW c \in Capabilities, intent[c] # None,
           c \in S => After(intent[c], x[c]) = intent[c]
    PROVE  decision'[c] = decision[c]
  <1>1. c \in S => intent[c] = x[c] /\ ~Terminal(x[c])
    BY AfterShape
  <1>2. decision[c].release = intent[c]
    BY DEF IndInv, IntentStands
  <1> QED
    BY <1>1, <1>2 DEF Presented

LEMMA EvaluateAllStands ==
    ASSUME IndInv, NEW S, NEW x, EvaluateAll(S, x)
    PROVE  IntentStands'
  <1> SUFFICES ASSUME NEW c \in Capabilities, intent'[c] # None
               PROVE  /\ Active(intent'[c])
                      /\ ~decision'[c].undone
                      /\ decision'[c].release = intent'[c]
    BY DEF IntentStands, Active
  <1>1. intent'[c] = IF c \in S THEN After(intent[c], x[c]) ELSE intent[c]
    BY DEF EvaluateAll, SetIntents
  <1>2. intent'[c] = intent[c] /\ (c \in S => After(intent[c], x[c]) = intent[c])
    BY <1>1, AfterShape
  <1>3. decision'[c] = decision[c]
    BY <1>2, PresentedKeeps DEF EvaluateAll
  <1> QED
    BY <1>2, <1>3 DEF IndInv, IntentStands

LEMMA StandsStep ==
    ASSUME IndInv, [Next]_vars
    PROVE  IntentStands'
  <1>1. ASSUME NEW c \in Capabilities, NEW x \in Releases, Activate(c, x)
        PROVE  IntentStands'
    <2>1. intent' = [intent EXCEPT ![c] = After(x, x)]
      BY <1>1 DEF Activate, SetIntents
    <2>2. decision' = [decision EXCEPT ![c] = [release |-> x, undone |-> FALSE]]
      BY <1>1 DEF Activate
    <2>3. Active(x)
      BY <1>1 DEF Activate
    <2> SUFFICES ASSUME NEW d \in Capabilities, intent'[d] # None
                 PROVE  /\ Active(intent'[d])
                        /\ ~decision'[d].undone
                        /\ decision'[d].release = intent'[d]
      BY DEF IntentStands, Active
    <2>4. CASE d = c
      <3>1. intent'[d] = x
        BY <2>1, <2>4, AfterShape DEF IndInv, TypeOK
      <3>2. decision'[d] = [release |-> x, undone |-> FALSE]
        BY <2>2, <2>4 DEF IndInv, TypeOK
      <3> QED
        BY <3>1, <3>2, <2>3
    <2>5. CASE d # c
      <3>1. intent'[d] = intent[d] /\ decision'[d] = decision[d]
        BY <2>1, <2>2, <2>5 DEF IndInv, TypeOK
      <3> QED
        BY <3>1 DEF IndInv, IntentStands
    <2> QED
      BY <2>4, <2>5
  <1>2. ASSUME NEW c \in Capabilities, NEW x \in Releases, Evaluate(c, x)
        PROVE  IntentStands'
    <2> DEFINE given == [d \in {c} |-> x]
    <2>1. intent' = [intent EXCEPT ![c] = After(intent[c], x)]
      BY <1>2 DEF Evaluate, SetIntents
    <2>2. Presented({c}, given)
      BY <1>2 DEF Evaluate
    <2>3. given[c] = x
      OBVIOUS
    <2> SUFFICES ASSUME NEW d \in Capabilities, intent'[d] # None
                 PROVE  /\ Active(intent'[d])
                        /\ ~decision'[d].undone
                        /\ decision'[d].release = intent'[d]
      BY DEF IntentStands, Active
    <2>4. intent'[d] = IF d = c THEN After(intent[d], x) ELSE intent[d]
      BY <2>1 DEF IndInv, TypeOK
    <2>5. intent'[d] = intent[d]
      BY <2>4, AfterShape
    <2>6. d \in {c} => After(intent[d], given[d]) = intent[d]
      BY <2>3, <2>4, <2>5
    <2>7. decision'[d] = decision[d]
      <3> HIDE DEF given
      <3> QED
        BY <2>2, <2>5, <2>6, PresentedKeeps
    <2> QED
      BY <2>5, <2>7 DEF IndInv, IntentStands
  <1>3. ASSUME NEW c \in Capabilities, Deactivate(c)
        PROVE  IntentStands'
    <2> SUFFICES ASSUME NEW d \in Capabilities, intent'[d] # None
                 PROVE  /\ Active(intent'[d])
                        /\ ~decision'[d].undone
                        /\ decision'[d].release = intent'[d]
      BY DEF IntentStands, Active
    <2>1. d # c /\ intent'[d] = intent[d] /\ decision'[d] = decision[d]
      BY <1>3 DEF Deactivate, SetIntents, IndInv, TypeOK
    <2> QED
      BY <2>1 DEF IndInv, IntentStands
  <1>4. CASE RefreshSome
    BY <1>4, EvaluateAllStands DEF RefreshSome, Refresh, RefreshThrows
  <1>5. CASE Clear \/ Tick \/ UNCHANGED vars
    BY <1>5 DEF Clear, Tick, vars, IndInv, IntentStands, Active
  <1> QED
    BY <1>1, <1>2, <1>3, <1>4, <1>5 DEF Next, Operate

\* What a refresh lists as callable is intended, active, and stays intended.
LEMMA RefreshLists ==
    ASSUME IndInv, NEW S \in SUBSET Capabilities, NEW x \in [S -> Releases],
           NEW healthy \in SUBSET S, NEW at, Refresh(S, x, healthy, at),
           NEW c \in Capabilities, Lists(current', c)
    PROVE  /\ intent[c] # None /\ intent'[c] = intent[c]
           /\ current'.inventory[c].release = intent[c]
           /\ Active(intent[c])
  <1> DEFINE p == Projection(intent[c], x[c], c \in healthy)
  <1>1. current'.inventory[c] = IF c \in S THEN p ELSE None
    BY DEF Refresh
  <1>2. c \in S /\ current'.inventory[c] = p /\ p.callable
    BY <1>1 DEF Lists
  <1>3. x[c] \in Releases
    BY <1>2
  <1>4. /\ intent[c] = x[c] /\ intent[c] # None /\ Active(x[c])
        /\ After(intent[c], x[c]) = intent[c]
    BY <1>2, <1>3, CallableProjection
  <1>5. intent'[c] = intent[c]
    BY <1>2, <1>4 DEF Refresh, EvaluateAll, SetIntents
  <1>6. p.release = x[c]
    BY DEF Projection
  <1> QED
    BY <1>2, <1>4, <1>5, <1>6

LEMMA BoundStep ==
    ASSUME IndInv, [Next]_vars
    PROVE  ListedAreActive' /\ LostAfterRefresh'
  <1>1. ASSUME NEW c \in Capabilities, NEW x \in Releases,
               Activate(c, x) \/ Evaluate(c, x)
        PROVE  ListedAreActive' /\ LostAfterRefresh'
    BY <1>1, LosingKeepsBound DEF Activate, Evaluate
  <1>2. ASSUME NEW c \in Capabilities, Deactivate(c)
        PROVE  ListedAreActive' /\ LostAfterRefresh'
    BY <1>2, LosingKeepsBound DEF Deactivate
  <1>3. ASSUME NEW S \in SUBSET Capabilities, NEW x \in [S -> Releases],
               RefreshThrows(S, x)
        PROVE  ListedAreActive' /\ LostAfterRefresh'
    BY <1>3, LosingKeepsBound DEF RefreshThrows, EvaluateAll
  <1>4. ASSUME NEW S \in SUBSET Capabilities, NEW x \in [S -> Releases],
               NEW healthy \in SUBSET S, NEW at \in 0..now,
               Refresh(S, x, healthy, at)
        PROVE  ListedAreActive' /\ LostAfterRefresh'
    <2>1. \A c \in Capabilities : Lists(current', c) =>
             /\ intent'[c] = current'.inventory[c].release
             /\ Active(current'.inventory[c].release)
      BY <1>4, RefreshLists
    <2>2. current'.refreshedAt = at /\ now' = now
      BY <1>4 DEF Refresh
    <2>3. at <= now
      BY DEF IndInv, TypeOK
    <2> QED
      BY <2>1, <2>2, <2>3 DEF ListedAreActive, LostAfterRefresh, Lists, Active
  <1>5. CASE Clear
    BY <1>5 DEF Clear, ListedAreActive, LostAfterRefresh, Lists
  <1>6. CASE Tick
    <2>1. now \in Nat /\ (current # None => current.refreshedAt \in Nat)
      BY NoneIsNoSnapshot DEF IndInv, TypeOK, Snapshot
    <2>2. current # None => current.refreshedAt <= now + 1
      BY <2>1 DEF IndInv, LostAfterRefresh
    <2> QED
      BY <1>6, <2>2
         DEF Tick, IndInv, ListedAreActive, LostAfterRefresh, Lists, Active
  <1>7. CASE UNCHANGED vars
    BY <1>7 DEF vars, IndInv, ListedAreActive, LostAfterRefresh, Lists, Active
  <1> QED
    BY <1>1, <1>2, <1>3, <1>4, <1>5, <1>6, <1>7 DEF Next, Operate, RefreshSome

LEMMA Invariance == Spec => []IndInv
  <1>1. IndInv /\ [Next]_vars => IndInv'
    BY TypeStep, StandsStep, BoundStep DEF IndInv
  <1> QED
    BY <1>1, InitInv, PTL DEF Spec

-----------------------------------------------------------------------------
(* The theorems. *)

\* Intents, snapshot and histories keep their types, and every current
\* inventory consists of valid records.
THEOREM ReleaseTypes == Spec => []TypeOK
  BY Invariance, PTL DEF IndInv

\* Whatever is listed as callable was put in force on active roots only.
THEOREM CallableActive == Spec => []CallableIsActive
  <1>1. IndInv => CallableIsActive
    BY DEF IndInv, ListedAreActive, CallableIsActive, Active
  <1> QED
    BY <1>1, Invariance, PTL

\* However a decision ends, the snapshot taken under it is served for at most
\* MaxAge longer.
THEOREM RevocationBounded == Spec => []RevocationIsBounded
  <1>1. IndInv => RevocationIsBounded
    <2> SUFFICES ASSUME IndInv, NEW c \in Capabilities, Served(c),
                        intent[c] # current.inventory[c].release
                 PROVE  now - lostAt[c] <= MaxAge
      BY DEF RevocationIsBounded
    <2>1. Lists(current, c) /\ now - current.refreshedAt <= MaxAge
      BY DEF Served, Fresh
    <2>2. current.refreshedAt <= lostAt[c]
      BY <2>1 DEF IndInv, LostAfterRefresh
    <2>3. /\ now \in Nat /\ lostAt[c] \in Nat
          /\ current.refreshedAt \in Nat
      BY <2>1, NoneIsNoSnapshot DEF IndInv, TypeOK, Lists, Snapshot
    <2> QED
      BY <2>1, <2>2, <2>3, AgeAndTime
  <1> QED
    BY <1>1, Invariance, PTL

\* A capability becomes callable only under a standing decision for exactly
\* the evidence of the refresh.
THEOREM CallableDecided == Spec => CallableByDecision
  <1> DEFINE Step ==
        \A c \in Capabilities :
            current' # current /\ Lists(current', c) =>
                /\ ~decision[c].undone
                /\ decision[c].release = current'.inventory[c].release
  <1>1. ASSUME IndInv, [Next]_vars PROVE [Step]_vars
    <2>1. ASSUME NEW S \in SUBSET Capabilities, NEW x \in [S -> Releases],
                 NEW healthy \in SUBSET S, NEW at, Refresh(S, x, healthy, at)
          PROVE  Step
      BY <1>1, <2>1, RefreshLists DEF IndInv, IntentStands
    <2>2. CASE current' = current \/ current' = None
      BY <2>2 DEF Lists
    <2> QED
      BY <1>1, <2>1, <2>2
         DEF Next, Operate, RefreshSome, Activate, Evaluate, Deactivate,
             RefreshThrows, Clear, Tick, vars
  <1> QED
    BY <1>1, Invariance, PTL DEF Spec, CallableByDecision
=============================================================================
