--------------------------- MODULE Gateway_proof ----------------------------
(***************************************************************************)
(* Proofs about the gateway (packages/gateway/src): its credentials, for   *)
(* every set of requests and every maximum age of a cache entry; its work  *)
(* admission, for every set of work items, every cost and every limit; and *)
(* the tool router that admits and cancels the work, for any calls and     *)
(* deadlines.                                                              *)
(***************************************************************************)
EXTENDS Credentials, ToolRouter, SumTheorems, TLAPS

-----------------------------------------------------------------------------
(* Credentials.                                                            *)

\* The cache never claims to know that a credential was good at a time when it
\* had been revoked already, or revoked before it was.
EntryIsTrue ==
    entry # None =>
        IF entry.revoked THEN revokedAt # None
        ELSE revokedAt # None => entry.checkedAt <= revokedAt

\* What the source saw was true at some time since the question was asked.
LookedIsTrue ==
    \A r \in Requests :
        pc[r] = "looked" =>
            IF looked[r] THEN revokedAt # None
            ELSE revokedAt # None => readAt[r] <= revokedAt

\* Only a request that has returned has a reply.
Answered == \A r \in Requests : pc[r] # "done" => told[r] = "none"

\* The inductive invariant.
CredentialInv ==
    CredentialTypeOK /\ Answered /\ EntryIsTrue /\ LookedIsTrue /\ RevocationIsBounded

LEMMA CredentialInitially == CredentialsInit => CredentialInv
  BY AgeAndTime
     DEF CredentialsInit, CredentialInv, CredentialTypeOK, Time, Reply, Answered, EntryIsTrue,
         LookedIsTrue, RevocationIsBounded

-----------------------------------------------------------------------------
(* Types. *)

LEMMA ReturnType ==
    ASSUME CredentialTypeOK, NEW r \in Requests, NEW code \in Reply, Return(r, code)
    PROVE  /\ pc' \in [Requests -> {"idle", "asked", "looked", "done"}]
           /\ told' \in [Requests -> Reply]
  BY DEF CredentialTypeOK, Return

LEMMA TypeStep ==
    ASSUME CredentialTypeOK, [CredentialsNext]_credentialVars
    PROVE  CredentialTypeOK'
  <1> USE DEF CredentialTypeOK
  <1>1. ASSUME NEW r \in Requests, Authenticate(r)
        PROVE  CredentialTypeOK'
    <2>1. readAt' \in [Requests -> Nat] /\ \A q \in Requests : readAt'[q] <= clock
      BY <1>1 DEF Authenticate
    <2>2. /\ pc' \in [Requests -> {"idle", "asked", "looked", "done"}]
          /\ told' \in [Requests -> Reply]
      <3>1. CASE pc' = [pc EXCEPT ![r] = "asked"] /\ UNCHANGED told
        BY <3>1
      <3>2. CASE \E code \in Reply : Return(r, code)
        BY <3>2, ReturnType
      <3> QED
        BY <1>1, <3>1, <3>2 DEF Authenticate, Verdict, Reply
    <2> QED
      BY <1>1, <2>1, <2>2 DEF Authenticate
  <1>2. ASSUME NEW r \in Requests, LookUp(r)
        PROVE  CredentialTypeOK'
    BY <1>2 DEF LookUp
  <1>3. ASSUME NEW r \in Requests, Learn(r)
        PROVE  CredentialTypeOK'
    <2>1. Verdict(looked[r]) \in Reply
      BY DEF Verdict, Reply
    <2>2. Return(r, Verdict(looked[r]))
      BY <1>3 DEF Learn
    <2>3. /\ entry' = [revoked |-> looked[r], checkedAt |-> readAt[r]]
          /\ UNCHANGED <<clock, revokedAt, claims, readAt, looked>>
      BY <1>3 DEF Learn, CheckedAt
    <2>4. entry' \in Entry /\ entry'.checkedAt <= clock
      BY <2>3 DEF Entry
    <2> QED
      BY <2>1, <2>2, <2>3, <2>4, ReturnType
  <1>4. ASSUME NEW r \in Requests, SourceFails(r)
        PROVE  CredentialTypeOK'
    <2>1. "threw" \in Reply
      BY DEF Reply
    <2> QED
      BY <1>4, <2>1, ReturnType DEF SourceFails
  <1>5. CASE Revoke
    BY <1>5 DEF Revoke, Time
  <1>6. CASE ClockTick
    BY <1>6, NoneIsNoTime DEF ClockTick, Time, Entry
  <1>7. CASE UNCHANGED credentialVars
    BY <1>7 DEF credentialVars
  <1> QED
    BY <1>1, <1>2, <1>3, <1>4, <1>5, <1>6, <1>7 DEF CredentialsNext

-----------------------------------------------------------------------------
(* Safety. *)

LEMMA AnsweredStep ==
    ASSUME CredentialTypeOK, Answered, [CredentialsNext]_credentialVars
    PROVE  Answered'
  BY DEF CredentialTypeOK, Answered, CredentialsNext, credentialVars, Authenticate, LookUp, Learn, SourceFails,
         Revoke, ClockTick, Return

LEMMA SafetyStep ==
    ASSUME CredentialInv, [CredentialsNext]_credentialVars
    PROVE  EntryIsTrue' /\ LookedIsTrue' /\ RevocationIsBounded'
  <1> USE AgeAndTime, NoneIsNoTime DEF CredentialInv
  <1>1. ASSUME NEW r \in Requests, Authenticate(r)
        PROVE  EntryIsTrue' /\ LookedIsTrue' /\ RevocationIsBounded'
    <2>1. /\ UNCHANGED <<clock, entry, revokedAt, looked>>
          /\ readAt' = [readAt EXCEPT ![r] = clock]
      BY <1>1 DEF Authenticate
    <2>2. /\ \A q \in Requests \ {r} : pc'[q] = pc[q] /\ told'[q] = told[q]
          /\ pc'[r] # "looked"
          /\ told'[r] = "ok" =>
                told[r] = "ok" \/ (Usable(entry, clock) /\ ~entry.revoked)
      BY <1>1 DEF Authenticate, Return, Verdict, CredentialTypeOK
    <2>3. EntryIsTrue'
      BY <2>1 DEF EntryIsTrue
    <2>4. LookedIsTrue'
      BY <2>1, <2>2 DEF LookedIsTrue, CredentialTypeOK
    <2>5. ASSUME NEW q \in Requests, told'[q] = "ok", revokedAt # None
          PROVE  readAt'[q] - revokedAt < MaximumAgeMs \/ readAt'[q] <= revokedAt
      <3>1. CASE q # r
        BY <2>1, <2>2, <2>5, <3>1 DEF RevocationIsBounded, CredentialTypeOK
      <3>2. CASE q = r /\ Usable(entry, clock) /\ ~entry.revoked
        <4>1. /\ clock - entry.checkedAt < MaximumAgeMs
              /\ entry.checkedAt <= revokedAt
              /\ entry.checkedAt \in Nat /\ revokedAt \in Nat /\ clock \in Nat
          BY <2>5, <3>2 DEF Usable, EntryIsTrue, CredentialTypeOK, Entry, Time
        <4>2. readAt'[q] = clock
          BY <2>1, <3>2 DEF CredentialTypeOK
        <4> QED
          BY <4>1, <4>2
      <3>3. told[r] # "ok"
        BY <1>1 DEF Authenticate, Answered
      <3> QED
        BY <2>2, <2>5, <3>1, <3>2, <3>3
    <2> QED
      BY <2>1, <2>3, <2>4, <2>5 DEF RevocationIsBounded
  <1>2. ASSUME NEW r \in Requests, LookUp(r)
        PROVE  EntryIsTrue' /\ LookedIsTrue' /\ RevocationIsBounded'
    BY <1>2 DEF LookUp, CredentialTypeOK, EntryIsTrue, LookedIsTrue, RevocationIsBounded
  <1>3. ASSUME NEW r \in Requests, Learn(r)
        PROVE  EntryIsTrue' /\ LookedIsTrue' /\ RevocationIsBounded'
    <2>1. /\ pc[r] = "looked"
          /\ entry' = [revoked |-> looked[r], checkedAt |-> readAt[r]]
          /\ UNCHANGED <<clock, revokedAt, claims, readAt, looked>>
          /\ pc' = [pc EXCEPT ![r] = "done"]
          /\ told' = [told EXCEPT ![r] = Verdict(looked[r])]
      BY <1>3 DEF Learn, CheckedAt, Return
    <2>2. IF looked[r] THEN revokedAt # None
          ELSE revokedAt # None => readAt[r] <= revokedAt
      BY <2>1 DEF LookedIsTrue
    <2>3. EntryIsTrue'
      BY <2>1, <2>2 DEF EntryIsTrue
    <2>4. LookedIsTrue'
      BY <2>1 DEF LookedIsTrue, CredentialTypeOK
    <2>5. RevocationIsBounded'
      BY <2>1, <2>2 DEF RevocationIsBounded, Verdict, CredentialTypeOK
    <2> QED
      BY <2>3, <2>4, <2>5
  <1>4. ASSUME NEW r \in Requests, SourceFails(r)
        PROVE  EntryIsTrue' /\ LookedIsTrue' /\ RevocationIsBounded'
    BY <1>4 DEF SourceFails, Return, CredentialTypeOK, EntryIsTrue, LookedIsTrue,
                RevocationIsBounded
  <1>5. CASE Revoke
    <2>1. /\ \A r \in Requests : readAt[r] <= revokedAt'
          /\ entry # None => entry.checkedAt <= revokedAt'
          /\ revokedAt' # None
      BY <1>5 DEF Revoke, CredentialTypeOK
    <2> QED
      BY <1>5, <2>1 DEF Revoke, EntryIsTrue, LookedIsTrue, RevocationIsBounded
  <1>6. CASE ClockTick
    BY <1>6 DEF ClockTick, EntryIsTrue, LookedIsTrue, RevocationIsBounded
  <1>7. CASE UNCHANGED credentialVars
    BY <1>7 DEF credentialVars, EntryIsTrue, LookedIsTrue, RevocationIsBounded
  <1> QED
    BY <1>1, <1>2, <1>3, <1>4, <1>5, <1>6, <1>7 DEF CredentialsNext

LEMMA Invariance == CredentialsSpec => []CredentialInv
  <1>1. CredentialInv /\ [CredentialsNext]_credentialVars => CredentialInv'
    BY TypeStep, AnsweredStep, SafetyStep DEF CredentialInv
  <1> QED
    BY <1>1, CredentialInitially, PTL DEF CredentialsSpec

-----------------------------------------------------------------------------
(* The theorems. *)

\* Types, and no recorded time lies in the future.
THEOREM CredentialTypes == CredentialsSpec => []CredentialTypeOK
  BY Invariance, PTL DEF CredentialInv

\* What the cache says was true when it is dated.
THEOREM CacheIsTrue == CredentialsSpec => []EntryIsTrue
  BY Invariance, PTL DEF CredentialInv

\* A revoked credential is let in for less than the maximum age of an entry,
\* however the answers of the source are delayed and reordered.
THEOREM RevocationBounded == CredentialsSpec => []RevocationIsBounded
  BY Invariance, PTL DEF CredentialInv

-----------------------------------------------------------------------------
(* Work admission: the limits.                                             *)

Usage == [Dimensions -> Int]

Types ==
    /\ principalUsage \in [Principals -> Usage]
    /\ globalUsage \in Usage
    /\ publicUsage \in Usage

IndInv == Types /\ WithinLimits

\* A constant fact: the limits are at least zero, so nothing in use is within them.
LEMMA ZeroFits ==
    /\ Zero \in Usage
    /\ ~Exceeds(Zero, PerPrincipal)
    /\ ~Exceeds(Zero, Global)
    /\ ~Exceeds(Zero, PublicLimit)
  BY Limits DEF Cost, Usage, Zero, Exceeds, PublicLimit

\* Adding a cost gives a usage.
LEMMA PlusType ==
    ASSUME NEW u \in Usage, NEW c \in Calls
    PROVE  Plus(u, CostOf[c]) \in Usage
  BY WorkItems DEF Cost, Usage, Plus

\* So does giving one back,
LEMMA MinusType ==
    ASSUME NEW u \in Usage, NEW c \in Calls
    PROVE  Minus(u, CostOf[c]) \in Usage
  BY WorkItems DEF Cost, Usage, Minus

\* and what was within a limit remains within it.
LEMMA MinusFits ==
    ASSUME NEW u \in Usage, NEW c \in Calls,
           NEW limit \in Usage, ~Exceeds(u, limit)
    PROVE  ~Exceeds(Minus(u, CostOf[c]), limit)
  <1> SUFFICES ASSUME NEW d \in Dimensions
               PROVE  ~(u[d] - CostOf[c][d] > limit[d])
    BY DEF Exceeds, Minus
  <1>1. CostOf[c][d] \in Nat
    BY WorkItems DEF Cost
  <1>2. u[d] \in Int /\ limit[d] \in Int /\ ~(u[d] > limit[d])
    BY DEF Usage, Exceeds
  <1> QED
    BY <1>1, <1>2

LEMMA LimitTypes ==
    PerPrincipal \in Usage /\ Global \in Usage /\ PublicLimit \in Usage
  BY Limits DEF Cost, Usage, PublicLimit

LEMMA AdmitStep ==
    ASSUME IndInv, NEW c \in Calls, Admit(c)
    PROVE  IndInv'
  <1> USE DEF IndInv
  <1>1. PrincipalOf[c] \in Principals
    BY WorkItems
  <1>2. Types'
    BY <1>1, PlusType DEF Types, Admit
  <1>3. \A p \in Principals : ~Exceeds(principalUsage'[p], PerPrincipal)
    <2> SUFFICES ASSUME NEW p \in Principals
                 PROVE  ~Exceeds(principalUsage'[p], PerPrincipal)
      OBVIOUS
    <2>1. CASE p = PrincipalOf[c]
      <3>1. principalUsage'[p] = Plus(principalUsage[PrincipalOf[c]], CostOf[c])
        BY <2>1 DEF Types, Admit
      <3> QED
        BY <3>1 DEF Admit, Admissible
    <2>2. CASE p # PrincipalOf[c]
      BY <2>2 DEF Types, Admit, WithinLimits
    <2> QED
      BY <2>1, <2>2
  <1>4. ~Exceeds(globalUsage', Global)
    BY DEF Admit, Admissible
  <1>5. ~Exceeds(publicUsage', PublicLimit)
    BY DEF Admit, Admissible, WithinLimits
  <1> QED
    BY <1>2, <1>3, <1>4, <1>5 DEF WithinLimits, Exceeds, PublicLimit

LEMMA ReleaseStep ==
    ASSUME IndInv, NEW c \in Calls, GiveBack(c)
    PROVE  IndInv'
  <1> USE DEF IndInv
  <1>1. PrincipalOf[c] \in Principals
    BY WorkItems
  <1>2. Types'
    BY <1>1, MinusType DEF Types, GiveBack
  <1>3. \A p \in Principals : ~Exceeds(principalUsage'[p], PerPrincipal)
    <2> SUFFICES ASSUME NEW p \in Principals
                 PROVE  ~Exceeds(principalUsage'[p], PerPrincipal)
      OBVIOUS
    <2>1. principalUsage[p] \in Usage /\ ~Exceeds(principalUsage[p], PerPrincipal)
      BY DEF Types, WithinLimits
    <2>2. CASE p = PrincipalOf[c]
      <3>1. principalUsage'[p] = Minus(principalUsage[p], CostOf[c])
        BY <2>2 DEF Types, GiveBack
      <3> QED
        BY <2>1, <3>1, MinusFits, LimitTypes
    <2>3. CASE p # PrincipalOf[c]
      <3>1. principalUsage'[p] = principalUsage[p]
        BY <2>3 DEF Types, GiveBack
      <3> QED
        BY <2>1, <3>1
    <2> QED
      BY <2>2, <2>3
  <1>4. ~Exceeds(globalUsage', Global)
    BY MinusFits, LimitTypes DEF Types, WithinLimits, GiveBack
  <1>5. ~Exceeds(publicUsage', PublicLimit)
    BY MinusFits, LimitTypes DEF Types, WithinLimits, GiveBack
  <1> QED
    BY <1>2, <1>3, <1>4, <1>5 DEF WithinLimits, Exceeds, PublicLimit

LEMMA StepInv == IndInv /\ [AdmissionNext]_admission => IndInv'
  <1> SUFFICES ASSUME IndInv, [AdmissionNext]_admission
               PROVE  IndInv'
    OBVIOUS
  <1>1. CASE UNCHANGED admission
    BY <1>1 DEF admission, IndInv, Types, WithinLimits, Exceeds, PublicLimit
  <1>2. ASSUME NEW c \in Calls, Admit(c)
        PROVE  IndInv'
    BY <1>2, AdmitStep
  <1>3. ASSUME NEW c \in Calls, GiveBack(c)
        PROVE  IndInv'
    BY <1>3, ReleaseStep
  <1> QED
    BY <1>1, <1>2, <1>3 DEF AdmissionNext, Release

LEMMA InitInv == AdmissionInit => IndInv
  <1> SUFFICES ASSUME AdmissionInit PROVE IndInv
    OBVIOUS
  <1>1. Types
    BY ZeroFits DEF AdmissionInit, Types
  <1>2. \A p \in Principals : ~Exceeds(principalUsage[p], PerPrincipal)
    BY ZeroFits DEF AdmissionInit
  <1> QED
    BY <1>1, <1>2, ZeroFits DEF AdmissionInit, IndInv, WithinLimits

\* At any time usage is within the limit of every principal, within the global
\* limit, and for public traffic within what the reserve leaves
\* (WorkAdmissionController.admit, release).
THEOREM UsageWithinLimits == AdmissionSpec => []WithinLimits
  <1>1. IndInv => WithinLimits
    BY DEF IndInv
  <1> QED
    BY <1>1, InitInv, StepInv, PTL DEF AdmissionSpec

\* First-party work that fits in the unused part of its reserve is never refused
\* for want of global capacity (the reserve of WorkAdmissionController.admit).
THEOREM ReserveAvailable == AdmissionSpec => []ReserveIsAvailable
  <1>1. IndInv => ReserveIsAvailable
    <2> SUFFICES ASSUME IndInv, NEW c \in Calls, NEW d \in Reserved
                 PROVE  (globalUsage[d] - publicUsage[d]) + CostOf[c][d] <= Reserve[d]
                            => globalUsage[d] + CostOf[c][d] <= Global[d]
      BY DEF ReserveIsAvailable
    <2>1. d \in Dimensions /\ Reserve[d] \in Nat /\ Global[d] \in Nat
      BY Limits DEF Cost
    <2>2. CostOf[c][d] \in Nat
      BY <2>1, WorkItems DEF Cost
    <2>3. globalUsage[d] \in Int /\ publicUsage[d] \in Int
      BY <2>1 DEF IndInv, Types, Usage
    <2>4. ~(publicUsage[d] > Global[d] - Reserve[d])
      BY <2>1 DEF IndInv, WithinLimits, Exceeds, PublicLimit
    <2> QED
      BY <2>1, <2>2, <2>3, <2>4
  <1> QED
    BY <1>1, InitInv, StepInv, PTL DEF AdmissionSpec

-----------------------------------------------------------------------------
(* Work admission: the sums.                                               *)

\* The leases that are held are finitely many, and what is used is what they cost.
HeldInv ==
    /\ lease \in [Calls -> {"none", "held", "released"}]
    /\ IsFiniteSet(Held)
    /\ globalUsage \in [Dimensions -> Int] /\ publicUsage \in [Dimensions -> Int]
    /\ principalUsage \in [Principals -> [Dimensions -> Int]]
    /\ UsageIsHeld

\* The costs of finitely many work items add up to a natural number.
LEMMA SumIsCost ==
    ASSUME NEW S, S \subseteq Calls, IsFiniteSet(S), NEW d \in Dimensions
    PROVE  Sum(S, d) \in Nat
<1>1. \A c \in S : [x \in Calls |-> CostOf[x][d]][c] \in Nat
  BY WorkItems DEF Cost
<1> QED
  BY <1>1, SumIsNat DEF Sum

\* One more work item adds its cost.
LEMMA SumAdds ==
    ASSUME NEW S, S \subseteq Calls, IsFiniteSet(S), NEW d \in Dimensions,
           NEW c \in Calls, c \notin S
    PROVE  /\ IsFiniteSet(S \cup {c})
           /\ Sum(S \cup {c}, d) = Sum(S, d) + CostOf[c][d]
<1> DEFINE cost == [x \in Calls |-> CostOf[x][d]]
<1>1. \A x \in S \cup {c} : cost[x] \in Nat
  BY WorkItems DEF Cost
<1>2. cost[c] = CostOf[c][d] /\ CostOf[c][d] \in Nat
  BY WorkItems DEF Cost
<1> HIDE DEF cost
<1>3. IsFiniteSet(S \cup {c}) /\ SumFunctionOnSet(cost, S \cup {c}) = cost[c] + SumFunctionOnSet(cost, S)
  BY <1>1, SumWith
<1>4. SumFunctionOnSet(cost, S) \in Nat
  BY <1>1, SumIsNat
<1>5. Sum(S \cup {c}, d) = SumFunctionOnSet(cost, S \cup {c}) /\ Sum(S, d) = SumFunctionOnSet(cost, S)
  BY DEF Sum, cost
<1> QED
  BY <1>2, <1>3, <1>4, <1>5

\* One work item less takes its cost away.
LEMMA SumDrops ==
    ASSUME NEW S, S \subseteq Calls, IsFiniteSet(S), NEW d \in Dimensions, NEW c \in S
    PROVE  /\ IsFiniteSet(S \ {c})
           /\ Sum(S \ {c}, d) = Sum(S, d) - CostOf[c][d]
<1>1. IsFiniteSet(S \ {c}) /\ S \ {c} \subseteq Calls /\ c \notin S \ {c} /\ c \in Calls
      /\ (S \ {c}) \cup {c} = S
  BY FS_Subset
<1>2. Sum(S, d) = Sum(S \ {c}, d) + CostOf[c][d]
  BY <1>1, SumAdds
<1>3. Sum(S \ {c}, d) \in Nat /\ CostOf[c][d] \in Nat
  BY <1>1, SumIsCost, WorkItems DEF Cost
<1> QED
  BY <1>1, <1>2, <1>3


\* No lease is held at first, and nothing is used.
LEMMA HeldInit == AdmissionInit => HeldInv
<1> SUFFICES ASSUME AdmissionInit PROVE HeldInv
  OBVIOUS
<1>1. Held = {} /\ IsFiniteSet({})
  BY FS_EmptySet DEF AdmissionInit, Held
<1>2. {c \in Held : IsPublic(c)} = {} /\ \A p : {c \in Held : PrincipalOf[c] = p} = {}
  BY <1>1
<1>3. \A d : Sum({}, d) = 0
  BY SumOfNone DEF Sum
<1>4. \A d \in Dimensions : globalUsage[d] = 0 /\ publicUsage[d] = 0
                            /\ \A p \in Principals : principalUsage[p][d] = 0
  BY DEF AdmissionInit, Zero
<1>5. UsageIsHeld
  BY <1>1, <1>2, <1>3, <1>4 DEF UsageIsHeld
<1> QED
  BY <1>1, <1>5 DEF AdmissionInit, HeldInv, Zero

\* Charging a lease to a usage that sums up the leases of a set, or not.
LEMMA Charged ==
    ASSUME NEW S, S \subseteq Calls, IsFiniteSet(S), NEW c \in Calls, c \notin S,
           NEW u \in [Dimensions -> Int], \A d \in Dimensions : u[d] = Sum(S, d)
    PROVE  \A d \in Dimensions : Plus(u, CostOf[c])[d] = Sum(S \cup {c}, d)
<1> SUFFICES ASSUME NEW d \in Dimensions
             PROVE  Plus(u, CostOf[c])[d] = Sum(S \cup {c}, d)
  OBVIOUS
<1>1. Plus(u, CostOf[c])[d] = u[d] + CostOf[c][d]
  BY DEF Plus
<1>2. Sum(S \cup {c}, d) = Sum(S, d) + CostOf[c][d]
  BY SumAdds
<1> QED
  BY <1>1, <1>2

\* Giving back a lease, likewise.
LEMMA Credited ==
    ASSUME NEW S, S \subseteq Calls, IsFiniteSet(S), NEW c \in S,
           NEW u \in [Dimensions -> Int], \A d \in Dimensions : u[d] = Sum(S, d)
    PROVE  \A d \in Dimensions : Minus(u, CostOf[c])[d] = Sum(S \ {c}, d)
<1> SUFFICES ASSUME NEW d \in Dimensions
             PROVE  Minus(u, CostOf[c])[d] = Sum(S \ {c}, d)
  OBVIOUS
<1>1. Minus(u, CostOf[c])[d] = u[d] - CostOf[c][d]
  BY DEF Minus
<1>2. Sum(S \ {c}, d) = Sum(S, d) - CostOf[c][d]
  BY SumDrops
<1> QED
  BY <1>1, <1>2

\* A usage stays one.
LEMMA UsageArithmetic ==
    ASSUME NEW u \in [Dimensions -> Int], NEW c \in Calls
    PROVE  /\ Plus(u, CostOf[c]) \in [Dimensions -> Int]
           /\ Minus(u, CostOf[c]) \in [Dimensions -> Int]
  BY WorkItems DEF Cost, Plus, Minus

\* admit() charges the lease to its principal, to the total and, when it is public,
\* to the public usage, and to nobody else.
LEMMA HeldAdmit ==
    ASSUME HeldInv, NEW c \in Calls, Admit(c)
    PROVE  HeldInv'
<1> USE DEF HeldInv
<1> DEFINE P == PrincipalOf[c]
           Mine(p) == {x \in Held : PrincipalOf[x] = p}
           Public == {x \in Held : IsPublic(x)}
<1>1. P \in Principals
  BY WorkItems
<1>2. /\ principalUsage' = [principalUsage EXCEPT ![P] = Plus(principalUsage[P], CostOf[c])]
      /\ globalUsage' = Plus(globalUsage, CostOf[c])
      /\ publicUsage' = IF IsPublic(c) THEN Plus(publicUsage, CostOf[c]) ELSE publicUsage
      /\ lease' = [lease EXCEPT ![c] = "held"] /\ lease[c] = "none"
  BY DEF Admit
<1>3. /\ lease' \in [Calls -> {"none", "held", "released"}]
      /\ c \notin Held /\ Held \subseteq Calls /\ Held' = Held \cup {c}
  BY <1>2 DEF Held
<1>4. IsFiniteSet(Held) /\ IsFiniteSet(Held')
  BY <1>3, FS_AddElement
<1>5. /\ IsFiniteSet(Public) /\ \A p : IsFiniteSet(Mine(p))
  BY <1>4, FS_Subset
<1>6. /\ globalUsage' \in [Dimensions -> Int] /\ publicUsage' \in [Dimensions -> Int]
      /\ principalUsage' \in [Principals -> [Dimensions -> Int]]
  BY <1>1, <1>2, UsageArithmetic
<1>7. \A d \in Dimensions : globalUsage'[d] = Sum(Held', d)
  <2>1. \A d \in Dimensions : globalUsage[d] = Sum(Held, d)
    BY DEF UsageIsHeld
  <2>2. \A d \in Dimensions : globalUsage'[d] = Sum(Held \cup {c}, d)
    BY <2>1, <1>2, <1>3, <1>4, Charged
  <2> QED
    BY <2>2, <1>3
<1>8. \A d \in Dimensions : publicUsage'[d] = Sum({x \in Held : IsPublic(x)}', d)
  <2>1. CASE IsPublic(c)
    <3>1. {x \in Held : IsPublic(x)}' = Public \cup {c}
      BY <1>3, <2>1 DEF IsPublic
    <3>2. Public \subseteq Calls /\ c \notin Public /\ \A d \in Dimensions : publicUsage[d] = Sum(Public, d)
      BY <1>3 DEF UsageIsHeld
    <3> HIDE DEF Public
    <3>3. \A d \in Dimensions : publicUsage'[d] = Sum(Public \cup {c}, d)
      BY <1>2, <1>5, <2>1, <3>2, Charged
    <3> QED
      BY <3>1, <3>3
  <2>2. CASE ~IsPublic(c)
    <3>1. {x \in Held : IsPublic(x)}' = Public
      BY <1>3, <2>2 DEF IsPublic
    <3> QED
      BY <1>2, <2>2, <3>1 DEF UsageIsHeld
  <2> QED
    BY <2>1, <2>2
<1>9. ASSUME NEW p \in Principals
      PROVE  \A d \in Dimensions : principalUsage'[p][d] = Sum({x \in Held : PrincipalOf[x] = p}', d)
  <2>1. CASE p = P
    <3>1. {x \in Held : PrincipalOf[x] = p}' = Mine(p) \cup {c}
      BY <1>3, <2>1
    <3>2. Mine(p) \subseteq Calls /\ c \notin Mine(p) /\ principalUsage[p] \in [Dimensions -> Int]
          /\ \A d \in Dimensions : principalUsage[p][d] = Sum(Mine(p), d)
      BY <1>3 DEF UsageIsHeld
    <3>3. principalUsage'[p] = Plus(principalUsage[p], CostOf[c])
      BY <1>1, <1>2, <2>1
    <3> HIDE DEF Mine
    <3>4. \A d \in Dimensions : principalUsage'[p][d] = Sum(Mine(p) \cup {c}, d)
      BY <1>5, <3>2, <3>3, Charged
    <3> QED
      BY <3>1, <3>4
  <2>2. CASE p # P
    <3>1. {x \in Held : PrincipalOf[x] = p}' = Mine(p)
      BY <1>3, <2>2
    <3>2. principalUsage'[p] = principalUsage[p]
      BY <1>2, <2>2
    <3> QED
      BY <3>1, <3>2 DEF UsageIsHeld
  <2> QED
    BY <2>1, <2>2
<1>10. UsageIsHeld'
  BY <1>7, <1>8, <1>9 DEF UsageIsHeld
<1> QED
  BY <1>3, <1>4, <1>6, <1>10

\* release() gives back what that lease was charged, once.
LEMMA HeldGiveBack ==
    ASSUME HeldInv, NEW c \in Calls, lease[c] = "held", GiveBack(c)
    PROVE  HeldInv'
<1> USE DEF HeldInv
<1> DEFINE P == PrincipalOf[c]
           Mine(p) == {x \in Held : PrincipalOf[x] = p}
           Public == {x \in Held : IsPublic(x)}
<1>1. P \in Principals
  BY WorkItems
<1>2. /\ principalUsage' = [principalUsage EXCEPT ![P] = Minus(principalUsage[P], CostOf[c])]
      /\ globalUsage' = Minus(globalUsage, CostOf[c])
      /\ publicUsage' = IF IsPublic(c) THEN Minus(publicUsage, CostOf[c]) ELSE publicUsage
      /\ lease' = [lease EXCEPT ![c] = "released"]
  BY DEF GiveBack
<1>3. /\ lease' \in [Calls -> {"none", "held", "released"}]
      /\ c \in Held /\ Held \subseteq Calls /\ Held' = Held \ {c}
  BY <1>2 DEF Held
<1>4. IsFiniteSet(Held) /\ IsFiniteSet(Held')
  BY <1>3, FS_Subset
<1>5. /\ IsFiniteSet(Public) /\ \A p : IsFiniteSet(Mine(p))
  BY <1>4, FS_Subset
<1>6. /\ globalUsage' \in [Dimensions -> Int] /\ publicUsage' \in [Dimensions -> Int]
      /\ principalUsage' \in [Principals -> [Dimensions -> Int]]
  BY <1>1, <1>2, UsageArithmetic
<1>7. \A d \in Dimensions : globalUsage'[d] = Sum(Held', d)
  <2>1. \A d \in Dimensions : globalUsage[d] = Sum(Held, d)
    BY DEF UsageIsHeld
  <2>2. \A d \in Dimensions : globalUsage'[d] = Sum(Held \ {c}, d)
    BY <2>1, <1>2, <1>3, <1>4, Credited
  <2> QED
    BY <2>2, <1>3
<1>8. \A d \in Dimensions : publicUsage'[d] = Sum({x \in Held : IsPublic(x)}', d)
  <2>1. CASE IsPublic(c)
    <3>1. {x \in Held : IsPublic(x)}' = Public \ {c}
      BY <1>3, <2>1 DEF IsPublic
    <3>2. Public \subseteq Calls /\ c \in Public /\ \A d \in Dimensions : publicUsage[d] = Sum(Public, d)
      BY <1>3, <2>1 DEF UsageIsHeld
    <3> HIDE DEF Public
    <3>3. \A d \in Dimensions : publicUsage'[d] = Sum(Public \ {c}, d)
      BY <1>2, <1>5, <2>1, <3>2, Credited
    <3> QED
      BY <3>1, <3>3
  <2>2. CASE ~IsPublic(c)
    <3>1. {x \in Held : IsPublic(x)}' = Public
      BY <1>3, <2>2 DEF IsPublic
    <3> QED
      BY <1>2, <2>2, <3>1 DEF UsageIsHeld
  <2> QED
    BY <2>1, <2>2
<1>9. ASSUME NEW p \in Principals
      PROVE  \A d \in Dimensions : principalUsage'[p][d] = Sum({x \in Held : PrincipalOf[x] = p}', d)
  <2>1. CASE p = P
    <3>1. {x \in Held : PrincipalOf[x] = p}' = Mine(p) \ {c}
      BY <1>3, <2>1
    <3>2. Mine(p) \subseteq Calls /\ c \in Mine(p) /\ principalUsage[p] \in [Dimensions -> Int]
          /\ \A d \in Dimensions : principalUsage[p][d] = Sum(Mine(p), d)
      BY <1>3, <2>1 DEF UsageIsHeld
    <3>3. principalUsage'[p] = Minus(principalUsage[p], CostOf[c])
      BY <1>1, <1>2, <2>1
    <3> HIDE DEF Mine
    <3>4. \A d \in Dimensions : principalUsage'[p][d] = Sum(Mine(p) \ {c}, d)
      BY <1>5, <3>2, <3>3, Credited
    <3> QED
      BY <3>1, <3>4
  <2>2. CASE p # P
    <3>1. {x \in Held : PrincipalOf[x] = p}' = Mine(p)
      BY <1>3, <2>2
    <3>2. principalUsage'[p] = principalUsage[p]
      BY <1>2, <2>2
    <3> QED
      BY <3>1, <3>2 DEF UsageIsHeld
  <2> QED
    BY <2>1, <2>2
<1>10. UsageIsHeld'
  BY <1>7, <1>8, <1>9 DEF UsageIsHeld
<1> QED
  BY <1>3, <1>4, <1>6, <1>10

\* Of WorkAdmission in controls.ts: for any work items, principals, costs and
\* limits, and every order in which they are admitted and released, what is counted
\* as used is the sum of the costs of the leases that are held, of each principal,
\* of the public, and of all together.
THEOREM UsageIsOfLeases == AdmissionSpec => []UsageIsHeld
<1>1. HeldInv /\ [AdmissionNext]_admission => HeldInv'
  <2> SUFFICES ASSUME HeldInv, [AdmissionNext]_admission PROVE HeldInv'
    OBVIOUS
  <2>1. CASE UNCHANGED admission
    BY <2>1 DEF admission, HeldInv, Held, UsageIsHeld, IsPublic
  <2>2. ASSUME NEW c \in Calls, Admit(c) PROVE HeldInv'
    BY <2>2, HeldAdmit
  <2>3. ASSUME NEW c \in Calls, Release(c) PROVE HeldInv'
    BY <2>1, <2>3, HeldGiveBack DEF Release
  <2> QED
    BY <2>1, <2>2, <2>3 DEF AdmissionNext
<1>2. HeldInv => UsageIsHeld
  BY DEF HeldInv
<1> QED
  BY HeldInit, <1>1, <1>2, PTL DEF AdmissionSpec

-----------------------------------------------------------------------------

\* The outcome of a race that is not over, and of one that is.
OutcomeIsTrue ==
    \A c \in Calls :
        /\ phase[c] \in {"idle", "admitted", "running"} => outcome[c] = "none"
        /\ phase[c] = "settled" => outcome[c] # "none"
        /\ outcome[c] = "value" => handler[c] = "value"
        /\ outcome[c] = "failure" => handler[c] = "failure"
        /\ outcome[c] = "deadline" => Elapsed(c)

\* The inductive invariant of a call.
CallInv == TypeOK /\ LeaseWhileInCall /\ OutcomeIsTrue

LEMMA CallInit == Init => CallInv
  BY DEF Init, AdmissionInit, CallInv, TypeOK, LeaseWhileInCall, OutcomeIsTrue,
         InCall, Replies, NoTime

\* A release in a call gives the lease back.
LEMMA ReleaseInCall ==
    ASSUME CallInv, NEW c \in Calls, phase[c] \in InCall, Release(c)
    PROVE  GiveBack(c)
  BY DEF CallInv, LeaseWhileInCall, Release

LEMMA RefuseStep ==
    ASSUME CallInv, NEW c \in Calls, Refuse(c)
    PROVE  CallInv'
  <1>1. PICK code \in Replies \ {"none"} : Answer(c, code)
    BY DEF Refuse, Replies, Refusals
  <1>2. phase[c] = "idle" /\ UNCHANGED admission
    BY DEF Refuse
  <1>3. TypeOK'
    BY <1>1, <1>2 DEF CallInv, TypeOK, Answer, admission
  <1>4. LeaseWhileInCall'
    BY <1>1, <1>2 DEF CallInv, TypeOK, LeaseWhileInCall, InCall, Answer, admission
  <1>5. OutcomeIsTrue'
    BY <1>1, <1>2 DEF CallInv, TypeOK, OutcomeIsTrue, Elapsed, Answer
  <1> QED
    BY <1>3, <1>4, <1>5 DEF CallInv

LEMMA EnterStep ==
    ASSUME CallInv, NEW c \in Calls, Enter(c)
    PROVE  CallInv'
  <1>1. TypeOK'
    BY DEF CallInv, TypeOK, Enter, Admit, InCall
  <1>2. LeaseWhileInCall'
    BY DEF CallInv, TypeOK, LeaseWhileInCall, InCall, Enter, Admit
  <1>3. OutcomeIsTrue'
    BY DEF CallInv, TypeOK, OutcomeIsTrue, Elapsed, Enter
  <1> QED
    BY <1>1, <1>2, <1>3 DEF CallInv

\* A call that is answered while it holds a lease.
LEMMA AnswerStep ==
    ASSUME CallInv, NEW c \in Calls, phase[c] \in InCall,
           NEW code \in Replies \ {"none"}, Answer(c, code), Release(c),
           phase[c] = "settled" \/ outcome[c] = "none"
    PROVE  CallInv'
  <1>1. lease' = [lease EXCEPT ![c] = "released"]
    BY ReleaseInCall DEF GiveBack
  <1>2. TypeOK'
    BY <1>1 DEF CallInv, TypeOK, Answer
  <1>3. LeaseWhileInCall'
    BY <1>1 DEF CallInv, TypeOK, LeaseWhileInCall, InCall, Answer
  <1>4. OutcomeIsTrue'
    BY DEF CallInv, TypeOK, OutcomeIsTrue, Elapsed, Answer
  <1> QED
    BY <1>2, <1>3, <1>4 DEF CallInv

LEMMA InvokeStep ==
    ASSUME CallInv, NEW c \in Calls, phase[c] = "admitted", Invoke(c)
    PROVE  CallInv'
  <1>1. TimerOf(c) \in Nat \cup {NoTime}
    <2>1. DeadlineOf[c] \in Nat \cup {NoTime} /\ now \in Nat /\ MaxDelay \in Nat
      BY DeadlinesAndTime DEF CallInv, TypeOK
    <2> QED
      BY <2>1 DEF TimerOf, Delay, NoTime
  <1>2. TypeOK'
    BY <1>1 DEF CallInv, TypeOK, Invoke, admission, InCall
  <1>3. LeaseWhileInCall'
    BY DEF CallInv, TypeOK, LeaseWhileInCall, InCall, Invoke, admission
  <1>4. OutcomeIsTrue'
    BY DEF CallInv, TypeOK, OutcomeIsTrue, Elapsed, Invoke
  <1> QED
    BY <1>2, <1>3, <1>4 DEF CallInv

LEMMA StartStep ==
    ASSUME CallInv, NEW c \in Calls, Start(c)
    PROVE  CallInv'
  <1>1. CASE GiveUp(c)
    <2>1. phase[c] = "admitted" /\ outcome[c] = "none"
      BY DEF Start, CallInv, OutcomeIsTrue
    <2>2. PICK code \in Replies \ {"none"} : Answer(c, code)
      BY <1>1 DEF GiveUp, Replies
    <2> QED
      BY <1>1, <2>1, <2>2, AnswerStep DEF GiveUp, InCall
  <1>2. CASE Invoke(c)
    BY <1>2, InvokeStep DEF Start
  <1> QED
    BY <1>1, <1>2 DEF Start

LEMMA ResumeStep ==
    ASSUME CallInv, NEW c \in Calls, Resume(c)
    PROVE  CallInv'
  <1>1. outcome[c] \in {"value", "failure", "cancelled", "deadline"}
    BY DEF Resume, CallInv, TypeOK, OutcomeIsTrue
  <1>2. aborted[c] \in BOOLEAN /\ Elapsed(c) \in BOOLEAN
    BY DEF CallInv, TypeOK, Elapsed
  <1>3. ReplyOf(c) \in Replies \ {"none"}
    BY <1>1, <1>2 DEF ReplyOf, Replies
  <1> QED
    BY <1>3, AnswerStep DEF Resume, InCall

LEMMA AbortStep ==
    ASSUME CallInv, NEW c \in Calls, ClientAborts(c) \/ TimerFires(c)
    PROVE  CallInv'
  <1>1. Settle(c, Reason(c)) /\ UNCHANGED <<admission, handler, reply, now>>
    BY DEF ClientAborts, TimerFires
  <1>2. Reason(c) \in {"deadline", "cancelled"} /\ (Reason(c) = "deadline" => Elapsed(c))
    BY DEF Reason
  <1>3. TypeOK'
    <2>1. aborted' \in [Calls -> BOOLEAN] /\ timer' = timer
      BY DEF ClientAborts, TimerFires, CallInv, TypeOK
    <2> QED
      BY <1>1, <1>2, <2>1 DEF CallInv, TypeOK, Settle, admission, InCall
  <1>4. LeaseWhileInCall'
    BY <1>1 DEF CallInv, TypeOK, LeaseWhileInCall, InCall, Settle, admission
  <1>5. OutcomeIsTrue'
    BY <1>1, <1>2 DEF CallInv, TypeOK, OutcomeIsTrue, Elapsed, Settle
  <1> QED
    BY <1>3, <1>4, <1>5 DEF CallInv

LEMMA HandlerStep ==
    ASSUME CallInv, NEW c \in Calls, HandlerEnds(c)
    PROVE  CallInv'
  <1>1. PICK result \in {"value", "failure"} :
            handler' = [handler EXCEPT ![c] = result] /\ Settle(c, result)
    BY DEF HandlerEnds
  <1>2. UNCHANGED <<admission, aborted, timer, reply, now>> /\ handler[c] = "running"
    BY DEF HandlerEnds
  <1>3. TypeOK'
    BY <1>1, <1>2 DEF CallInv, TypeOK, Settle, admission, InCall
  <1>4. LeaseWhileInCall'
    BY <1>1, <1>2 DEF CallInv, TypeOK, LeaseWhileInCall, InCall, Settle, admission
  <1>5. OutcomeIsTrue'
    BY <1>1, <1>2 DEF CallInv, TypeOK, OutcomeIsTrue, Elapsed, Settle
  <1> QED
    BY <1>3, <1>4, <1>5 DEF CallInv

LEMMA TickStep ==
    ASSUME CallInv, Tick
    PROVE  CallInv'
  <1>1. now' \in Nat /\ now' >= now /\ UNCHANGED <<admission, call>>
    BY DEF CallInv, TypeOK, Tick
  <1>2. \A c \in Calls : DeadlineOf[c] \in Int /\ (Elapsed(c) => Elapsed(c)')
    BY <1>1, DeadlinesAndTime DEF CallInv, TypeOK, Elapsed, NoTime
  <1> QED
    BY <1>1, <1>2 DEF CallInv, TypeOK, LeaseWhileInCall, OutcomeIsTrue, admission, call

LEMMA CallStep == CallInv /\ [Next]_vars => CallInv'
  <1> SUFFICES ASSUME CallInv, [Next]_vars
               PROVE  CallInv'
    OBVIOUS
  <1>1. CASE UNCHANGED vars
    BY <1>1 DEF CallInv, TypeOK, LeaseWhileInCall, OutcomeIsTrue, Elapsed,
                vars, call, admission
  <1>2. CASE Tick
    BY <1>2, TickStep
  <1>3. CASE \E c \in Calls :
                \/ Refuse(c) \/ Enter(c) \/ Start(c)
                \/ ClientAborts(c) \/ TimerFires(c) \/ HandlerEnds(c) \/ Resume(c)
    BY <1>3, RefuseStep, EnterStep, StartStep, AbortStep, HandlerStep, ResumeStep
  <1> QED
    BY <1>1, <1>2, <1>3 DEF Next

LEMMA CallInvariant == Spec => []CallInv
  BY CallInit, CallStep, PTL DEF Spec

\* Every variable has its type, and a call is done exactly if it has a reply.
THEOREM CallTypes == Spec => []TypeOK
  <1>1. CallInv => TypeOK
    BY DEF CallInv
  <1> QED
    BY <1>1, CallInvariant, PTL

\* On every path through call() the lease that was obtained is given back when the
\* call is answered, not before and not later.
THEOREM LeaseHeldInCall == Spec => []LeaseWhileInCall
  <1>1. CallInv => LeaseWhileInCall
    BY DEF CallInv
  <1> QED
    BY <1>1, CallInvariant, PTL

-----------------------------------------------------------------------------
(* The admission of work, as the router uses it. *)

\* Every step of the router is one of the admission controller's or leaves it
\* alone, so what is proved of the controller holds of the router.
LEMMA RouterImplementsAdmission == Spec => AdmissionSpec
  <1>1. Init => AdmissionInit
    BY DEF Init
  <1>2. [Next]_vars => [AdmissionNext]_admission
    BY DEF Next, Refuse, Enter, Start, GiveUp, Invoke, ClientAborts, TimerFires,
           HandlerEnds, Resume, Tick, AdmissionNext, vars
  <1> QED
    BY <1>1, <1>2, PTL DEF Spec, AdmissionSpec

\* Hence the calls that hold a lease never exceed a limit.
THEOREM CallsWithinLimits == Spec => []WithinLimits
  BY RouterImplementsAdmission, UsageWithinLimits, PTL

-----------------------------------------------------------------------------
(* Replies. *)

\* A call that was cancelled or whose deadline has elapsed is never answered with
\* a result (the checks of call() after #invoke).
THEOREM NoSuccessTooLate == Spec => NoLateSuccess
  <1>1. CallInv /\ [Next]_vars =>
            [\A c \in Calls :
                reply[c] = "none" /\ reply'[c] = "ok" => ~aborted[c] /\ ~Elapsed(c)]_vars
    <2> SUFFICES ASSUME CallInv, Next, NEW c \in Calls, reply[c] = "none", reply'[c] = "ok"
                 PROVE  ~aborted[c] /\ ~Elapsed(c)
      OBVIOUS
    <2>1. PICK d \in Calls : Refuse(d) \/ (Start(d) /\ GiveUp(d)) \/ Resume(d)
      BY DEF Next, Enter, Start, Invoke, ClientAborts, TimerFires, HandlerEnds, Tick, call
    <2>2. PICK code \in Replies : Answer(d, code) /\ (code = "ok" => Resume(d))
      <3>1. CASE Resume(d)
        <4>1. outcome[d] \in {"value", "failure", "cancelled", "deadline"}
          BY <3>1 DEF Resume, CallInv, TypeOK, OutcomeIsTrue
        <4>2. aborted[d] \in BOOLEAN /\ Elapsed(d) \in BOOLEAN
          BY DEF CallInv, TypeOK, Elapsed
        <4>3. ReplyOf(d) \in Replies
          BY <4>1, <4>2 DEF ReplyOf, Replies
        <4> QED
          BY <3>1, <4>3 DEF Resume
      <3>2. CASE ~Resume(d)
        BY <2>1, <3>2 DEF Refuse, GiveUp, Replies, Refusals
      <3> QED
        BY <3>1, <3>2
    <2>3. d = c /\ code = "ok"
      BY <2>2 DEF Answer, CallInv, TypeOK
    <2>4. phase[c] = "settled" /\ Answer(c, ReplyOf(c))
      BY <2>2, <2>3 DEF Resume
    <2>5. ReplyOf(c) = "ok"
      BY <2>4 DEF Answer, CallInv, TypeOK
    <2>6. outcome[c] \in {"value", "failure", "cancelled", "deadline"}
      BY <2>4 DEF CallInv, TypeOK, OutcomeIsTrue
    <2>7. aborted[c] \in BOOLEAN /\ Elapsed(c) \in BOOLEAN
      BY DEF CallInv, TypeOK, Elapsed
    <2> QED
      BY <2>5, <2>6, <2>7 DEF ReplyOf
  <1> QED
    BY <1>1, CallInvariant, PTL DEF Spec, NoLateSuccess

\* Every deadline is within what setTimeout accepts as a delay.
DelaysFit == \A c \in Calls : DeadlineOf[c] <= MaxDelay

\* Why a reply is true: a timer is set for the deadline and not before it, and the
\* race is settled as cancelled by the client alone.
ReplyInv ==
    /\ ReplyIsTrue
    /\ \A c \in Calls :
          /\ timer[c] # NoTime => DeadlineOf[c] # NoTime /\ timer[c] >= DeadlineOf[c]
          /\ outcome[c] = "cancelled" => aborted[c]

\* The part of ReplyInv about one call: its fields, all of them.
ReplyOK(c) ==
    /\ reply[c] = "REQUEST_CANCELLED" => aborted[c]
    /\ reply[c] = "DEADLINE_EXCEEDED" => Elapsed(c)
    /\ reply[c] = "HANDLER_FAILED" => handler[c] = "failure"
    /\ reply[c] = "ok" => handler[c] = "value"
    /\ timer[c] # NoTime => DeadlineOf[c] # NoTime /\ timer[c] >= DeadlineOf[c]
    /\ outcome[c] = "cancelled" => aborted[c]

LEMMA ReplyParts == ReplyInv <=> \A c \in Calls : ReplyOK(c)
  BY DEF ReplyInv, ReplyIsTrue, CancelledByClient, ReplyOK

\* Other calls, and a call whose reply, timer, outcome and handler remain.
LEMMA ReplyKept ==
    ASSUME CallInv, CallInv', NEW c \in Calls, ReplyOK(c),
           reply'[c] = reply[c], timer'[c] = timer[c],
           outcome'[c] = outcome[c] \/ outcome'[c] # "cancelled",
           handler'[c] = handler[c] \/ handler[c] = "running",
           aborted[c] => aborted'[c], now' >= now
    PROVE  ReplyOK(c)'
  <1>1. Elapsed(c) => Elapsed(c)'
    BY DeadlinesAndTime DEF Elapsed, CallInv, TypeOK, NoTime
  <1> QED
    BY <1>1 DEF ReplyOK

LEMMA ReplyStep ==
    ASSUME DelaysFit, CallInv, CallInv', [Next]_vars, NEW c \in Calls, ReplyOK(c)
    PROVE  ReplyOK(c)'
  <1>1. now \in Nat /\ now' \in Nat
    BY DEF CallInv, TypeOK
  <1>2. CASE UNCHANGED vars
    BY <1>1, <1>2, ReplyKept DEF vars, call
  <1>3. CASE Tick
    BY <1>1, <1>3, ReplyKept DEF Tick, call
  <1>4. ASSUME NEW d \in Calls, Refuse(d)
        PROVE  ReplyOK(c)'
    <2>1. CASE d = c
      BY <1>4, <2>1 DEF Refuse, Answer, Refusals, ReplyOK, Elapsed, CallInv, TypeOK
    <2>2. CASE d # c
      BY <1>1, <1>4, <2>2, ReplyKept DEF Refuse, Answer, CallInv, TypeOK
    <2> QED
      BY <2>1, <2>2
  <1>5. ASSUME NEW d \in Calls, Enter(d)
        PROVE  ReplyOK(c)'
    BY <1>1, <1>5, ReplyKept DEF Enter
  <1>6. ASSUME NEW d \in Calls, Start(d), GiveUp(d)
        PROVE  ReplyOK(c)'
    <2>1. CASE d = c
      BY <1>6, <2>1 DEF GiveUp, Answer, ReplyOK, Elapsed, CallInv, TypeOK
    <2>2. CASE d # c
      BY <1>1, <1>6, <2>2, ReplyKept DEF GiveUp, Answer, CallInv, TypeOK
    <2> QED
      BY <2>1, <2>2
  <1>7. ASSUME NEW d \in Calls, Start(d), Invoke(d)
        PROVE  ReplyOK(c)'
    <2>1. CASE d = c
      <3>1. timer'[c] = TimerOf(c)
        BY <1>7, <2>1 DEF Invoke, CallInv, TypeOK
      <3>2. TimerOf(c) # NoTime => DeadlineOf[c] # NoTime /\ TimerOf(c) >= DeadlineOf[c]
        BY <1>1, <1>7, <2>1, DeadlinesAndTime
           DEF TimerOf, Delay, DelaysFit, Invoke, Elapsed, NoTime
      <3>3. reply[c] = "none"
        BY <1>7, <2>1 DEF Start, CallInv, TypeOK, Replies
      <3> QED
        BY <1>7, <3>1, <3>2, <3>3 DEF Invoke, ReplyOK
    <2>2. CASE d # c
      BY <1>1, <1>7, <2>2, ReplyKept DEF Invoke, CallInv, TypeOK
    <2> QED
      BY <2>1, <2>2
  <1>8. ASSUME NEW d \in Calls, ClientAborts(d)
        PROVE  ReplyOK(c)'
    <2>1. CASE d = c
      BY <1>8, <2>1 DEF ClientAborts, ReplyOK, Elapsed, CallInv, TypeOK
    <2>2. CASE d # c
      BY <1>1, <1>8, <2>2, ReplyKept DEF ClientAborts, Settle, CallInv, TypeOK
    <2> QED
      BY <2>1, <2>2
  <1>9. ASSUME NEW d \in Calls, TimerFires(d)
        PROVE  ReplyOK(c)'
    <2>1. CASE d = c
      <3>1. DeadlineOf[c] # NoTime /\ timer[c] >= DeadlineOf[c] /\ now >= timer[c]
        BY <1>9, <2>1 DEF TimerFires, ReplyOK
      <3>2. DeadlineOf[c] \in Int /\ timer[c] \in Int
        BY DeadlinesAndTime DEF CallInv, TypeOK, NoTime
      <3>3. Reason(d) = "deadline"
        BY <1>1, <2>1, <3>1, <3>2 DEF Reason, Elapsed
      <3>4. outcome'[c] = "deadline"
        BY <1>9, <2>1, <3>3 DEF TimerFires, Settle, CallInv, TypeOK
      <3> QED
        BY <1>1, <1>9, <3>4, ReplyKept DEF TimerFires
    <2>2. CASE d # c
      BY <1>1, <1>9, <2>2, ReplyKept DEF TimerFires, Settle, CallInv, TypeOK
    <2> QED
      BY <2>1, <2>2
  <1>10. ASSUME NEW d \in Calls, HandlerEnds(d)
         PROVE  ReplyOK(c)'
    <2>1. PICK result \in {"value", "failure"} :
              handler' = [handler EXCEPT ![d] = result] /\ Settle(d, result)
      BY <1>10 DEF HandlerEnds
    <2>2. handler'[c] = handler[c] \/ handler[c] = "running"
      BY <1>10, <2>1 DEF HandlerEnds, CallInv, TypeOK
    <2>3. outcome'[c] = outcome[c] \/ outcome'[c] # "cancelled"
      BY <2>1 DEF Settle, CallInv, TypeOK
    <2> QED
      BY <1>1, <1>10, <2>2, <2>3, ReplyKept DEF HandlerEnds
  <1>11. ASSUME NEW d \in Calls, Resume(d)
         PROVE  ReplyOK(c)'
    <2>1. CASE d = c
      <3>1. outcome[c] \in {"value", "failure", "cancelled", "deadline"}
        BY <1>11, <2>1 DEF Resume, CallInv, TypeOK, OutcomeIsTrue
      <3>2. aborted[c] \in BOOLEAN /\ Elapsed(c) \in BOOLEAN
        BY DEF CallInv, TypeOK, Elapsed
      <3>3. reply'[c] = ReplyOf(c)
        BY <1>11, <2>1 DEF Resume, Answer, CallInv, TypeOK
      <3>4. /\ ReplyOf(c) = "REQUEST_CANCELLED" => aborted[c]
            /\ ReplyOf(c) = "DEADLINE_EXCEEDED" => Elapsed(c)
            /\ ReplyOf(c) = "HANDLER_FAILED" => handler[c] = "failure"
            /\ ReplyOf(c) = "ok" => handler[c] = "value"
        BY <3>1, <3>2 DEF ReplyOf, ReplyOK, CallInv, OutcomeIsTrue
      <3>5. UNCHANGED <<handler, aborted, timer, outcome, now>>
        BY <1>11 DEF Resume, Answer
      <3> QED
        BY <3>3, <3>4, <3>5 DEF ReplyOK, Elapsed
    <2>2. CASE d # c
      BY <1>1, <1>11, <2>2, ReplyKept DEF Resume, Answer, CallInv, TypeOK
    <2> QED
      BY <2>1, <2>2
  <1> QED
    BY <1>2, <1>3, <1>4, <1>5, <1>6, <1>7, <1>8, <1>9, <1>10, <1>11 DEF Next, Start

\* If every deadline fits, a reply is true: in particular a client is never told
\* that it cancelled when it did not (call and #invoke).
THEOREM RepliesTrue ==
    ASSUME DelaysFit
    PROVE  Spec => []ReplyIsTrue
  <1>1. Init => ReplyInv
    BY DEF Init, ReplyInv, ReplyIsTrue, CancelledByClient, NoTime
  <1>2. CallInv /\ CallInv' /\ ReplyInv /\ [Next]_vars => ReplyInv'
    <2> SUFFICES ASSUME CallInv, CallInv', \A c \in Calls : ReplyOK(c), [Next]_vars
                 PROVE  \A c \in Calls : ReplyOK(c)'
      BY ReplyParts DEF ReplyInv, ReplyIsTrue, CancelledByClient, ReplyOK
    <2> QED
      BY ReplyStep
  <1>3. ReplyInv => ReplyIsTrue
    BY DEF ReplyInv
  <1> QED
    BY <1>1, <1>2, <1>3, CallInvariant, PTL DEF Spec
=============================================================================
