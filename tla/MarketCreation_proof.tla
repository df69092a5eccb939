-------------------------- MODULE MarketCreation_proof --------------------------
(***************************************************************************)
(* Proofs about MarketCreation, for every set of providers of which those  *)
(* that are not honest are of one administration, every deployment, every  *)
(* set of calls and of ports, and every world of states.                   *)
(***************************************************************************)
EXTENDS MarketCreation, SequenceTheorems, TLAPS

(* The chain.                                                              *)

IsSeq(s) == \E S : s \in Seq(S)

\* What is appended to a sequence comes after all that it holds.
LEMMA AppendShape ==
    ASSUME NEW s, IsSeq(s), NEW e
    PROVE  /\ IsSeq(Append(s, e))
           /\ DOMAIN s = 1 .. Len(s) /\ Len(s) \in Nat
           /\ DOMAIN Append(s, e) = 1 .. Len(s) + 1
           /\ \A i \in DOMAIN s : Append(s, e)[i] = s[i]
           /\ Append(s, e)[Len(s) + 1] = e
  <1>1. PICK S : s \in Seq(S)
    BY DEF IsSeq
  <1>2. s \in Seq(S \cup {e})
    BY <1>1, SeqMonotonic
  <1>3. Append(s, e) \in Seq(S \cup {e})
    BY <1>2
  <1> QED
    BY <1>2, <1>3 DEF IsSeq

Done(n) == blocks[branch[n]].done

\* What was executed before goes on, and what is new is of a higher block.
Continues(done, parent, n) ==
    /\ \A i \in DOMAIN parent : i \in DOMAIN done /\ done[i] = parent[i]
    /\ \A i \in DOMAIN done : done[i].number <= n => i \in DOMAIN parent

IsEntry(d) ==
    /\ d.number \in Nat /\ d.tx \in DOMAIN sent
    /\ d.status \in {"success", "revert"} /\ d.events \in {0, 1}
    /\ d.status = "revert" => d.events = 0

BlockInv(b) ==
    /\ b.number \in Nat \ {0} /\ IsState(b.state)
    /\ IsSeq(b.done) /\ \A i \in DOMAIN b.done : IsEntry(b.done[i])

\* Along the canonical blocks nothing that was executed is lost.
ChainInv ==
    /\ IsSeq(blocks) /\ IsSeq(sent)
    /\ \A s \in world.states : IsState(s)
    /\ branch \in Seq(DOMAIN blocks) /\ final \in 1 .. Len(branch)
    /\ \A b \in DOMAIN blocks : BlockInv(blocks[b])
    /\ \A n \in 1 .. Len(branch) : blocks[branch[n]].number = n
    /\ \A n, m \in 1 .. Len(branch) : n <= m => Continues(Done(m), Done(n), n)

\* Blocks and transactions stay what they are, and what is final goes on.
Steady ==
    /\ \A b \in DOMAIN blocks : b \in DOMAIN blocks' /\ blocks'[b] = blocks[b]
    /\ \A t \in DOMAIN sent : t \in DOMAIN sent' /\ sent'[t] = sent[t]
    /\ \A i \in DOMAIN Done(final) :
            i \in DOMAIN Done(final)' /\ Done(final)'[i] = Done(final)[i]

\* The canonical blocks are blocks.
LEMMA BranchShape ==
    ASSUME ChainInv
    PROVE  /\ Len(branch) \in Nat /\ DOMAIN branch = 1 .. Len(branch)
           /\ \A n \in 1 .. Len(branch) : branch[n] \in DOMAIN blocks
           /\ Len(blocks) \in Nat /\ DOMAIN blocks = 1 .. Len(blocks)
  <1>1. branch \in Seq(DOMAIN blocks)
    BY DEF ChainInv
  <1>2. PICK S : blocks \in Seq(S)
    BY DEF ChainInv, IsSeq
  <1> QED
    BY <1>1, <1>2, LenProperties, ElementOfSeq

\* A block that goes on from its parent keeps the history of the chain.
LEMMA GrowStep ==
    ASSUME ChainInv, NEW n \in DOMAIN branch, NEW state, IsState(state),
           NEW done, IsSeq(done), Continues(done, Done(n), n),
           \A i \in DOMAIN done : IsEntry(done[i]),
           Grow(n, state, done)
    PROVE  ChainInv' /\ Steady
  <1> DEFINE k == Len(blocks) + 1
             block == [number |-> n + 1, parent |-> branch[n], state |-> state, done |-> done]
  <1>0. /\ \A i, m \in 1 .. Len(branch) : i <= m => Continues(Done(m), Done(i), i)
        /\ \A i \in 1 .. Len(branch) : blocks[branch[i]].number = i
    BY DEF ChainInv
  <1>1. /\ Len(blocks) \in Nat /\ DOMAIN blocks = 1 .. Len(blocks)
        /\ Len(branch) \in Nat /\ DOMAIN branch = 1 .. Len(branch)
        /\ \A i \in 1 .. Len(branch) : branch[i] \in DOMAIN blocks
    BY BranchShape
  <1>2. /\ IsSeq(blocks') /\ DOMAIN blocks' = 1 .. k /\ blocks'[k] = block
        /\ \A b \in DOMAIN blocks : b \in DOMAIN blocks' /\ blocks'[b] = blocks[b]
    <2>1. blocks' = Append(blocks, block) /\ IsSeq(blocks)
      BY DEF Grow, ChainInv
    <2> QED
      BY <1>1, <2>1, AppendShape
  <1>3. /\ final \in 1 .. n /\ n \in 1 .. Len(branch) /\ n \in Nat
        /\ final' = final /\ sent' = sent /\ world' = world
    BY <1>1 DEF ChainInv, Grow
  <1>4. block.number = n + 1 /\ block.done = done /\ block.state = state
    OBVIOUS
  <1> HIDE DEF block
  <1>5. /\ branch' \in Seq(DOMAIN blocks')
        /\ DOMAIN branch' = 1 .. n + 1 /\ Len(branch') = n + 1 /\ branch'[n + 1] = k
        /\ \A i \in 1 .. n : branch'[i] = branch[i]
    <2>1. branch' = Append(SubSeq(branch, 1, n), k)
      BY DEF Grow
    <2>2. branch \in Seq(DOMAIN blocks')
      BY <1>2, SeqMonotonic DEF ChainInv
    <2>3. /\ SubSeq(branch, 1, n) \in Seq(DOMAIN blocks') /\ Len(SubSeq(branch, 1, n)) = n
          /\ \A i \in 1 .. n : SubSeq(branch, 1, n)[i] = branch[i]
      BY <1>1, <1>3, <2>2
    <2>4. k \in DOMAIN blocks'
      BY <1>1, <1>2
    <2> HIDE DEF k
    <2> QED
      BY <1>3, <2>1, <2>3, <2>4, AppendProperties
  <1>6. \A i \in 1 .. n : Done(i)' = Done(i)
    BY <1>1, <1>2, <1>3, <1>5 DEF Done
  <1>7. Done(n + 1)' = done
    BY <1>2, <1>4, <1>5 DEF Done
  <1>8. ASSUME NEW i \in 1 .. n + 1, NEW m \in 1 .. n + 1, i <= m
        PROVE  Continues(Done(m)', Done(i)', i)
    <2>1. CASE m <= n
      <3>1. Continues(Done(m), Done(i), i)
        BY <1>1, <1>3, <1>8, <1>0, <2>1
      <3>2. Done(m)' = Done(m) /\ Done(i)' = Done(i)
        BY <1>3, <1>6, <1>8, <2>1
      <3> QED
        BY <3>1, <3>2
    <2>2. CASE m = n + 1 /\ i <= n
      <3>1. Continues(Done(n), Done(i), i)
        BY <1>1, <1>3, <1>8, <1>0, <2>2
      <3>2. Done(m)' = done /\ Done(i)' = Done(i)
        BY <1>3, <1>6, <1>7, <1>8, <2>2
      <3>3. ASSUME NEW j \in DOMAIN done, done[j].number <= i
            PROVE  j \in DOMAIN Done(n)
        <4>1. done[j].number \in Nat
          BY DEF IsEntry
        <4>2. done[j].number <= n
          BY <1>3, <2>2, <3>3, <4>1
        <4> QED
          BY <4>2 DEF Continues
      <3>4. Continues(done, Done(i), i)
        BY <3>1, <3>3 DEF Continues
      <3> QED
        BY <3>2, <3>4
    <2>3. CASE m = n + 1 /\ i = n + 1
      BY <1>7, <2>3 DEF Continues
    <2> QED
      BY <1>3, <2>1, <2>2, <2>3
  <1>9. \A b \in DOMAIN blocks' : BlockInv(blocks[b])'
    <2>1. \A b \in DOMAIN blocks' : BlockInv(blocks'[b])
      <3>1. BlockInv(block)
        BY <1>3, <1>4 DEF BlockInv
      <3>2. \A b \in DOMAIN blocks' : b = k \/ b \in DOMAIN blocks
        BY <1>1, <1>2
      <3> QED
        BY <1>2, <3>1, <3>2 DEF ChainInv
    <2>2. ASSUME NEW b, BlockInv(b) PROVE BlockInv(b)'
      BY <1>3, <2>2 DEF BlockInv, IsEntry
    <2> QED
      BY <2>1, <2>2
  <1>10. ASSUME NEW i \in 1 .. n + 1 PROVE blocks'[branch'[i]].number = i
    <2>1. CASE i = n + 1
      BY <1>2, <1>4, <1>5, <2>1
    <2>2. CASE i \in 1 .. n
      <3>1. branch'[i] = branch[i] /\ i \in 1 .. Len(branch)
        BY <1>1, <1>3, <1>5, <2>2
      <3>2. blocks'[branch[i]] = blocks[branch[i]]
        BY <1>1, <1>2, <3>1
      <3> QED
        BY <1>0, <3>1, <3>2
    <2> QED
      BY <1>3, <2>1, <2>2
  <1>11. ChainInv'
    <2>1. final' \in 1 .. Len(branch')
      BY <1>3, <1>5
    <2>2. \A i, m \in 1 .. Len(branch') : i <= m => Continues(Done(m)', Done(i)', i)
      BY <1>5, <1>8
    <2>3. IsSeq(sent') /\ \A s \in world'.states : IsState(s)
      BY <1>3 DEF ChainInv
    <2>4. \A i \in 1 .. Len(branch') : blocks'[branch'[i]].number = i
      BY <1>5, <1>10
    <2> QED
      BY <1>2, <1>5, <1>9, <2>1, <2>2, <2>3, <2>4 DEF ChainInv
  <1>12. Done(final)' = Done(final)
    BY <1>3, <1>6
  <1> QED
    BY <1>2, <1>3, <1>11, <1>12 DEF Steady

\* A transaction is executed after all that was.
LEMMA ExecutesGrows ==
    ASSUME ChainInv, NEW n \in DOMAIN branch, NEW t \in DOMAIN sent,
           NEW state, IsState(state), NEW status \in {"success", "revert"}, NEW events \in {0, 1},
           status = "revert" => events = 0,
           Grow(n, state, Append(Done(n),
                [tx |-> t, number |-> n + 1, status |-> status, events |-> events]))
    PROVE  ChainInv' /\ Steady
  <1> DEFINE e == [tx |-> t, number |-> n + 1, status |-> status, events |-> events]
             done == Append(Done(n), e)
  <1>1. n \in Nat /\ branch[n] \in DOMAIN blocks
    BY BranchShape
  <1>2. IsEntry(e) /\ ~(e.number <= n)
    BY <1>1 DEF IsEntry
  <1>3. IsSeq(Done(n)) /\ \A i \in DOMAIN Done(n) : IsEntry(Done(n)[i])
    BY <1>1 DEF ChainInv, BlockInv, Done
  <1> HIDE DEF e
  <1>4. /\ IsSeq(done) /\ DOMAIN done = DOMAIN Done(n) \cup {Len(Done(n)) + 1}
        /\ \A i \in DOMAIN Done(n) : done[i] = Done(n)[i]
        /\ done[Len(Done(n)) + 1] = e
    BY <1>3, AppendShape
  <1> HIDE DEF done
  <1>5. Continues(done, Done(n), n)
    BY <1>2, <1>4 DEF Continues
  <1>6. \A i \in DOMAIN done : IsEntry(done[i])
    BY <1>2, <1>3, <1>4
  <1>7. Grow(n, state, done)
    BY DEF e, done
  <1> QED
    BY <1>4, <1>5, <1>6, <1>7, GrowStep

\* A state that is changed in one respect is a state.
LEMMA StateChanged ==
    ASSUME NEW s, IsState(s), NEW v
    PROVE  /\ IsState([s EXCEPT !.pool = v]) /\ IsState([s EXCEPT !.wrapper = v])
  BY DEF IsState

\* Whatever the chain does, its history goes on.
LEMMA ChainStep ==
    ASSUME ChainInv, ChainNext
    PROVE  ChainInv' /\ Steady
  <1>1. CASE BecomeFinal
    <2>1. UNCHANGED <<world, blocks, branch, sent>> /\ final' = final + 1
          /\ final \in 1 .. Len(branch) /\ final' \in 1 .. Len(branch)
      BY <1>1, BranchShape DEF BecomeFinal, ChainInv
    <2>2. ChainInv'
      BY <2>1 DEF ChainInv, BlockInv, IsEntry, Done
    <2>3. Continues(Done(final'), Done(final), final)
      BY <2>1 DEF ChainInv
    <2>4. Done(final)' = Done(final')
      BY <2>1 DEF Done
    <2> QED
      BY <2>1, <2>2, <2>3, <2>4 DEF Steady, Continues
  <1>2. ASSUME NEW n \in DOMAIN branch PROVE BlockInv(blocks[branch[n]])
    BY <1>2, BranchShape DEF ChainInv
  <1>3. ASSUME NEW n \in DOMAIN branch, Others(n) PROVE ChainInv' /\ Steady
    <2>1. PICK s \in world.states :
            Grow(n, [s EXCEPT !.pool = @ \/ blocks[branch[n]].state.pool], Done(n))
      BY <1>3 DEF Others, Done
    <2>2. IsState([s EXCEPT !.pool = @ \/ blocks[branch[n]].state.pool])
      BY StateChanged DEF ChainInv
    <2>3. IsSeq(Done(n)) /\ \A i \in DOMAIN Done(n) : IsEntry(Done(n)[i])
      BY <1>2 DEF BlockInv, Done
    <2> QED
      BY <2>1, <2>2, <2>3, GrowStep DEF Continues
  <1>4. ASSUME NEW n \in DOMAIN branch, NEW t \in DOMAIN sent, Executes(n, t)
        PROVE  ChainInv' /\ Steady
    <2> DEFINE s == blocks[branch[n]].state
               entry(status, events) ==
                    [tx |-> t, number |-> n + 1, status |-> status, events |-> events]
    <2>1. IsState(s) /\ IsState(Registering(s)) /\ IsState([s EXCEPT !.pool = TRUE])
      BY <1>2, StateChanged DEF BlockInv, Registering
    <2>2. \/ Grow(n, s, Append(Done(n), entry("revert", 0)))
          \/ Grow(n, Registering(s),
                Append(Done(n), entry("success", IF s.wrapper = "zero" THEN 1 ELSE 0)))
          \/ Grow(n, [s EXCEPT !.pool = TRUE], Append(Done(n), entry("success", 1)))
      BY <1>4 DEF Executes, Done
    <2>3. (IF s.wrapper = "zero" THEN 1 ELSE 0) \in {0, 1}
      OBVIOUS
    <2> HIDE DEF s
    <2>4. CASE Grow(n, s, Append(Done(n), entry("revert", 0)))
      BY <2>1, <2>4, ExecutesGrows
    <2>5. CASE Grow(n, Registering(s),
                Append(Done(n), entry("success", IF s.wrapper = "zero" THEN 1 ELSE 0)))
      BY <2>1, <2>3, <2>5, ExecutesGrows
    <2>6. CASE Grow(n, [s EXCEPT !.pool = TRUE], Append(Done(n), entry("success", 1)))
      BY <2>1, <2>6, ExecutesGrows
    <2> QED
      BY <2>2, <2>4, <2>5, <2>6
  <1> QED
    BY <1>1, <1>3, <1>4 DEF ChainNext

\* What is sent comes after all that was.
LEMMA SendingStep ==
    ASSUME ChainInv, NEW transaction, Sending(transaction)
    PROVE  ChainInv' /\ Steady
  <1>1. IsSeq(sent') /\ \A t \in DOMAIN sent : t \in DOMAIN sent' /\ sent'[t] = sent[t]
    <2>1. IsSeq(sent) /\ sent' = Append(sent, transaction)
      BY DEF Sending, ChainInv
    <2> QED
      BY <2>1, AppendShape
  <1>2. UNCHANGED <<world, blocks, branch, final>>
    BY DEF Sending
  <1>3. ASSUME NEW b, BlockInv(b) PROVE BlockInv(b)'
    BY <1>1, <1>3 DEF BlockInv, IsEntry
  <1>4. \A b \in DOMAIN blocks' : BlockInv(blocks[b])'
    BY <1>2, <1>3 DEF ChainInv
  <1> QED
    BY <1>1, <1>2, <1>4 DEF ChainInv, Steady, Done

\* Where the chain stands still its history does.
LEMMA ChainKept ==
    ASSUME ChainInv, UNCHANGED chainVars
    PROVE  ChainInv' /\ Steady
  BY DEF chainVars, ChainInv, BlockInv, IsEntry, Steady, Done

\* Nothing but the chain and the client that sends changes the chain.
LEMMA ChainAlways == ChainInv /\ [Next]_vars => ChainInv' /\ Steady
  <1> SUFFICES ASSUME ChainInv, [Next]_vars PROVE ChainInv' /\ Steady
    OBVIOUS
  <1>1. CASE Chain
    BY <1>1, ChainStep DEF Chain
  <1>2. ASSUME NEW i, Deploy(i) PROVE ChainInv' /\ Steady
    BY <1>2, SendingStep DEF Deploy
  <1>3. ASSUME (\E d \in Deployments : PrepareMarketDeployment(QuoteMarketDeployment(d)))
               \/ ReconcileMarketDeployment \/ FactsConflict
        PROVE  UNCHANGED chainVars
    BY <1>3 DEF PrepareMarketDeployment, ReconcileMarketDeployment, FactsConflict
  <1>4. CASE Deployment
    BY <1>2, <1>3, <1>4, ChainKept DEF Deployment, DeploymentNext
  <1>5. CASE Package
    BY <1>5, ChainKept DEF Package, PackageNext
  <1>6. CASE UNCHANGED vars
    BY <1>6, ChainKept DEF vars
  <1> QED
    BY <1>1, <1>4, <1>5, <1>6 DEF Next

\* The chain begins with one block, upon which nothing was executed.
LEMMA ChainInitially == Init => ChainInv
  <1> SUFFICES ASSUME Init PROVE ChainInv
    OBVIOUS
  <1>1. PICK s \in Starts : ChainInit(s.world)
    BY DEF Init
  <1>2. /\ world = s.world /\ \A state \in world.states : IsState(state)
        /\ branch = <<1>> /\ final = 1 /\ sent = <<>>
    BY <1>1, StartsAreStates DEF ChainInit
  <1>3. PICK state \in world.states :
            blocks = <<[number |-> 1, parent |-> 0, state |-> state, done |-> <<>>]>>
    BY <1>1, <1>2 DEF ChainInit
  <1> DEFINE b == [number |-> 1, parent |-> 0, state |-> state, done |-> <<>>]
  <1>4. b.number = 1 /\ b.state = state /\ b.done = <<>>
    OBVIOUS
  <1>5. blocks = <<b>>
    BY <1>3
  <1> HIDE DEF b
  <1>6. IsSeq(<<b>>) /\ DOMAIN <<b>> = {1} /\ <<b>>[1] = b
    <2>1. <<b>> \in Seq({b}) /\ <<b>>[1] = b
      OBVIOUS
    <2>2. DOMAIN <<b>> = 1 .. 1 /\ 1 .. 1 = {1}
      OBVIOUS
    <2> QED
      BY <2>1, <2>2 DEF IsSeq
  <1>7. IsSeq(<<>>) /\ DOMAIN <<>> = {}
    BY DEF IsSeq
  <1>8. <<1>> \in Seq({1}) /\ Len(<<1>>) = 1 /\ <<1>>[1] = 1 /\ 1 .. 1 = {1}
    OBVIOUS
  <1>9. BlockInv(b)
    BY <1>2, <1>4, <1>7 DEF BlockInv
  <1>10. \A n \in 1 .. Len(branch) : n = 1
    BY <1>2, <1>8
  <1>11. Done(1) = <<>>
    BY <1>2, <1>4, <1>5, <1>6, <1>8 DEF Done
  <1>12. \A n, m \in 1 .. Len(branch) : Continues(Done(m), Done(n), n)
    BY <1>7, <1>10, <1>11 DEF Continues
  <1>13. final \in 1 .. Len(branch)
    BY <1>2, <1>8
  <1>14. \A n \in 1 .. Len(branch) : blocks[branch[n]].number = n
    BY <1>2, <1>4, <1>5, <1>6, <1>8, <1>10
  <1> QED
    BY <1>2, <1>5, <1>6, <1>7, <1>8, <1>9, <1>12, <1>13, <1>14 DEF ChainInv

-----------------------------------------------------------------------------
(* Facts.                                                                  *)

IsFact(facts) ==
    /\ facts.block \in DOMAIN blocks
    /\ facts.lookup = Truth("lookupWrapper", facts.block)
    /\ facts.relations = Truth("relations", facts.block)
    /\ facts.relations # "broken"

FactsInv ==
    /\ prepared # None => IsFact(prepared.facts)
    /\ verdict # None /\ verdict.facts # None => IsFact(verdict.facts)

\* Of two providers that agree one is honest, for the others are of one
\* administration: what they agree on is so.
LEMMA AgreementIsTrue ==
    ASSUME NEW f, NEW a \in Agreements(f)
    PROVE  a.block \in DOMAIN blocks /\ a.value = Truth(f, a.block)
  <1>1. PICK q \in Observations(f) \X Observations(f) :
            QuorumCode(q[1], q[2]) = "authoritative" /\ a = Binding(q[1], q[2])
    BY DEF Agreements
  <1> DEFINE left == q[1]  right == q[2]
  <1>2. left \in Observations(f) /\ right \in Observations(f)
    BY <1>1
  <1>3. /\ Administration[left.provider] # Administration[right.provider]
        /\ left.block = right.block /\ left.value = right.value
    BY <1>1 DEF QuorumCode, Independent, SameBinding
  <1>4. a.block = left.block /\ a.value = left.value
    BY <1>1 DEF Binding
  <1> HIDE DEF left, right
  <1>5. ASSUME NEW o \in Observations(f)
        PROVE  /\ o.block \in DOMAIN blocks
               /\ \/ o.value = Truth(f, o.block)
                  \/ o.provider \in DOMAIN Administration \ {"honest"}
    BY DEF Observations, Observed
  <1> QED
    BY <1>2, <1>3, <1>4, <1>5, DishonestAreOne

\* Facts that are resolved are of one block.
LEMMA ResolvedIsFact ==
    ASSUME NEW facts \in ResolvedFacts
    PROVE  IsFact(facts)
  <1>1. PICK a \in Agreements("lookupWrapper") \X Agreements("relations") :
            FactCode(a[1], a[2]) = "resolved" /\ facts = Resolved(a[1], a[2])
    BY DEF ResolvedFacts
  <1>2. a[1] \in Agreements("lookupWrapper") /\ a[2] \in Agreements("relations")
    BY <1>1
  <1>3. a[1].block = a[2].block /\ a[2].value # "broken"
    BY <1>1 DEF FactCode, OneBlock, Related
  <1>4. /\ a[1].block \in DOMAIN blocks /\ a[1].value = Truth("lookupWrapper", a[1].block)
        /\ a[2].value = Truth("relations", a[2].block)
    BY <1>2, AgreementIsTrue
  <1>5. facts.block = a[1].block /\ facts.lookup = a[1].value /\ facts.relations = a[2].value
    BY <1>1 DEF Resolved
  <1> QED
    BY <1>3, <1>4, <1>5 DEF IsFact

\* What was true of a block stays so.
LEMMA FactsKept ==
    ASSUME Steady, NEW facts, IsFact(facts)
    PROVE  IsFact(facts)'
  BY DEF Steady, IsFact, Truth

\* Nothing is prepared or reconciled but upon facts that are resolved.
LEMMA FactsStep == ChainInv /\ FactsInv /\ [Next]_vars => FactsInv'
  <1> SUFFICES ASSUME ChainInv, FactsInv, [Next]_vars PROVE FactsInv'
    OBVIOUS
  <1>1. ASSUME NEW facts, IsFact(facts) PROVE IsFact(facts)'
    BY <1>1, ChainAlways, FactsKept
  <1>2. CASE UNCHANGED <<prepared, verdict>>
    BY <1>1, <1>2 DEF FactsInv
  <1>3. ASSUME NEW quote, PrepareMarketDeployment(quote) PROVE FactsInv'
    <2>1. PICK facts \in ResolvedFacts :
            prepared' = [outcome |-> Outcome(facts), facts |-> facts]
      BY <1>3 DEF PrepareMarketDeployment
    <2>2. prepared'.facts = facts
      BY <2>1
    <2>3. IsFact(facts)'
      BY <1>1, ResolvedIsFact
    <2>4. verdict' = verdict
      BY <1>3 DEF PrepareMarketDeployment
    <2>5. verdict' # None /\ verdict'.facts # None => IsFact(verdict.facts)'
      BY <1>1, <2>4 DEF FactsInv
    <2> QED
      BY <2>2, <2>3, <2>4, <2>5 DEF FactsInv
  <1>4. CASE ReconcileMarketDeployment
    <2>1. PICK facts \in ResolvedFacts, handed \in HandedOver :
            verdict' = Verdict(DeploymentStatus(handed, facts), handed, facts)
      BY <1>4 DEF ReconcileMarketDeployment
    <2>2. verdict'.facts \in {None, facts}
      BY <2>1 DEF Verdict
    <2>3. IsFact(facts)'
      BY <1>1, ResolvedIsFact
    <2>4. prepared' = prepared
      BY <1>4 DEF ReconcileMarketDeployment
    <2>5. prepared' # None => IsFact(prepared.facts)'
      BY <1>1, <2>4 DEF FactsInv
    <2> QED
      BY <2>2, <2>3, <2>4, <2>5 DEF FactsInv
  <1>5. CASE FactsConflict
    <2>1. verdict'.facts = None /\ prepared' = prepared
      BY <1>5 DEF FactsConflict, Verdict
    <2>2. prepared' # None => IsFact(prepared.facts)'
      BY <1>1, <2>1 DEF FactsInv
    <2> QED
      BY <2>1, <2>2 DEF FactsInv
  <1>6. ASSUME NEW i, Deploy(i) PROVE UNCHANGED <<prepared, verdict>>
    BY <1>6 DEF Deploy, deploymentVars
  <1>7. CASE Deployment
    BY <1>2, <1>3, <1>4, <1>5, <1>6, <1>7 DEF Deployment, DeploymentNext
  <1>8. CASE Chain \/ Package \/ UNCHANGED vars
    BY <1>2, <1>8 DEF Chain, Package, vars, deploymentVars
  <1> QED
    BY <1>7, <1>8 DEF Next

\* Whatever the providers of one administration say, and whichever blocks are
\* replaced while facts are read, what is prepared or reconciled rests on what was
\* true of the one block that is named (resolveMarketDeploymentFacts, over the
\* quorum of establishPureQuorum).
THEOREM FactsAreOfOneBlock == Spec => []FactsHoldAtOneBlock
  <1>1. Init => FactsInv
    BY DEF Init, DeploymentInit, FactsInv
  <1>2. FactsInv => FactsHoldAtOneBlock
    BY DEF FactsInv, IsFact, FactsHoldAtOneBlock
  <1>3. QED
    BY <1>1, <1>2, ChainInitially, ChainAlways, FactsStep, PTL DEF Spec

-----------------------------------------------------------------------------
(* What is said of the client's transactions.                              *)

\* What was executed for good stays so.
LEMMA ExecutedKept ==
    ASSUME ChainInv, Steady, NEW kind, NEW tx, NEW events, Executed(kind, tx, events)
    PROVE  Executed(kind, tx, events)'
  <1>1. PICK i \in DOMAIN Done(final) :
            /\ Done(final)[i].tx = tx /\ sent[tx] = kind
            /\ Done(final)[i].status = "success" /\ Done(final)[i].events = events
    BY DEF Executed, Done
  <1>2. final \in 1 .. Len(branch)
    BY DEF ChainInv
  <1>3. IsEntry(Done(final)[i])
    BY <1>2, BranchShape DEF ChainInv, BlockInv, Done
  <1>4. sent'[tx] = kind
    BY <1>1, <1>3 DEF IsEntry, Steady
  <1>5. i \in DOMAIN Done(final)' /\ Done(final)'[i] = Done(final)[i]
    BY DEF Steady
  <1> QED
    BY <1>1, <1>4, <1>5 DEF Executed, Done

\* A receipt that is final is of what was executed for good.
LEMMA FinalReceipt ==
    ASSUME ChainInv, NEW kind, NEW r \in ReceiptsOf(kind)
    PROVE  /\ r.events \in {0, 1}
           /\ r.events = 1 => r.status = "success"
           /\ r.final /\ r.status = "success" => Executed(kind, r.tx, r.events)
  <1>1. PICK p \in (DOMAIN branch) \X (1 .. MaxSent) \X Senders :
            /\ p[2] \in DOMAIN Done(p[1])
            /\ r = Receipt(Done(p[1])[p[2]], branch[p[1]], p[3])
            /\ sent[Done(p[1])[p[2]].tx] = kind
    BY DEF ReceiptsOf, Done
  <1> DEFINE n == p[1]  k == p[2]  d == Done(n)[k]
  <1>2. /\ r.tx = d.tx /\ r.status = d.status /\ r.events = d.events
        /\ r.final = (blocks[branch[n]].number <= final)
    BY <1>1 DEF Receipt
  <1>3. n \in 1 .. Len(branch) /\ branch[n] \in DOMAIN blocks
    BY BranchShape
  <1>4. IsEntry(d) /\ blocks[branch[n]].number = n
    BY <1>1, <1>3 DEF ChainInv, BlockInv, Done
  <1>5. ASSUME n <= final PROVE k \in DOMAIN Done(final) /\ Done(final)[k] = d
    <2>1. Continues(Done(final), Done(n), n)
      BY <1>3, <1>5 DEF ChainInv
    <2> QED
      BY <1>1, <2>1 DEF Continues
  <1>6. d.tx = r.tx /\ sent[d.tx] = kind
    BY <1>1, <1>2
  <1>7. r.final => n <= final
    BY <1>2, <1>4
  <1> HIDE DEF d, n, k
  <1>8. r.final /\ r.status = "success" => Executed(kind, r.tx, r.events)
    BY <1>2, <1>5, <1>6, <1>7 DEF Executed, Done
  <1> QED
    BY <1>2, <1>4, <1>8 DEF IsEntry

\* What is handed over are receipts of the registry's transaction and of the pool's.
LEMMA HandedShape ==
    ASSUME NEW handed \in HandedOver
    PROVE  /\ handed[1] # None => handed[1] \in ReceiptsOf("registry")
           /\ handed[2] # None => handed[2] \in ReceiptsOf("pool")
  BY DEF HandedOver, NoReceipts

Reconciled(status, handed) ==
    LET registry == handed[1]  pool == handed[2] IN
    /\ status \in {"fresh-two-step-success", "repeat-registry-no-event", "registry-only-partial"} =>
        registry # None /\ registry.final /\ registry.status = "success"
    /\ status = "fresh-two-step-success" => registry.events # 0
    /\ status = "repeat-registry-no-event" => registry.events = 0
    /\ status \in {"fresh-two-step-success", "repeat-registry-no-event"} =>
        pool # None /\ pool.final /\ pool.events = 1

\* What the code asks of the receipts for each status.
LEMMA StatusMeans ==
    ASSUME NEW handed, NEW facts
    PROVE  Reconciled(DeploymentStatus(handed, facts), handed)
  <1>1. Reconciled("conflict", handed) /\ Reconciled("pool-evidence-mismatch", handed)
        /\ Reconciled("verified-existing-wrapper", handed)
    BY DEF Reconciled
  <1>2. ASSUME CanonicalReceipts(handed) PROVE Reconciled(FreshStatus(handed[1], handed[2]), handed)
    BY <1>2 DEF FreshStatus, Settled, CanonicalReceipts, Reconciled
  <1> QED
    BY <1>1, <1>2 DEF DeploymentStatus

\* A verdict is upon receipts that are final.
LEMMA ReconcileStep ==
    ASSUME ChainInv, ReconcileMarketDeployment
    PROVE  DeploymentVerdictIsTrue'
  <1>1. PICK facts \in ResolvedFacts, handed \in HandedOver :
            verdict' = Verdict(DeploymentStatus(handed, facts), handed, facts)
    BY DEF ReconcileMarketDeployment
  <1> DEFINE status == DeploymentStatus(handed, facts)
  <1>2. UNCHANGED <<blocks, branch, final, sent, deployment>>
    BY DEF ReconcileMarketDeployment, chainVars
  <1>3. verdict'.status = status
    BY <1>1 DEF Verdict
  <1>4. CASE status \in {"conflict", "pool-evidence-mismatch"}
    BY <1>3, <1>4 DEF DeploymentVerdictIsTrue, DeploymentProven
  <1>5. CASE status \notin {"conflict", "pool-evidence-mismatch"}
    <2>1. verdict'.receipts = Named(handed) /\ verdict'.facts = facts
      BY <1>1, <1>5 DEF Verdict
    <2>2. /\ handed[1] # None => Named(handed)[1] = handed[1].tx
          /\ handed[2] # None => Named(handed)[2] = handed[2].tx
      BY DEF Named
    <2>3. facts.lookup = deployment.build.wrapper
      BY <1>5 DEF DeploymentStatus, FinalFactsAccepted
    <2>4. Reconciled(status, handed)
      BY StatusMeans
    <2>5. handed[1] # None =>
            /\ handed[1].events \in {0, 1}
            /\ handed[1].final /\ handed[1].status = "success" =>
                    Executed("registry", handed[1].tx, handed[1].events)
      BY HandedShape, FinalReceipt
    <2>6. handed[2] # None =>
            /\ handed[2].events = 1 => handed[2].status = "success"
            /\ handed[2].final /\ handed[2].status = "success" =>
                    Executed("pool", handed[2].tx, handed[2].events)
      BY HandedShape, FinalReceipt
    <2>7. \A kind, tx, events : Executed(kind, tx, events)' = Executed(kind, tx, events)
      BY <1>2 DEF Executed
    <2> HIDE DEF status
    <2>8. status = "fresh-two-step-success" =>
            Executed("registry", handed[1].tx, 1) /\ Executed("pool", handed[2].tx, 1)
      BY <2>4, <2>5, <2>6 DEF Reconciled
    <2>9. status = "repeat-registry-no-event" =>
            Executed("registry", handed[1].tx, 0) /\ Executed("pool", handed[2].tx, 1)
      BY <2>4, <2>5, <2>6 DEF Reconciled
    <2>10. status = "registry-only-partial" =>
            \E events \in {0, 1} : Executed("registry", handed[1].tx, events)
      BY <2>4, <2>5 DEF Reconciled
    <2>11. /\ status \in {"fresh-two-step-success", "repeat-registry-no-event",
                          "registry-only-partial"} =>
                verdict'.receipts[1] = handed[1].tx
           /\ status \in {"fresh-two-step-success", "repeat-registry-no-event"} =>
                verdict'.receipts[2] = handed[2].tx
      BY <2>1, <2>2, <2>4 DEF Reconciled
    <2>12. verdict'.facts.lookup = deployment'.build.wrapper
      BY <1>2, <2>1, <2>3
    <2> QED
      BY <1>3, <2>7, <2>8, <2>9, <2>10, <2>11, <2>12 DEF DeploymentVerdictIsTrue
  <1> QED
    BY <1>4, <1>5

\* What is final stays what it is, and so does what was said of it.
LEMMA VerdictKept ==
    ASSUME ChainInv, Steady, DeploymentVerdictIsTrue, UNCHANGED <<verdict, deployment>>
    PROVE  DeploymentVerdictIsTrue'
  <1>1. \A kind, tx, events : Executed(kind, tx, events) => Executed(kind, tx, events)'
    BY ExecutedKept
  <1> QED
    BY <1>1 DEF DeploymentVerdictIsTrue, DeploymentProven

\* Only a reconciliation gives a verdict, of receipts that are final.
LEMMA VerdictStep == ChainInv /\ DeploymentVerdictIsTrue /\ [Next]_vars => DeploymentVerdictIsTrue'
  <1> SUFFICES ASSUME ChainInv, DeploymentVerdictIsTrue, [Next]_vars PROVE DeploymentVerdictIsTrue'
    OBVIOUS
  <1>1. CASE UNCHANGED <<verdict, deployment>>
    BY <1>1, ChainAlways, VerdictKept
  <1>2. CASE FactsConflict
    <2>1. verdict'.status = "conflict"
      BY <1>2 DEF FactsConflict, Verdict
    <2> QED
      BY <2>1 DEF DeploymentVerdictIsTrue, DeploymentProven
  <1>3. ASSUME (\E d \in Deployments : PrepareMarketDeployment(QuoteMarketDeployment(d)))
               \/ (\E i \in 1 .. 2 : Deploy(i))
        PROVE  UNCHANGED <<verdict, deployment>>
    BY <1>3 DEF PrepareMarketDeployment, Deploy, deploymentVars
  <1>4. CASE Deployment
    BY <1>1, <1>2, <1>3, <1>4, ReconcileStep DEF Deployment, DeploymentNext
  <1>5. CASE Chain \/ Package \/ UNCHANGED vars
    BY <1>1, <1>5 DEF Chain, Package, vars, deploymentVars
  <1> QED
    BY <1>4, <1>5 DEF Next

\* However blocks are replaced and whoever deploys the wrapper first, what a
\* reconciliation says of the client's transactions is so for good
\* (reconcileMarketDeployment, which goes by receipts that are final).
THEOREM DeploymentVerdictsAreTrue == Spec => []DeploymentVerdictIsTrue
  <1>1. Init => DeploymentVerdictIsTrue
    BY DEF Init, DeploymentInit, DeploymentVerdictIsTrue
  <1>2. QED
    BY <1>1, ChainInitially, ChainAlways, VerdictStep, PTL DEF Spec

-----------------------------------------------------------------------------
(* The package of a Safe.                                                  *)

Files == {"schedule", "execute", "manifest"}

Packages ==
    [of : Previews \cup {"former"}, files : SUBSET Files, proof : {"not-run", "passed"}]

Proofs == {"check", "before", "schedule", "scheduled", "execute", "executed", "verify"}

Staging == {"fork", "manifest", "move", "publish", "restore"} \cup Proofs

Over == {"remove", "done", "failed", "crashed"}

PackageTypes ==
    /\ asked \subseteq Previews
    /\ step \in [Previews -> {"idle"} \cup Staging \cup Over]
    /\ stage \in [Previews -> Packages \cup {NoPackage}]
    /\ backup \in [Previews -> Packages \cup {NoPackage}]
    /\ output \in Packages \cup {NoPackage} /\ latest \in Packages \cup {NoPackage}

\* A call stages a package of its own, which is whole when it is published.
StageInv(c) ==
    /\ step[c] = "idle" => stage[c] = NoPackage
    /\ stage[c] # NoPackage => stage[c].of = c
    /\ step[c] \in Staging => stage[c] # NoPackage /\ {"schedule", "execute"} \subseteq stage[c].files
    /\ step[c] \in {"move", "publish"} => Whole(stage[c])

\* The package of a call is where others see it.
Published(c) ==
    output.of = c \/ latest.of = c \/ \E d \in Previews : backup[d].of = c

\* What a call moved away is whole until it removes it, and is not what was
\* published last by then: each call publishes once.
BackupInv(c) ==
    /\ step[c] \notin {"publish", "restore"} \cup Over => backup[c] = NoPackage
    /\ step[c] \in {"publish", "restore"} /\ backup[c] # NoPackage => Whole(backup[c])
    /\ step[c] \in {"restore", "remove"} => backup[c] # NoPackage
    /\ step[c] = "remove" => backup[c] # latest
    /\ Published(c) => step[c] \in Over

StagingInv == PackageTypes /\ \A c \in Previews : StageInv(c)

SurvivalInv == (\A c \in Previews : BackupInv(c)) /\ PackageSurvives

\* Where there is no package there is none of a call.
LEMMA NoneIsOfNobody ==
    NoPackage \notin Packages /\ NoPackage.of \notin Previews
  BY PackageConstants DEF NoPackage, Packages

\* A package that is proven, or some of whose files are written or removed, is a
\* package of the same call.
LEMMA PackageChanged ==
    ASSUME NEW p \in Packages, NEW files \in SUBSET Files
    PROVE  /\ [p EXCEPT !.proof = "passed"] \in Packages
           /\ [p EXCEPT !.proof = "passed"].of = p.of
           /\ [p EXCEPT !.proof = "passed"].files = p.files
           /\ [p EXCEPT !.files = files] \in Packages
           /\ [p EXCEPT !.files = files].of = p.of
           /\ [p EXCEPT !.files = files].files = files
           /\ [p EXCEPT !.files = files].proof = p.proof
  BY DEF Packages

\* A step of a call that leaves what is published where it is.
Stages(c, s, package) ==
    /\ step' = [step EXCEPT ![c] = s]
    /\ stage' = [stage EXCEPT ![c] = package]
    /\ asked' = asked

\* The stage of a call is its own.
LEMMA StagesStep ==
    ASSUME StagingInv, NEW c \in asked, NEW s \in {"idle"} \cup Staging \cup Over,
           NEW package \in Packages \cup {NoPackage}, Stages(c, s, package),
           s # "idle",
           package # NoPackage => package.of = c,
           s \in Staging => package # NoPackage /\ {"schedule", "execute"} \subseteq package.files,
           s \in {"move", "publish"} => Whole(package),
           backup' \in [Previews -> Packages \cup {NoPackage}],
           output' \in Packages \cup {NoPackage}, latest' \in Packages \cup {NoPackage}
    PROVE  StagingInv'
  <1>1. c \in Previews
    BY DEF StagingInv, PackageTypes
  <1>2. PackageTypes'
    BY DEF Stages, StagingInv, PackageTypes
  <1>3. step'[c] = s /\ stage'[c] = package
    BY <1>1 DEF Stages, StagingInv, PackageTypes
  <1>4. StageInv(c)'
    BY <1>3 DEF StageInv, Whole, NoPackage
  <1>5. ASSUME NEW d \in Previews, d # c PROVE StageInv(d)'
    <2>1. step'[d] = step[d] /\ stage'[d] = stage[d]
      BY <1>5 DEF Stages, StagingInv, PackageTypes
    <2> QED
      BY <2>1 DEF StagingInv, StageInv, Whole, NoPackage
  <1> QED
    BY <1>2, <1>4, <1>5 DEF StagingInv

\* A step that leaves all stages as they are.
LEMMA StagesSame ==
    ASSUME StagingInv, NEW c \in asked, NEW s, Goto(c, s), UNCHANGED <<asked, stage>>
    PROVE  /\ Stages(c, s, stage[c]) /\ stage[c] \in Packages \cup {NoPackage}
           /\ step'[c] = s /\ StageInv(c)
  BY DEF Goto, Stages, StagingInv, PackageTypes

\* The proof changes no stage before it is passed.
LEMMA ProvingStages ==
    ASSUME StagingInv, NEW c \in asked, Prove(c)
    PROVE  StagingInv'
  <1>1. /\ backup' \in [Previews -> Packages \cup {NoPackage}]
        /\ output' \in Packages \cup {NoPackage} /\ latest' \in Packages \cup {NoPackage}
    <2>1. UNCHANGED <<backup, output, latest>>
      BY DEF Prove, SpawnFork, AssertPinnedForkBlock, AssertNonce, ScheduleBatch, ExecuteBatch,
             Verify, Proving
    <2> QED
      BY <2>1 DEF StagingInv, PackageTypes
  <1>2. ASSUME NEW s \in Proofs, Goto(c, s), UNCHANGED <<asked, stage>>, step[c] \in Staging
        PROVE  StagingInv'
    <2>1. Stages(c, s, stage[c]) /\ stage[c] \in Packages \cup {NoPackage} /\ StageInv(c)
      BY <1>2, StagesSame
    <2>2. s # "idle" /\ s \notin {"move", "publish"} /\ s \in Staging
      BY DEF Proofs, Staging
    <2> QED
      BY <1>1, <1>2, <2>1, <2>2, StagesStep DEF StageInv
  <1>3. CASE SpawnFork(c)
    BY <1>2, <1>3 DEF SpawnFork, Staging, Proofs
  <1>4. ASSUME NEW from \in Proofs, NEW to \in Proofs, Proving(c, from, to) PROVE StagingInv'
    BY <1>2, <1>4 DEF Proving, Staging
  <1>5. CASE Verify(c)
    <2>1. c \in Previews /\ StageInv(c) /\ stage[c] \in Packages
      BY <1>5 DEF StagingInv, PackageTypes, StageInv, Verify, Staging, Proofs
    <2> DEFINE package == [stage[c] EXCEPT !.proof = "passed"]
    <2>2. Stages(c, "manifest", package)
      BY <1>5 DEF Verify, Goto, Stages
    <2>3. package \in Packages /\ package.of = stage[c].of /\ package.files = stage[c].files
      BY <2>1, PackageChanged
    <2> HIDE DEF package
    <2>4. stage[c].of = c /\ {"schedule", "execute"} \subseteq stage[c].files
      BY <1>5, <2>1, NoneIsOfNobody DEF StageInv, Verify, Staging, Proofs
    <2>5. package # NoPackage
      BY <2>3, NoneIsOfNobody
    <2> QED
      BY <1>1, <2>2, <2>3, <2>4, <2>5, StagesStep DEF Staging
  <1> QED
    BY <1>3, <1>4, <1>5 DEF Prove, AssertPinnedForkBlock, AssertNonce, ScheduleBatch,
        ExecuteBatch, Proofs

\* What is published, moved and moved back are packages.
LEMMA PublishingStages ==
    ASSUME StagingInv, NEW c \in asked,
           \/ StageManifest(c) \/ MoveOutput(c) \/ Publish(c) \/ PublishFails(c)
           \/ Restore(c) \/ RestoreFails(c) \/ RemoveBackup(c) \/ PreviewFails(c),
           step[c] = "remove" => backup[c] # NoPackage
    PROVE  StagingInv'
  <1>1. c \in Previews /\ StageInv(c) /\ PackageTypes
    BY DEF StagingInv, PackageTypes
  <1>2. backup' = backup => backup' \in [Previews -> Packages \cup {NoPackage}]
    BY <1>1 DEF PackageTypes
  <1>3. output' = output => output' \in Packages \cup {NoPackage}
    BY <1>1 DEF PackageTypes
  <1>4. latest' = latest => latest' \in Packages \cup {NoPackage}
    BY <1>1 DEF PackageTypes
  <1>5. backup[c] \in Packages \cup {NoPackage} /\ stage[c] \in Packages \cup {NoPackage}
    BY <1>1 DEF PackageTypes
  <1>6. CASE StageManifest(c)
    <2>1. stage[c] \in Packages /\ stage[c].of = c /\ {"schedule", "execute"} \subseteq stage[c].files
      BY <1>1, <1>5, <1>6, NoneIsOfNobody DEF StageInv, StageManifest, Staging
    <2> DEFINE files == stage[c].files \cup {"manifest"}
               package == [stage[c] EXCEPT !.files = files]
    <2>2. Stages(c, "move", package)
      BY <1>6 DEF StageManifest, Goto, Stages
    <2>3. files = Files
      BY <2>1 DEF Packages, Files
    <2>4. package \in Packages /\ package.of = c /\ package.files = Files
      BY <2>1, <2>3, PackageChanged
    <2> HIDE DEF package, files
    <2>5. package # NoPackage
      BY <2>4, NoneIsOfNobody
    <2>6. backup' = backup /\ output' = output /\ latest' = latest
      BY <1>6 DEF StageManifest
    <2>7. Whole(package) /\ {"schedule", "execute"} \subseteq package.files
      BY <2>4, <2>5 DEF Whole, Files
    <2> QED
      BY <1>2, <1>3, <1>4, <2>2, <2>4, <2>5, <2>6, <2>7, StagesStep DEF Staging
  <1>7. CASE MoveOutput(c)
    <2>1. Stages(c, "publish", stage[c])
      BY <1>7, StagesSame DEF MoveOutput
    <2>2. Whole(stage[c])
      BY <1>1, <1>7 DEF StageInv, MoveOutput
    <2>3. backup' \in [Previews -> Packages \cup {NoPackage}]
      BY <1>1, <1>7 DEF MoveOutput, PackageTypes
    <2>4. output' \in Packages \cup {NoPackage} /\ latest' = latest
      BY <1>7 DEF MoveOutput
    <2> QED
      BY <1>1, <1>4, <1>5, <2>1, <2>2, <2>3, <2>4, StagesStep DEF Staging, StageInv, Whole
  <1>8. ASSUME NEW s \in {"failed", "done", "remove"}, Goto(c, s), asked' = asked,
               stage' = [stage EXCEPT ![c] = NoPackage] \/ stage' = stage,
               backup' \in [Previews -> Packages \cup {NoPackage}],
               output' \in Packages \cup {NoPackage}, latest' \in Packages \cup {NoPackage}
        PROVE  StagingInv'
    <2>1. \/ Stages(c, s, NoPackage)
          \/ Stages(c, s, stage[c])
      BY <1>8, StagesSame DEF Goto, Stages
    <2>2. s \notin Staging /\ s # "idle" /\ s \in Over
      BY DEF Staging, Proofs, Over
    <2>3. stage[c] # NoPackage => stage[c].of = c
      BY <1>1 DEF StageInv
    <2>4. s \notin {"move", "publish"}
      OBVIOUS
    <2> QED
      BY <1>5, <1>8, <2>1, <2>2, <2>3, <2>4, StagesStep
  <1>9. CASE Publish(c)
    <2>1. output' \in Packages \cup {NoPackage} /\ latest' \in Packages \cup {NoPackage}
      BY <1>5, <1>9 DEF Publish
    <2> QED
      BY <1>2, <1>8, <1>9, <2>1 DEF Publish
  <1>10. CASE PublishFails(c)
    <2>1. CASE backup[c] = NoPackage
      BY <1>2, <1>3, <1>4, <1>8, <1>10, <2>1 DEF PublishFails
    <2>2. CASE backup[c] # NoPackage
      <3>1. Stages(c, "restore", stage[c]) /\ backup' = backup /\ output' = output /\ latest' = latest
        BY <1>10, <2>2, StagesSame DEF PublishFails
      <3>2. stage[c] # NoPackage /\ {"schedule", "execute"} \subseteq stage[c].files /\ stage[c].of = c
        BY <1>1, <1>10 DEF PublishFails, StageInv, Staging
      <3> QED
        BY <1>2, <1>3, <1>4, <1>5, <3>1, <3>2, StagesStep DEF Staging
    <2> QED
      BY <2>1, <2>2
  <1>11. CASE Restore(c)
    <2>1. output' \in Packages \cup {NoPackage}
      BY <1>5, <1>11 DEF Restore
    <2>2. backup' \in [Previews -> Packages \cup {NoPackage}]
      BY <1>1, <1>11 DEF Restore, PackageTypes
    <2> QED
      BY <1>4, <1>8, <1>11, <2>1, <2>2 DEF Restore
  <1>12. CASE RestoreFails(c)
    BY <1>2, <1>3, <1>4, <1>8, <1>12 DEF RestoreFails
  <1>13. CASE PreviewFails(c)
    BY <1>2, <1>3, <1>4, <1>8, <1>13 DEF PreviewFails
  <1>14. CASE RemoveBackup(c)
    <2>1. UNCHANGED <<asked, stage, output, latest>>
      BY <1>14 DEF RemoveBackup
    <2>2. ASSUME NEW files \in SUBSET backup[c].files
          PROVE  [backup EXCEPT ![c].files = files] \in [Previews -> Packages \cup {NoPackage}]
      <3>1. backup[c] \in Packages
        BY <1>5, <1>14 DEF RemoveBackup
      <3>2. files \in SUBSET Files
        BY <3>1 DEF Packages
      <3>3. [backup[c] EXCEPT !.files = files] \in Packages
        BY <3>1, <3>2, PackageChanged
      <3> QED
        BY <1>1, <3>3 DEF PackageTypes
    <2>3. [backup EXCEPT ![c] = NoPackage] \in [Previews -> Packages \cup {NoPackage}]
      BY <1>1 DEF PackageTypes
    <2> QED
      BY <1>3, <1>4, <1>8, <1>14, <2>1, <2>2, <2>3 DEF RemoveBackup
  <1> QED
    BY <1>6, <1>7, <1>9, <1>10, <1>11, <1>12, <1>13, <1>14

-----------------------------------------------------------------------------
(* A package is never lost.                                                *)

\* What a call may do without what is published: go on, or fail.
Quiet(c) ==
    \/ step'[c] = step[c] \/ step'[c] \in {"failed", "crashed"}
    \/ /\ step[c] \notin {"publish", "restore"} \cup Over
       /\ step'[c] \notin {"publish", "restore"} \cup Over
    \/ step[c] = "publish" /\ step'[c] = "restore" /\ backup[c] # NoPackage

\* If nothing is moved, and no call does more than the above, nothing is lost.
LEMMA QuietStep ==
    ASSUME SurvivalInv, UNCHANGED <<output, backup, latest>>, \A c \in Previews : Quiet(c)
    PROVE  SurvivalInv'
  <1>1. PackageSurvives'
    BY DEF SurvivalInv, PackageSurvives, Whole, NoPackage
  <1>2. ASSUME NEW c \in Previews PROVE BackupInv(c)'
    <2>1. BackupInv(c) /\ Quiet(c)
      BY DEF SurvivalInv
    <2>2. Published(c)' = Published(c) /\ Whole(backup[c])' = Whole(backup[c])
      BY DEF Published, Whole, NoPackage
    <2> QED
      BY <2>1, <2>2 DEF BackupInv, Quiet, Over, NoPackage
  <1> QED
    BY <1>1, <1>2 DEF SurvivalInv

\* One call goes on.
LEMMA QuietCall ==
    ASSUME PackageTypes, SurvivalInv, NEW c \in asked, NEW s, Goto(c, s),
           UNCHANGED <<output, backup, latest>>,
           \/ s = "failed"
           \/ /\ step[c] \notin {"publish", "restore"} \cup Over
              /\ s \notin {"publish", "restore"} \cup Over
           \/ step[c] = "publish" /\ s = "restore" /\ backup[c] # NoPackage
    PROVE  SurvivalInv'
  <1>1. step'[c] = s /\ \A d \in Previews : d # c => step'[d] = step[d]
    BY DEF Goto, PackageTypes
  <1>2. \A d \in Previews : Quiet(d)
    BY <1>1 DEF Quiet
  <1> QED
    BY <1>2, QuietStep

\* What is published is moved away whole.
LEMMA MoveStep ==
    ASSUME StagingInv, SurvivalInv, NEW c \in asked, MoveOutput(c)
    PROVE  SurvivalInv'
  <1>1. c \in Previews /\ PackageTypes
    BY DEF StagingInv, PackageTypes
  <1>2. /\ backup'[c] = output /\ output' = NoPackage /\ latest' = latest
        /\ step[c] = "move" /\ step'[c] = "publish"
        /\ \A d \in Previews : d # c => backup'[d] = backup[d] /\ step'[d] = step[d]
    BY <1>1 DEF MoveOutput, Goto, PackageTypes
  <1>3. backup[c] = NoPackage /\ ~Published(c)
    BY <1>1, <1>2 DEF SurvivalInv, BackupInv, Over
  <1>4. ASSUME NEW d \in Previews PROVE Published(d)' => Published(d)
    BY <1>2, NoneIsOfNobody DEF Published
  <1>5. ASSUME NEW d \in Previews, d # c PROVE BackupInv(d)'
    <2>1. BackupInv(d)
      BY DEF SurvivalInv
    <2>2. Whole(backup[d])' = Whole(backup[d])
      BY <1>2, <1>5 DEF Whole, NoPackage
    <2> QED
      BY <1>2, <1>4, <1>5, <2>1, <2>2 DEF BackupInv, NoPackage
  <1>6. BackupInv(c)'
    <2>1. output # NoPackage => Whole(output)
      BY DEF SurvivalInv, PackageSurvives
    <2>2. backup'[c] # NoPackage => Whole(backup[c])'
      BY <1>2, <2>1 DEF Whole, NoPackage
    <2>3. ~Published(c)'
      BY <1>1, <1>3, <1>4
    <2> QED
      BY <1>2, <2>2, <2>3 DEF BackupInv, NoPackage
  <1>7. PackageSurvives'
    <2>1. latest # NoPackage => latest = output \/ \E d \in Previews : backup[d] = latest
      BY DEF SurvivalInv, PackageSurvives
    <2>2. latest # NoPackage => \E d \in Previews : backup'[d] = latest
      BY <1>1, <1>2, <1>3, <2>1
    <2> QED
      BY <1>2, <2>2 DEF PackageSurvives, NoPackage
  <1> QED
    BY <1>1, <1>5, <1>6, <1>7 DEF SurvivalInv

\* What others moved away is not of the call that publishes now.
LEMMA PublishStep ==
    ASSUME StagingInv, SurvivalInv, NEW c \in asked, Publish(c)
    PROVE  SurvivalInv'
  <1>1. c \in Previews /\ PackageTypes /\ StageInv(c)
    BY DEF StagingInv, PackageTypes
  <1>2. /\ output' = stage[c] /\ latest' = stage[c] /\ backup' = backup
        /\ step[c] = "publish"
        /\ step'[c] = IF backup[c] = NoPackage THEN "done" ELSE "remove"
        /\ \A d \in Previews : d # c => step'[d] = step[d]
    BY <1>1 DEF Publish, Goto, PackageTypes
  <1>3. stage[c] # NoPackage /\ stage[c].of = c /\ Whole(stage[c])
    BY <1>1, <1>2 DEF StageInv, Staging
  <1>4. ~Published(c)
    BY <1>1, <1>2 DEF SurvivalInv, BackupInv, Over
  <1>5. \A d \in Previews : backup[d] # stage[c]
    BY <1>3, <1>4 DEF Published
  <1>6. ASSUME NEW d \in Previews, d # c PROVE BackupInv(d)'
    <2>1. BackupInv(d)
      BY DEF SurvivalInv
    <2>2. Published(d)' => Published(d)
      BY <1>2, <1>3, <1>6 DEF Published
    <2>3. Whole(backup[d])' = Whole(backup[d])
      BY <1>2 DEF Whole, NoPackage
    <2> QED
      BY <1>2, <1>5, <1>6, <2>1, <2>2, <2>3 DEF BackupInv, NoPackage
  <1>7. BackupInv(c)'
    BY <1>1, <1>2, <1>5 DEF BackupInv, Over, NoPackage
  <1>8. PackageSurvives'
    BY <1>2, <1>3 DEF PackageSurvives, Whole, NoPackage
  <1> QED
    BY <1>1, <1>6, <1>7, <1>8 DEF SurvivalInv

\* What was moved away is put back as it was.
LEMMA RestoreStep ==
    ASSUME StagingInv, SurvivalInv, NEW c \in asked, Restore(c)
    PROVE  SurvivalInv'
  <1>1. c \in Previews /\ PackageTypes
    BY DEF StagingInv, PackageTypes
  <1>2. /\ output = NoPackage /\ output' = backup[c] /\ latest' = latest
        /\ backup'[c] = NoPackage /\ step[c] = "restore" /\ step'[c] = "failed"
        /\ \A d \in Previews : d # c => backup'[d] = backup[d] /\ step'[d] = step[d]
    BY <1>1 DEF Restore, Goto, PackageTypes
  <1>3. backup[c] # NoPackage /\ Whole(backup[c])
    BY <1>1, <1>2 DEF SurvivalInv, BackupInv
  <1>4. ASSUME NEW d \in Previews PROVE Published(d)' => Published(d)
    BY <1>1, <1>2, NoneIsOfNobody DEF Published
  <1>5. ASSUME NEW d \in Previews, d # c PROVE BackupInv(d)'
    <2>1. BackupInv(d)
      BY DEF SurvivalInv
    <2>2. Whole(backup[d])' = Whole(backup[d])
      BY <1>2, <1>5 DEF Whole, NoPackage
    <2> QED
      BY <1>2, <1>4, <1>5, <2>1, <2>2 DEF BackupInv, NoPackage
  <1>6. BackupInv(c)'
    BY <1>2 DEF BackupInv, Over, NoPackage
  <1>7. PackageSurvives'
    <2>1. latest # NoPackage => \E d \in Previews : backup[d] = latest
      BY <1>2 DEF SurvivalInv, PackageSurvives
    <2>2. latest # NoPackage => latest = backup[c] \/ \E d \in Previews : backup'[d] = latest
      BY <1>2, <2>1
    <2> QED
      BY <1>2, <1>3, <2>2 DEF PackageSurvives, Whole, NoPackage
  <1> QED
    BY <1>1, <1>5, <1>6, <1>7 DEF SurvivalInv

\* What is removed is not what was published last.
LEMMA RemoveStep ==
    ASSUME StagingInv, SurvivalInv, NEW c \in asked, RemoveBackup(c)
    PROVE  SurvivalInv'
  <1>1. c \in Previews /\ PackageTypes
    BY DEF StagingInv, PackageTypes
  <1>2. /\ UNCHANGED <<output, latest>> /\ step[c] = "remove" /\ step'[c] \in {"done", "failed"}
        /\ \A d \in Previews : d # c => backup'[d] = backup[d] /\ step'[d] = step[d]
    BY <1>1 DEF RemoveBackup, Goto, PackageTypes
  <1>3. backup[c] # latest /\ backup[c] \in Packages
    BY <1>1, <1>2 DEF SurvivalInv, BackupInv, PackageTypes
  <1>4. backup'[c] = NoPackage \/ backup'[c].of = backup[c].of
    <2>1. ASSUME NEW files \in SUBSET backup[c].files,
                 backup' = [backup EXCEPT ![c].files = files]
          PROVE  backup'[c].of = backup[c].of
      <3>1. backup'[c] = [backup[c] EXCEPT !.files = files]
        BY <1>1, <2>1 DEF PackageTypes
      <3>2. files \in SUBSET Files
        BY <1>3 DEF Packages
      <3> QED
        BY <1>3, <3>1, <3>2, PackageChanged
    <2>2. backup' = [backup EXCEPT ![c] = NoPackage] => backup'[c] = NoPackage
      BY <1>1 DEF PackageTypes
    <2> QED
      BY <2>1, <2>2 DEF RemoveBackup
  <1>5. ASSUME NEW d \in Previews PROVE Published(d)' => Published(d)
    BY <1>1, <1>2, <1>4, NoneIsOfNobody DEF Published
  <1>6. ASSUME NEW d \in Previews, d # c PROVE BackupInv(d)'
    <2>1. BackupInv(d)
      BY DEF SurvivalInv
    <2>2. Whole(backup[d])' = Whole(backup[d])
      BY <1>2, <1>6 DEF Whole, NoPackage
    <2> QED
      BY <1>2, <1>5, <1>6, <2>1, <2>2 DEF BackupInv, NoPackage
  <1>7. BackupInv(c)'
    BY <1>2 DEF BackupInv, Over
  <1>8. PackageSurvives'
    <2>1. /\ latest # NoPackage => latest = output \/ \E d \in Previews : backup[d] = latest
          /\ output # NoPackage => Whole(output)
      BY DEF SurvivalInv, PackageSurvives
    <2>2. latest # NoPackage => latest = output \/ \E d \in Previews : backup'[d] = latest
      BY <1>2, <1>3, <2>1
    <2> QED
      BY <1>2, <2>1, <2>2 DEF PackageSurvives, Whole, NoPackage
  <1> QED
    BY <1>1, <1>6, <1>7, <1>8 DEF SurvivalInv

\* A process that dies leaves what is published, staged and moved where it is.
LEMMA CrashStep ==
    ASSUME StagingInv, SurvivalInv, NEW port, Crash(port)
    PROVE  StagingInv' /\ SurvivalInv'
  <1>1. UNCHANGED <<asked, stage, output, backup, latest>>
    BY DEF Crash
  <1>2. \A c \in Previews : step'[c] = step[c] \/ step'[c] = "crashed"
    BY DEF Crash
  <1>3. SurvivalInv'
    BY <1>1, <1>2, QuietStep DEF Quiet
  <1>4. PackageTypes'
    BY <1>1 DEF Crash, StagingInv, PackageTypes, Over
  <1>5. ASSUME NEW c \in Previews PROVE StageInv(c)'
    <2>1. StageInv(c)
      BY DEF StagingInv
    <2>2. Whole(stage[c])' = Whole(stage[c])
      BY <1>1 DEF Whole, NoPackage
    <2> QED
      BY <1>1, <1>2, <2>1, <2>2 DEF StageInv, Staging, Proofs, NoPackage
  <1> QED
    BY <1>3, <1>4, <1>5 DEF StagingInv

PackagesInv == StagingInv /\ SurvivalInv

\* A preparation stages a package of its own and touches no other.
LEMMA PreparePackage ==
    ASSUME PackagesInv, NEW c \in asked, PrepareSafeMarketPreview(c)
    PROVE  PackagesInv'
  <1> DEFINE s == IF c \in Proves THEN "fork" ELSE "manifest"
             package == [of |-> c, files |-> {"schedule", "execute"}, proof |-> "not-run"]
  <1>1. /\ step[c] = "idle" /\ Goto(c, s) /\ Stages(c, s, package)
        /\ UNCHANGED <<output, backup, latest>>
    BY DEF PrepareSafeMarketPreview, Goto, Stages
  <1>2. c \in Previews
    BY DEF PackagesInv, StagingInv, PackageTypes
  <1>3. package \in Packages /\ package.of = c /\ {"schedule", "execute"} \subseteq package.files
    BY <1>2 DEF Packages, Files
  <1>4. s \in {"fork", "manifest"}
    OBVIOUS
  <1> HIDE DEF s, package
  <1>5. package # NoPackage
    BY <1>3, NoneIsOfNobody
  <1>6. /\ backup' \in [Previews -> Packages \cup {NoPackage}]
        /\ output' \in Packages \cup {NoPackage} /\ latest' \in Packages \cup {NoPackage}
    BY <1>1 DEF PackagesInv, StagingInv, PackageTypes
  <1>7. StagingInv'
    BY <1>1, <1>3, <1>4, <1>5, <1>6, StagesStep DEF PackagesInv, Staging
  <1>8. SurvivalInv'
    BY <1>1, <1>4, QuietCall DEF PackagesInv, StagingInv, Over
  <1> QED
    BY <1>7, <1>8 DEF PackagesInv

\* So does a proof.
LEMMA ProvePackage ==
    ASSUME PackagesInv, NEW c \in asked, Prove(c)
    PROVE  PackagesInv'
  <1>1. UNCHANGED <<output, backup, latest>>
    BY DEF Prove, SpawnFork, AssertPinnedForkBlock, AssertNonce, ScheduleBatch, ExecuteBatch,
           Verify, Proving
  <1>2. \E s \in Proofs \cup {"manifest"} :
            Goto(c, s) /\ step[c] \in Proofs \cup {"fork"}
    BY DEF Prove, SpawnFork, AssertPinnedForkBlock, AssertNonce, ScheduleBatch, ExecuteBatch,
           Verify, Proving, Proofs
  <1>3. SurvivalInv'
    BY <1>1, <1>2, QuietCall DEF PackagesInv, StagingInv, Over, Proofs
  <1> QED
    BY <1>3, ProvingStages DEF PackagesInv

\* A publication moves the former package to a backup of its own before it puts its
\* package there, and removes the backup only after that.
LEMMA PublishPackage ==
    ASSUME PackagesInv, NEW c \in asked,
           \/ StageManifest(c) \/ MoveOutput(c) \/ Publish(c) \/ PublishFails(c)
           \/ Restore(c) \/ RestoreFails(c) \/ RemoveBackup(c) \/ PreviewFails(c)
    PROVE  PackagesInv'
  <1>1. c \in Previews
    BY DEF PackagesInv, StagingInv, PackageTypes
  <1>2. step[c] = "remove" => backup[c] # NoPackage
    BY <1>1 DEF PackagesInv, SurvivalInv, BackupInv
  <1>3. ASSUME StageManifest(c) PROVE SurvivalInv'
    BY <1>3, QuietCall DEF PackagesInv, StagingInv, StageManifest, Over
  <1>4. ASSUME PublishFails(c) PROVE SurvivalInv'
    BY <1>4, QuietCall DEF PackagesInv, StagingInv, PublishFails
  <1>5. ASSUME RestoreFails(c) \/ PreviewFails(c) PROVE SurvivalInv'
    BY <1>5, QuietCall DEF PackagesInv, StagingInv, RestoreFails, PreviewFails
  <1>6. SurvivalInv'
    BY <1>3, <1>4, <1>5, MoveStep, PublishStep, RestoreStep, RemoveStep DEF PackagesInv
  <1>7. StagingInv'
    BY <1>2, PublishingStages DEF PackagesInv
  <1> QED
    BY <1>6, <1>7 DEF PackagesInv

\* What happens elsewhere changes no package.
LEMMA PackagesKept ==
    ASSUME PackagesInv, UNCHANGED packageVars
    PROVE  PackagesInv'
  <1>1. UNCHANGED <<asked, step, stage, output, backup, latest>>
    BY DEF packageVars
  <1>2. SurvivalInv'
    BY <1>1, QuietStep DEF PackagesInv, Quiet
  <1>3. StagingInv'
    BY <1>1 DEF PackagesInv, StagingInv, PackageTypes, StageInv, Whole, NoPackage
  <1> QED
    BY <1>2, <1>3 DEF PackagesInv

\* The invariant of the packages is kept.
LEMMA PackagesStep == PackagesInv /\ [Next]_vars => PackagesInv'
  <1> SUFFICES ASSUME PackagesInv, [Next]_vars PROVE PackagesInv'
    OBVIOUS
  <1>1. CASE Package
    BY <1>1, PreparePackage, ProvePackage, PublishPackage, CrashStep
       DEF Package, PackageNext, PackagesInv
  <1>2. CASE Chain \/ Deployment \/ UNCHANGED vars
    BY <1>2, PackagesKept DEF Chain, Deployment, vars
  <1> QED
    BY <1>1, <1>2 DEF Next

\* A package published formerly is whole.
LEMMA PackagesInitially == Init => PackagesInv
  <1> SUFFICES ASSUME Init PROVE PackagesInv
    OBVIOUS
  <1> DEFINE former == [of |-> "former", files |-> {"schedule", "execute", "manifest"},
                        proof |-> "not-run"]
  <1>1. PICK s \in Starts : PackageInit(s.calls) /\ s.calls \subseteq Previews
    BY StartsAreStates DEF Init
  <1>2. /\ asked \subseteq Previews
        /\ step = [c \in Previews |-> "idle"] /\ stage = [c \in Previews |-> NoPackage]
        /\ backup = [c \in Previews |-> NoPackage]
        /\ output \in {NoPackage, former} /\ latest = output
    BY <1>1 DEF PackageInit
  <1>3. former \in Packages /\ former.of \notin Previews
        /\ former.files = {"schedule", "execute", "manifest"}
    BY PackageConstants DEF Packages, Files
  <1> HIDE DEF former
  <1>4. StagingInv
    BY <1>2, <1>3 DEF StagingInv, PackageTypes, StageInv, Staging, Proofs
  <1>5. \A c \in Previews : ~Published(c)
    BY <1>2, <1>3, NoneIsOfNobody DEF Published
  <1>6. \A c \in Previews : BackupInv(c)
    BY <1>2, <1>5 DEF BackupInv
  <1>7. PackageSurvives
    BY <1>2, <1>3, NoneIsOfNobody DEF PackageSurvives, Whole
  <1> QED
    BY <1>4, <1>6, <1>7 DEF PackagesInv, SurvivalInv

\* Whatever fails or dies between the renames, and however calls overlap, the package
\* that was published last is whole where it was published or where a call moved
\* it, which it then does not remove (publishSafeMarketPackage).
THEOREM PackagesSurvive == Spec => []PackageSurvives
  <1>1. PackagesInv => PackageSurvives
    BY DEF PackagesInv, SurvivalInv
  <1>2. QED
    BY <1>1, PackagesInitially, PackagesStep, PTL DEF Spec

-----------------------------------------------------------------------------
(* A package that passed its proof can be executed.                        *)

Sights == [{"pin"} \cup Parts -> DOMAIN blocks]

\* No other call is on the port of a call.
Alone(c) == \A d \in asked \ {c} : PortOf[d] # PortOf[c]

\* What is shown of the block a call pinned is enough for its package.
Upholds(view, c) ==
    /\ view.block = seen[c]["pin"]
    /\ view.open
    /\ view.delay <= Delay(c) /\ Delay(c) <= MaxWait
    /\ view.nonce = Nonce(c)
    /\ RateMin(Rate(c)) <= view.rate /\ view.rate <= RateMax(Rate(c))

Executable(c) == Upholds(shown[c], c)

IsPassed(c, package) == package.of = c /\ package.proof = "passed"

HasPassed(c) ==
    \/ IsPassed(c, stage[c]) \/ IsPassed(c, output)
    \/ \E d \in Previews : IsPassed(c, backup[d])

\* What a call that is alone on its port has learnt at each step of its proof.
ForkInv(c) ==
    /\ step[c] \in {"idle", "fork"} => Fork(c) = Nobody
    /\ step[c] \in Proofs /\ Fork(c) # Nobody =>
        /\ DOMAIN Fork(c) = {"by", "shown", "nonce", "scheduled", "executed"}
        /\ Fork(c).shown.block \in DOMAIN blocks /\ blocks[Fork(c).shown.block].number = Number(c)
        /\ step[c] # "check" => Fork(c).shown.block = seen[c]["pin"]
        /\ step[c] \in {"check", "before"} => Fork(c).nonce = Fork(c).shown.nonce
        /\ step[c] \notin {"check", "before"} => Fork(c).shown.nonce = Nonce(c)
        /\ step[c] \notin {"check", "before", "schedule"} => Fork(c).shown.delay <= Delay(c)
        /\ step[c] \in {"executed", "verify"} => Delay(c) <= MaxWait /\ Fork(c).shown.open

CallInv(c) ==
    /\ step[c] \in Staging \/ HasPassed(c) => seen[c] \in Sights
    /\ c \in asked /\ Alone(c) => ForkInv(c) /\ (HasPassed(c) => Executable(c))

PassedInv ==
    /\ DOMAIN seen = Previews /\ DOMAIN shown = Previews
    /\ DOMAIN fork = {PortOf[c] : c \in Previews}
    /\ \A c \in Previews : CallInv(c)

\* What was seen of blocks stays so.
LEMMA SightKept ==
    ASSUME Steady, NEW c, seen'[c] = seen[c], shown'[c] = shown[c], seen[c] \in Sights
    PROVE  /\ seen'[c] \in Sights'
           /\ Number(c)' = Number(c) /\ Nonce(c)' = Nonce(c) /\ Delay(c)' = Delay(c)
           /\ Rate(c)' = Rate(c) /\ seen'[c]["pin"] = seen[c]["pin"]
           /\ Executable(c)' = Executable(c)
  <1>1. /\ seen[c] = [p \in {"pin"} \cup Parts |-> seen[c][p]]
        /\ \A p \in {"pin"} \cup Parts : seen[c][p] \in DOMAIN blocks
    BY DEF Sights
  <1>2. \A b \in DOMAIN blocks : b \in DOMAIN blocks' /\ blocks'[b] = blocks[b]
    BY DEF Steady
  <1>3. seen'[c] \in Sights'
    BY <1>1, <1>2 DEF Sights
  <1>4. /\ seen[c]["pin"] \in DOMAIN blocks /\ seen[c]["governance"] \in DOMAIN blocks
        /\ seen[c]["feeds"] \in DOMAIN blocks
    BY <1>1 DEF Parts
  <1>5. /\ Number(c)' = Number(c) /\ Nonce(c)' = Nonce(c) /\ Delay(c)' = Delay(c)
        /\ Rate(c)' = Rate(c)
    BY <1>2, <1>4 DEF Number, Nonce, Delay, Rate
  <1>6. Executable(c)' = Executable(c)
    BY <1>5 DEF Executable, Upholds, RateMin, RateMax
  <1> QED
    BY <1>3, <1>5, <1>6

\* What a call has learnt is not changed by what others do elsewhere.
LEMMA ForkKept ==
    ASSUME Steady, NEW c, ForkInv(c), step'[c] = step[c], Fork(c)' = Fork(c),
           seen'[c] = seen[c], shown'[c] = shown[c], step[c] \in Proofs => seen[c] \in Sights
    PROVE  ForkInv(c)'
  <1>1. CASE step[c] \notin Proofs
    BY <1>1 DEF ForkInv
  <1>2. CASE step[c] \in Proofs
    <2>1. Number(c)' = Number(c) /\ Nonce(c)' = Nonce(c) /\ Delay(c)' = Delay(c)
      BY <1>2, SightKept
    <2>2. \A b \in DOMAIN blocks : b \in DOMAIN blocks' /\ blocks'[b] = blocks[b]
      BY DEF Steady
    <2> HIDE DEF Number, Nonce, Delay, Fork
    <2> QED
      BY <1>2, <2>1, <2>2 DEF ForkInv
  <1> QED
    BY <1>1, <1>2

\* Where nothing new has passed, what has passed can be executed as before.
LEMMA PassedKept ==
    ASSUME Steady, NEW c, HasPassed(c)' => HasPassed(c),
           HasPassed(c) => seen[c] \in Sights /\ seen'[c] = seen[c] /\ shown'[c] = shown[c]
    PROVE  /\ HasPassed(c)' => seen'[c] \in Sights'
           /\ (HasPassed(c) => Executable(c)) => (HasPassed(c)' => Executable(c)')
  BY SightKept

\* A call whose market was not proven has no package that passed.
LEMMA UnprovenPasses ==
    ASSUME PackagesInv, NEW c \in Previews, step[c] = "idle"
    PROVE  ~HasPassed(c)
  <1>1. stage[c] = NoPackage /\ ~Published(c)
    BY DEF PackagesInv, StagingInv, StageInv, SurvivalInv, BackupInv, Over
  <1> QED
    BY <1>1, NoneIsOfNobody DEF HasPassed, IsPassed, Published

\* Packages come to pass by their proof alone.
LEMMA OnlyProofPasses ==
    ASSUME PackagesInv, NEW c \in Previews, NEW d \in asked,
           \/ PrepareSafeMarketPreview(d)
           \/ Prove(d) /\ ~(d = c /\ Verify(d))
           \/ StageManifest(d) \/ MoveOutput(d) \/ Publish(d) \/ PublishFails(d)
           \/ Restore(d) \/ RestoreFails(d) \/ RemoveBackup(d) \/ PreviewFails(d)
    PROVE  HasPassed(c)' => HasPassed(c)
  <1>1. d \in Previews /\ PackageTypes /\ StageInv(d)
    BY DEF PackagesInv, StagingInv, PackageTypes
  <1>2. ~IsPassed(c, NoPackage)
    BY NoneIsOfNobody DEF IsPassed
  <1>3. ASSUME UNCHANGED <<output, backup>>,
               stage'[c] = stage[c] \/ ~IsPassed(c, stage'[c])
        PROVE  HasPassed(c)' => HasPassed(c)
    BY <1>3 DEF HasPassed, IsPassed
  <1>4. ASSUME stage' = [stage EXCEPT ![d] = NoPackage] \/ stage' = stage
        PROVE  stage'[c] = stage[c] \/ stage'[c] = NoPackage
    BY <1>1, <1>4 DEF PackageTypes
  <1>5. CASE PrepareSafeMarketPreview(d)
    <2> DEFINE package == [of |-> d, files |-> {"schedule", "execute"}, proof |-> "not-run"]
    <2>1. stage' = [stage EXCEPT ![d] = package] /\ UNCHANGED <<output, backup>>
      BY <1>5 DEF PrepareSafeMarketPreview
    <2>2. ~IsPassed(c, package)
      BY DEF IsPassed
    <2> HIDE DEF package
    <2>3. stage'[c] = stage[c] \/ stage'[c] = package
      BY <1>1, <2>1 DEF PackageTypes
    <2> QED
      BY <1>3, <2>1, <2>2, <2>3
  <1>6. CASE Prove(d) /\ ~(d = c /\ Verify(d))
    <2>1. UNCHANGED <<output, backup>>
      BY <1>6 DEF Prove, SpawnFork, AssertPinnedForkBlock, AssertNonce, ScheduleBatch,
         ExecuteBatch, Verify, Proving
    <2>2. ASSUME Verify(d), d # c PROVE stage'[c] = stage[c]
      BY <1>1, <2>2 DEF Verify, PackageTypes
    <2>3. ~Verify(d) => stage' = stage
      BY <1>6 DEF Prove, SpawnFork, AssertPinnedForkBlock, AssertNonce, ScheduleBatch,
         ExecuteBatch, Proving
    <2> QED
      BY <1>3, <1>6, <2>1, <2>2, <2>3
  <1>7. CASE StageManifest(d)
    <2> DEFINE files == stage[d].files \cup {"manifest"}
    <2>1. stage[d] \in Packages
      BY <1>1, <1>7 DEF StageManifest, StageInv, PackageTypes, Staging
    <2>2. files \in SUBSET Files
      BY <2>1 DEF Packages, Files
    <2>3. stage' = [stage EXCEPT ![d] = [stage[d] EXCEPT !.files = files]]
          /\ UNCHANGED <<output, backup>>
      BY <1>7 DEF StageManifest
    <2>4. [stage[d] EXCEPT !.files = files].of = stage[d].of
          /\ [stage[d] EXCEPT !.files = files].proof = stage[d].proof
      BY <2>1, <2>2, PackageChanged
    <2>5. \/ stage'[c] = stage[c]
          \/ /\ stage'[c].of = stage[c].of
             /\ stage'[c].proof = stage[c].proof
      BY <1>1, <2>3, <2>4 DEF PackageTypes
    <2> QED
      BY <1>3, <2>3, <2>5 DEF IsPassed, HasPassed
  <1>8. CASE MoveOutput(d)
    <2>1. stage' = stage /\ output' = NoPackage
          /\ \A e \in Previews : backup'[e] = backup[e] \/ backup'[e] = output
      BY <1>1, <1>8 DEF MoveOutput, PackageTypes
    <2> QED
      BY <1>2, <2>1 DEF HasPassed, IsPassed
  <1>9. CASE Publish(d)
    <2>1. output' = stage[d] /\ backup' = backup /\ stage' = [stage EXCEPT ![d] = NoPackage]
      BY <1>9 DEF Publish
    <2>2. stage'[c] = stage[c] \/ stage'[c] = NoPackage
      BY <1>4, <2>1
    <2>3. IsPassed(c, stage[d]) => d = c
      BY <1>1, <1>2 DEF StageInv, IsPassed
    <2> QED
      BY <1>2, <2>1, <2>2, <2>3 DEF HasPassed, IsPassed
  <1>10. CASE PublishFails(d) \/ RestoreFails(d) \/ PreviewFails(d)
    <2>1. UNCHANGED <<output, backup>>
          /\ (stage' = [stage EXCEPT ![d] = NoPackage] \/ stage' = stage)
      BY <1>10 DEF PublishFails, RestoreFails, PreviewFails
    <2> QED
      BY <1>2, <1>3, <1>4, <2>1
  <1>11. CASE Restore(d)
    <2>1. output' = backup[d] /\ stage' = [stage EXCEPT ![d] = NoPackage]
      BY <1>11 DEF Restore
    <2>2. \A e \in Previews : backup'[e] = backup[e] \/ backup'[e] = NoPackage
      BY <1>1, <1>11 DEF Restore, PackageTypes
    <2>3. stage'[c] = stage[c] \/ stage'[c] = NoPackage
      BY <1>4, <2>1
    <2> QED
      BY <1>1, <1>2, <2>1, <2>2, <2>3 DEF HasPassed, IsPassed
  <1>12. CASE RemoveBackup(d)
    <2>1. UNCHANGED <<output, stage>> /\ \A e \in Previews : e # d => backup'[e] = backup[e]
      BY <1>1, <1>12 DEF RemoveBackup, PackageTypes
    <2>2. ASSUME NEW files \in SUBSET backup[d].files,
                 backup' = [backup EXCEPT ![d].files = files]
          PROVE  backup'[d].of = backup[d].of /\ backup'[d].proof = backup[d].proof
      <3>1. backup'[d] = [backup[d] EXCEPT !.files = files]
        BY <1>1, <2>2 DEF PackageTypes
      <3>2. backup[d] \in Packages
        BY <1>1, <1>12 DEF RemoveBackup, PackageTypes, PackagesInv, SurvivalInv, BackupInv
      <3>3. files \in SUBSET Files
        BY <3>2 DEF Packages
      <3> QED
        BY <3>1, <3>2, <3>3, PackageChanged
    <2>3. backup' = [backup EXCEPT ![d] = NoPackage] => backup'[d] = NoPackage
      BY <1>1 DEF PackageTypes
    <2>4. IsPassed(c, backup'[d]) => IsPassed(c, backup[d])
      BY <1>2, <1>12, <2>2, <2>3 DEF RemoveBackup, IsPassed
    <2>5. \A e \in Previews : IsPassed(c, backup'[e]) => IsPassed(c, backup[e])
      BY <2>1, <2>4
    <2> QED
      BY <2>1, <2>5 DEF HasPassed, IsPassed
  <1> QED
    BY <1>5, <1>6, <1>7, <1>8, <1>9, <1>10, <1>11, <1>12

\* A call takes its fork to be of the pinned block, whose nonce, delay and path the fork
\* then shows one by one.
LEMMA ProofLearns ==
    ASSUME ChainInv, PassedInv, PackageTypes, NEW c \in asked, Alone(c), Prove(c),
           UNCHANGED chainVars
    PROVE  ForkInv(c)' /\ (Verify(c) => Executable(c)')
  <1>1. /\ c \in Previews /\ ForkInv(c) /\ PortOf[c] \in DOMAIN fork
        /\ step[c] \in Proofs \cup {"fork"} => seen[c] \in Sights
    BY DEF PassedInv, CallInv, PackageTypes, Staging
  <1>2. UNCHANGED <<seen, blocks>>
    <2>1. seen' = seen
      BY DEF Prove, SpawnFork, AssertPinnedForkBlock, AssertNonce, ScheduleBatch, ExecuteBatch,
             Verify, Proving
    <2> QED
      BY <2>1 DEF chainVars
  <1>3. /\ Number(c)' = Number(c) /\ Nonce(c)' = Nonce(c) /\ Delay(c)' = Delay(c)
        /\ Rate(c)' = Rate(c)
    BY <1>2 DEF Number, Nonce, Delay, Rate
  <1>4. ASSUME NEW s, Goto(c, s) PROVE step'[c] = s
    BY <1>1, <1>4 DEF Goto, PackageTypes
  <1>5. CASE SpawnFork(c)
    <2>1. Fork(c) = Nobody /\ step'[c] = "check"
      BY <1>1, <1>4, <1>5 DEF ForkInv, SpawnFork
    <2>2. PICK view \in Shows(Number(c)) :
            fork' = [fork EXCEPT ![PortOf[c]] =
                        [by |-> c, shown |-> view, nonce |-> view.nonce,
                         scheduled |-> {}, executed |-> {}]]
      BY <1>5, <2>1 DEF SpawnFork
    <2>3. view.block \in DOMAIN blocks /\ blocks[view.block].number = Number(c)
      BY DEF Shows
    <2>4. /\ DOMAIN Fork(c)' = {"by", "shown", "nonce", "scheduled", "executed"}
          /\ Fork(c)'.shown = view /\ Fork(c)'.nonce = view.nonce
      BY <1>1, <2>2 DEF Fork
    <2>5. ~Verify(c)
      BY <1>5 DEF Verify, SpawnFork
    <2> HIDE DEF Fork, Number
    <2> QED
      BY <1>2, <1>3, <2>1, <2>3, <2>4, <2>5 DEF ForkInv
  <1>6. ASSUME NEW from \in Proofs, NEW to \in Proofs, Proving(c, from, to)
        PROVE  /\ step[c] = from /\ step'[c] = to /\ Fork(c) # Nobody /\ ~Verify(c)
               /\ DOMAIN Fork(c) = {"by", "shown", "nonce", "scheduled", "executed"}
               /\ Fork(c).shown.block \in DOMAIN blocks
               /\ blocks[Fork(c).shown.block].number = Number(c)
    <2>1. step[c] = from /\ step'[c] = to /\ Fork(c) # Nobody
      BY <1>4, <1>6 DEF Proving
    <2>2. ~Verify(c)
      BY <1>4, <2>1 DEF Verify, Proofs
    <2> QED
      BY <1>1, <2>1, <2>2 DEF ForkInv
  <1>7. CASE AssertPinnedForkBlock(c)
    <2>1. /\ Proving(c, "check", "before") /\ fork' = fork
          /\ Number(c) = blocks[Fork(c).shown.block].number =>
                Fork(c).shown.block = seen[c]["pin"]
      BY <1>7 DEF AssertPinnedForkBlock
    <2>2. /\ step[c] = "check" /\ step'[c] = "before" /\ Fork(c) # Nobody /\ ~Verify(c)
          /\ DOMAIN Fork(c) = {"by", "shown", "nonce", "scheduled", "executed"}
          /\ Fork(c).shown.block \in DOMAIN blocks
          /\ blocks[Fork(c).shown.block].number = Number(c)
      BY <1>6, <2>1 DEF Proofs
    <2>3. Fork(c)' = Fork(c) /\ Fork(c).nonce = Fork(c).shown.nonce
      BY <1>1, <2>1, <2>2 DEF ForkInv, Proofs, Fork
    <2> HIDE DEF Fork, Number
    <2> QED
      BY <1>2, <1>3, <2>1, <2>2, <2>3 DEF ForkInv
  <1>8. ASSUME NEW from \in Proofs \ {"check"}, NEW to \in Proofs \ {"check", "before"},
               Proving(c, from, to), Fork(c)'.shown = Fork(c).shown,
               DOMAIN Fork(c)' = {"by", "shown", "nonce", "scheduled", "executed"},
               Fork(c).shown.nonce = Nonce(c),
               to # "schedule" => Fork(c).shown.delay <= Delay(c),
               to \in {"executed", "verify"} => Delay(c) <= MaxWait /\ Fork(c).shown.open
        PROVE  ForkInv(c)' /\ ~Verify(c)
    <2>1. /\ step[c] = from /\ step'[c] = to /\ Fork(c) # Nobody /\ ~Verify(c)
          /\ Fork(c).shown.block \in DOMAIN blocks
          /\ blocks[Fork(c).shown.block].number = Number(c)
      BY <1>6, <1>8
    <2>2. Fork(c).shown.block = seen[c]["pin"]
      BY <1>1, <1>8, <2>1 DEF ForkInv
    <2> HIDE DEF Fork, Number, Nonce, Delay
    <2> QED
      BY <1>2, <1>3, <1>8, <2>1, <2>2 DEF ForkInv, Proofs
  <1>9. CASE AssertNonce(c, "before", "schedule", Nonce(c))
    <2>1. /\ Proving(c, "before", "schedule") /\ fork' = fork
          /\ Fork(c).nonce = Nonce(c)
      BY <1>9 DEF AssertNonce, NonceIs
    <2>2. /\ step[c] = "before" /\ Fork(c) # Nobody
          /\ DOMAIN Fork(c) = {"by", "shown", "nonce", "scheduled", "executed"}
      BY <1>6, <2>1 DEF Proofs
    <2>3. Fork(c).shown.nonce = Nonce(c) /\ Fork(c)' = Fork(c)
      BY <1>1, <2>1, <2>2 DEF ForkInv, Proofs, Fork
    <2> HIDE DEF Fork, Nonce, Delay
    <2> QED
      BY <1>8, <2>1, <2>2, <2>3 DEF Proofs
  <1>10. ASSUME NEW from \in {"scheduled", "executed"}, NEW to \in {"execute", "verify"},
                NEW n, from = "executed" <=> to = "verify", AssertNonce(c, from, to, n)
         PROVE  ForkInv(c)' /\ ~Verify(c)
    <2>1. Proving(c, from, to) /\ fork' = fork
      BY <1>10 DEF AssertNonce
    <2>2. /\ step[c] = from /\ Fork(c) # Nobody
          /\ DOMAIN Fork(c) = {"by", "shown", "nonce", "scheduled", "executed"}
      BY <1>6, <1>10, <2>1 DEF Proofs
    <2>3. /\ Fork(c).shown.nonce = Nonce(c) /\ Fork(c).shown.delay <= Delay(c)
          /\ to = "verify" => Delay(c) <= MaxWait /\ Fork(c).shown.open
      BY <1>1, <1>10, <2>2 DEF ForkInv, Proofs
    <2>4. Fork(c)' = Fork(c)
      BY <2>1 DEF Fork
    <2> HIDE DEF Fork, Nonce, Delay
    <2> QED
      BY <1>8, <1>10, <2>1, <2>2, <2>3, <2>4 DEF Proofs
  <1>11. CASE ScheduleBatch(c)
    <2>1. /\ Proving(c, "schedule", "scheduled")
          /\ Delay(c) >= Fork(c).shown.delay
          /\ fork' = [fork EXCEPT ![PortOf[c]].nonce = @ + 1,
                                  ![PortOf[c]].scheduled = @ \cup {Market(c)}]
      BY <1>11 DEF ScheduleBatch
    <2>2. /\ step[c] = "schedule" /\ Fork(c) # Nobody
          /\ DOMAIN Fork(c) = {"by", "shown", "nonce", "scheduled", "executed"}
      BY <1>6, <2>1 DEF Proofs
    <2>3. /\ DOMAIN Fork(c)' = {"by", "shown", "nonce", "scheduled", "executed"}
          /\ Fork(c)'.shown = Fork(c).shown
      BY <1>1, <2>1, <2>2 DEF Fork
    <2>4. Fork(c).shown.nonce = Nonce(c)
      BY <1>1, <2>2 DEF ForkInv, Proofs
    <2>5. Fork(c).shown.delay <= Delay(c)
      BY <2>1
    <2> HIDE DEF Fork, Nonce, Delay
    <2> QED
      BY <1>8, <2>1, <2>3, <2>4, <2>5 DEF Proofs
  <1>12. CASE ExecuteBatch(c)
    <2>1. /\ Proving(c, "execute", "executed")
          /\ Delay(c) <= MaxWait /\ Fork(c).shown.open
          /\ fork' = [fork EXCEPT ![PortOf[c]].nonce = @ + 1,
                                  ![PortOf[c]].executed = @ \cup {Market(c)}]
      BY <1>12 DEF ExecuteBatch
    <2>2. /\ step[c] = "execute" /\ Fork(c) # Nobody
          /\ DOMAIN Fork(c) = {"by", "shown", "nonce", "scheduled", "executed"}
      BY <1>6, <2>1 DEF Proofs
    <2>3. /\ DOMAIN Fork(c)' = {"by", "shown", "nonce", "scheduled", "executed"}
          /\ Fork(c)'.shown = Fork(c).shown
      BY <1>1, <2>1, <2>2 DEF Fork
    <2>4. Fork(c).shown.nonce = Nonce(c) /\ Fork(c).shown.delay <= Delay(c)
      BY <1>1, <2>2 DEF ForkInv, Proofs
    <2> HIDE DEF Fork, Nonce, Delay
    <2> QED
      BY <1>8, <2>1, <2>3, <2>4 DEF Proofs
  <1>13. CASE Verify(c)
    <2>1. /\ step[c] = "verify" /\ step'[c] = "manifest" /\ Fork(c) # Nobody /\ RateInBounds(c)
          /\ shown'[c] = Fork(c).shown
      BY <1>1, <1>4, <1>13 DEF Verify, PassedInv
    <2>2. /\ Fork(c).shown.block = seen[c]["pin"] /\ Fork(c).shown.nonce = Nonce(c)
          /\ Fork(c).shown.delay <= Delay(c) /\ Delay(c) <= MaxWait /\ Fork(c).shown.open
      BY <1>1, <2>1 DEF ForkInv, Proofs
    <2>3. /\ RateMin(Rate(c)) <= Fork(c).shown.rate
          /\ Fork(c).shown.rate <= RateMax(Rate(c))
      BY <2>1 DEF RateInBounds, Market
    <2>4. Executable(c)'
      <3> HIDE DEF Fork, Nonce, Delay, Rate
      <3> QED
        BY <1>2, <1>3, <2>1, <2>2, <2>3 DEF Executable, Upholds, RateMin, RateMax
    <2>5. ForkInv(c)'
      BY <2>1 DEF ForkInv, Proofs
    <2> QED
      BY <2>4, <2>5
  <1> QED
    BY <1>5, <1>7, <1>9, <1>10, <1>11, <1>12, <1>13 DEF Prove

\* A call that another goes on beside, or that dies.
LEMMA CallKept ==
    ASSUME Steady, NEW c, CallInv(c), UNCHANGED <<asked, seen[c], shown[c]>>,
           \/ step'[c] = step[c] /\ Fork(c)' = Fork(c)
           \/ step'[c] \in {"failed", "crashed"},
           HasPassed(c)' => HasPassed(c)
    PROVE  CallInv(c)'
  <1>1. step'[c] \in Staging => step[c] \in Staging
    BY DEF Staging, Proofs
  <1>2. step[c] \in Staging \/ HasPassed(c) => seen'[c] \in Sights'
    BY SightKept DEF CallInv
  <1>3. ASSUME c \in asked, Alone(c) PROVE ForkInv(c)'
    <2>1. ForkInv(c) /\ (step[c] \in Proofs => seen[c] \in Sights)
      BY <1>3 DEF CallInv, Staging
    <2>2. step'[c] \in {"failed", "crashed"} => ForkInv(c)'
      BY DEF ForkInv, Proofs
    <2> QED
      BY <2>1, <2>2, ForkKept
  <1>4. ASSUME c \in asked, Alone(c), HasPassed(c)' PROVE Executable(c)'
    BY <1>4, SightKept DEF CallInv
  <1>5. Alone(c)' = Alone(c)
    BY DEF Alone
  <1> QED
    BY <1>1, <1>2, <1>3, <1>4, <1>5 DEF CallInv

\* Where one call goes on, another that is alone on its port keeps its fork.
LEMMA OtherKept ==
    ASSUME ChainInv, PackagesInv, PassedInv, UNCHANGED chainVars,
           NEW c \in Previews, NEW d \in asked, c # d,
           \/ PrepareSafeMarketPreview(d) \/ Prove(d)
           \/ StageManifest(d) \/ MoveOutput(d) \/ Publish(d) \/ PublishFails(d)
           \/ Restore(d) \/ RestoreFails(d) \/ RemoveBackup(d) \/ PreviewFails(d)
    PROVE  CallInv(c)'
  <1>1. Steady
    BY ChainKept
  <1>2. HasPassed(c)' => HasPassed(c)
    BY OnlyProofPasses
  <1>3. /\ step'[c] = step[c] /\ seen'[c] = seen[c] /\ shown'[c] = shown[c] /\ asked' = asked
        /\ PortOf[d] # PortOf[c] => Fork(c)' = Fork(c)
    <2>1. \E s : Goto(d, s)
      BY DEF Prove, SpawnFork, AssertPinnedForkBlock, AssertNonce, ScheduleBatch, ExecuteBatch,
         Verify, Proving, PrepareSafeMarketPreview, StageManifest, MoveOutput, Publish,
         PublishFails, Restore, RestoreFails, RemoveBackup, PreviewFails
    <2>2. step'[c] = step[c]
      BY <2>1 DEF Goto, PackagesInv, StagingInv, PackageTypes
    <2>3. CASE PrepareSafeMarketPreview(d)
      BY <2>2, <2>3 DEF PrepareSafeMarketPreview, PassedInv, Fork
    <2>4. CASE UNCHANGED <<asked, seen, shown, fork>>
      BY <2>2, <2>4 DEF Fork
    <2>5. ASSUME NEW f, fork' = [fork EXCEPT ![PortOf[d]] = f] \/ fork' = fork,
                 UNCHANGED <<asked, seen>>, shown'[c] = shown[c]
          PROVE  /\ seen'[c] = seen[c] /\ shown'[c] = shown[c] /\ asked' = asked
                 /\ PortOf[d] # PortOf[c] => Fork(c)' = Fork(c)
      BY <2>5 DEF Fork, PassedInv
    <2>6. ASSUME Prove(d) PROVE shown'[c] = shown[c]
      <3>1. Verify(d) => shown'[c] = shown[c]
        BY DEF Verify, PassedInv
      <3> QED
        BY <2>6, <3>1 DEF Prove, SpawnFork, AssertPinnedForkBlock, AssertNonce, ScheduleBatch,
           ExecuteBatch, Proving
    <2>7. CASE Prove(d)
      BY <2>2, <2>4, <2>5, <2>6, <2>7
         DEF Prove, SpawnFork, AssertPinnedForkBlock, AssertNonce, ScheduleBatch, ExecuteBatch,
             Verify, Proving
    <2>8. CASE PreviewFails(d)
      BY <2>2, <2>4, <2>5, <2>8 DEF PreviewFails
    <2>9. CASE \/ StageManifest(d) \/ MoveOutput(d) \/ Publish(d) \/ PublishFails(d)
               \/ Restore(d) \/ RestoreFails(d) \/ RemoveBackup(d)
      BY <2>2, <2>4, <2>9 DEF StageManifest, MoveOutput, Publish, PublishFails, Restore,
         RestoreFails, RemoveBackup
    <2> QED
      BY <2>3, <2>7, <2>8, <2>9
  <1>4. CallInv(c)
    BY DEF PassedInv
  <1>5. CASE PortOf[d] # PortOf[c]
    BY <1>1, <1>2, <1>3, <1>4, <1>5, CallKept
  <1>6. CASE PortOf[d] = PortOf[c]
    <2>1. ~Alone(c) /\ ~Alone(c)'
      BY <1>3, <1>6 DEF Alone
    <2>2. HasPassed(c)' \/ step'[c] \in Staging => seen'[c] \in Sights'
      BY <1>1, <1>2, <1>3, <1>4, SightKept DEF CallInv
    <2> QED
      BY <2>1, <2>2 DEF CallInv
  <1> QED
    BY <1>5, <1>6

\* What a call does itself.
LEMMA OwnStep ==
    ASSUME ChainInv, PackagesInv, PassedInv, UNCHANGED chainVars, NEW c \in asked,
           \/ PrepareSafeMarketPreview(c) \/ Prove(c)
           \/ StageManifest(c) \/ MoveOutput(c) \/ Publish(c) \/ PublishFails(c)
           \/ Restore(c) \/ RestoreFails(c) \/ RemoveBackup(c) \/ PreviewFails(c)
    PROVE  CallInv(c)'
  <1>1. c \in Previews /\ CallInv(c) /\ PackageTypes /\ Steady
    BY ChainKept DEF PassedInv, PackagesInv, StagingInv, PackageTypes
  <1>2. ASSUME NEW s, Goto(c, s) PROVE step'[c] = s
    BY <1>1, <1>2 DEF Goto, PackageTypes
  <1>3. CASE PrepareSafeMarketPreview(c)
    <2>1. /\ step[c] = "idle" /\ step'[c] \in {"fork", "manifest"} /\ asked' = asked
          /\ fork' = fork
      BY <1>2, <1>3 DEF PrepareSafeMarketPreview
    <2>2. ~HasPassed(c)'
      BY <1>1, <1>3, <2>1, UnprovenPasses, OnlyProofPasses
    <2>3. seen'[c] \in Sights'
      <3>1. PICK s \in Snapshots : seen' = [seen EXCEPT ![c] = s]
        BY <1>3 DEF PrepareSafeMarketPreview
      <3>2. s \in Sights
        BY DEF Snapshots, Sights
      <3>3. blocks' = blocks
        BY DEF chainVars
      <3> QED
        BY <1>1, <3>1, <3>2, <3>3 DEF PassedInv, Sights
    <2>4. ASSUME Alone(c)' PROVE ForkInv(c)'
      <3>1. Fork(c) = Nobody
        BY <1>1, <2>1, <2>4 DEF CallInv, Alone, ForkInv
      <3>2. Fork(c)' = Nobody
        BY <2>1, <3>1 DEF Fork
      <3> QED
        BY <2>1, <3>2 DEF ForkInv, Proofs
    <2> QED
      BY <2>2, <2>3, <2>4 DEF CallInv
  <1>4. CASE Prove(c)
    <2>1. /\ UNCHANGED <<asked, seen>> /\ step[c] \in Staging
          /\ Verify(c) => step'[c] = "manifest"
      BY <1>2, <1>4 DEF Prove, SpawnFork, AssertPinnedForkBlock, AssertNonce, ScheduleBatch,
         ExecuteBatch, Verify, Proving, Staging, Proofs
    <2>2. seen[c] \in Sights /\ seen'[c] = seen[c]
      BY <1>1, <2>1 DEF CallInv
    <2>3. /\ ~Verify(c) => shown' = shown
          /\ Alone(c)' = Alone(c) /\ seen'[c] \in Sights'
      <3>1. ~Verify(c) => shown' = shown
        BY <1>4 DEF Prove, SpawnFork, AssertPinnedForkBlock, AssertNonce, ScheduleBatch,
           ExecuteBatch, Proving
      <3>2. blocks' = blocks
        BY DEF chainVars
      <3> QED
        BY <2>1, <2>2, <3>1, <3>2 DEF Alone, Sights
    <2>4. ~Verify(c) => Executable(c)' = Executable(c)
      BY <1>1, <2>2, <2>3, SightKept
    <2>7. Alone(c) => ForkInv(c)' /\ (Verify(c) => Executable(c)')
      BY <1>1, <1>4, ProofLearns
    <2>5. ~Verify(c) => (HasPassed(c)' => HasPassed(c))
      BY <1>1, <1>4, OnlyProofPasses
    <2>6. Alone(c) /\ HasPassed(c) => Executable(c)
      BY <1>1 DEF CallInv
    <2> QED
      BY <2>1, <2>3, <2>4, <2>5, <2>6, <2>7 DEF CallInv
  <1>5. CASE \/ StageManifest(c) \/ MoveOutput(c) \/ Publish(c) \/ PublishFails(c)
             \/ Restore(c) \/ RestoreFails(c) \/ RemoveBackup(c) \/ PreviewFails(c)
    <2>1. /\ UNCHANGED <<asked, seen, shown>>
          /\ step'[c] \notin Proofs \cup {"idle", "fork"}
          /\ step'[c] \in Staging => step[c] \in Staging
      BY <1>2, <1>5 DEF StageManifest, MoveOutput, Publish, PublishFails, Restore, RestoreFails,
         RemoveBackup, PreviewFails, Proofs, Staging
    <2>2. HasPassed(c)' => HasPassed(c)
      BY <1>1, <1>5, OnlyProofPasses
    <2>3. HasPassed(c)' \/ step'[c] \in Staging => seen[c] \in Sights
      BY <1>1, <2>1, <2>2 DEF CallInv
    <2>4. seen[c] \in Sights => seen'[c] \in Sights' /\ Executable(c)' = Executable(c)
      BY <1>1, <2>1, SightKept
    <2>5. ForkInv(c)' /\ Alone(c)' = Alone(c)
      BY <2>1 DEF ForkInv, Alone
    <2>6. Alone(c) /\ HasPassed(c) => Executable(c)
      BY <1>1 DEF CallInv
    <2> QED
      BY <2>2, <2>3, <2>4, <2>5, <2>6 DEF CallInv
  <1> QED
    BY <1>3, <1>4, <1>5

\* The invariant of the proofs is kept.
LEMMA PassedStep == ChainInv /\ PackagesInv /\ PassedInv /\ [Next]_vars => PassedInv'
  <1> SUFFICES ASSUME ChainInv, PackagesInv, PassedInv, [Next]_vars PROVE PassedInv'
    OBVIOUS
  <1>1. CASE UNCHANGED packageVars
    <2>1. UNCHANGED <<asked, step, seen, stage, fork, shown, output, backup>>
      BY <1>1 DEF packageVars
    <2>2. \A c : HasPassed(c)' => HasPassed(c)
      BY <2>1 DEF HasPassed, IsPassed
    <2>3. \A c : Fork(c)' = Fork(c)
      BY <2>1 DEF Fork
    <2>4. ASSUME NEW c \in Previews PROVE CallInv(c)'
      BY <2>1, <2>2, <2>3, ChainAlways, CallKept DEF PassedInv
    <2> QED
      BY <2>1, <2>4 DEF PassedInv
  <1>2. ASSUME UNCHANGED chainVars, NEW port, Crash(port) PROVE PassedInv'
    <2>1. UNCHANGED <<asked, seen, stage, fork, shown, output, backup>>
      BY <1>2 DEF Crash
    <2>2. ASSUME NEW c \in Previews PROVE CallInv(c)'
      <3>1. step'[c] = step[c] \/ step'[c] = "crashed"
        BY <1>2 DEF Crash
      <3>2. (HasPassed(c)' => HasPassed(c)) /\ Fork(c)' = Fork(c)
        BY <2>1 DEF HasPassed, IsPassed, Fork
      <3> QED
        BY <2>1, <3>1, <3>2, ChainAlways, CallKept DEF PassedInv
    <2> QED
      BY <2>1, <2>2 DEF PassedInv
  <1>3. ASSUME UNCHANGED chainVars, NEW d \in asked,
               \/ PrepareSafeMarketPreview(d) \/ Prove(d)
               \/ StageManifest(d) \/ MoveOutput(d) \/ Publish(d) \/ PublishFails(d)
               \/ Restore(d) \/ RestoreFails(d) \/ RemoveBackup(d) \/ PreviewFails(d)
        PROVE  PassedInv'
    <2>1. \A c \in Previews : CallInv(c)'
      BY <1>3, OwnStep, OtherKept
    <2>2. DOMAIN seen' = DOMAIN seen /\ DOMAIN shown' = DOMAIN shown /\ DOMAIN fork' = DOMAIN fork
      BY <1>3 DEF Prove, SpawnFork, AssertPinnedForkBlock, AssertNonce, ScheduleBatch,
         ExecuteBatch, Verify, Proving, PrepareSafeMarketPreview, StageManifest, MoveOutput,
         Publish, PublishFails, Restore, RestoreFails, RemoveBackup, PreviewFails
    <2> QED
      BY <2>1, <2>2 DEF PassedInv
  <1>4. CASE Package
    BY <1>2, <1>3, <1>4 DEF Package, PackageNext
  <1>5. CASE Chain \/ Deployment \/ UNCHANGED vars
    BY <1>1, <1>5 DEF Chain, Deployment, vars
  <1> QED
    BY <1>4, <1>5 DEF Next

\* Nothing has been asked for or proved at first.
LEMMA PassedInitially == Init => PassedInv
  <1> SUFFICES ASSUME Init PROVE PassedInv
    OBVIOUS
  <1>1. PackagesInv
    BY PackagesInitially
  <1>2. /\ step = [c \in Previews |-> "idle"] /\ seen = [c \in Previews |-> Unseen]
        /\ fork = [p \in {PortOf[c] : c \in Previews} |-> Nobody]
        /\ shown = [c \in Previews |-> Nobody]
    BY DEF Init, PackageInit
  <1>3. ASSUME NEW c \in Previews PROVE CallInv(c)
    <2>1. step[c] = "idle" /\ Fork(c) = Nobody
      BY <1>2 DEF Fork
    <2>2. ~HasPassed(c)
      BY <1>1, <2>1, UnprovenPasses
    <2> QED
      BY <2>1, <2>2 DEF CallInv, ForkInv, Staging, Proofs
  <1> QED
    BY <1>2, <1>3 DEF PassedInv

\* A package whose proof ran on a fork of its own can be executed upon what the fork
\* showed of the block that it names, whatever the fork's provider says and though each
\* part of the snapshot was read by the number of a block that may have been replaced
\* (prepareSafeMarketPreview, proveSafeMarketPackage).
THEOREM PassedPackagesExecute == Spec => []PassedCanExecute
  <1>1. PackagesInv /\ PassedInv => PassedCanExecute
    <2> SUFFICES ASSUME PackagesInv, PassedInv, NEW c \in asked,
                        \E package \in {stage[c], output} :
                            package.of = c /\ package.proof = "passed",
                        Alone(c)
                 PROVE  Executable(c)
      BY DEF PassedCanExecute, Executable, Upholds, Alone
    <2>1. c \in Previews
      BY DEF PackagesInv, StagingInv, PackageTypes
    <2>2. HasPassed(c)
      BY DEF HasPassed, IsPassed
    <2> QED
      BY <2>1, <2>2 DEF PassedInv, CallInv
  <1>2. QED
    BY <1>1, ChainInitially, ChainAlways, PackagesInitially, PackagesStep, PassedInitially,
       PassedStep, PTL DEF Spec
=============================================================================
