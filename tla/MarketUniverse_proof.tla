-------------------------- MODULE MarketUniverse_proof -------------------------
(***************************************************************************)
(* Proofs about MarketUniverse: what is verified is true of one block,     *)
(* whatever one administration answers, and a complete universe misses no  *)
(* material pool, for any pools, providers and bounds.                     *)
(***************************************************************************)
EXTENDS MarketUniverse, TLAPS

-----------------------------------------------------------------------------
(* The list.                                                               *)

\* While pages are read, what was listed all along up to the cursor is in.
ReadSoFar ==
    reading = "waiting" =>
        /\ pages < MaxPages
        /\ \A i \in allAlong : from < i /\ i <= cursor => i \in items

ListingInv == ListingTypeOK /\ ReadSoFar /\ CompleteListing

LEMMA PlacesAreNumbers == Places \subseteq Nat /\ Items \subseteq Nat \ {0}
BY ListingConstants DEF Places

LEMMA ListingStarts == ListingInit => ListingInv
BY ListingConstants, PlacesAreNumbers
   DEF ListingInit, ListingInv, ListingTypeOK, ReadSoFar, CompleteListing, Places

\* A page holds what is listed behind the cursor up to its own; the last page
\* all of it.
LEMMA PageHolds ==
    ASSUME ListingTypeOK, NEW page \in PageFrom(cursor)
    PROVE  /\ page.items \subseteq Items /\ page.next \in Places
           /\ {i \in listed : cursor < i /\ i <= page.next} \subseteq page.items
           /\ ~page.hasMore => {i \in listed : cursor < i} \subseteq page.items
<1>1. /\ page.items \subseteq listed /\ page.next \in Places
      /\ {i \in listed : cursor < i /\ i <= page.next} \subseteq page.items
      /\ page.hasMore <=> \E i \in listed : i > page.next
  BY DEF PageFrom
<1>2. ASSUME ~page.hasMore, NEW i \in listed, cursor < i
      PROVE  i \in page.items
  <2>1. i \in Nat /\ page.next \in Nat
    BY <1>1, PlacesAreNumbers DEF ListingTypeOK
  <2>2. ~(i > page.next)
    BY <1>1, <1>2
  <2> QED BY <1>1, <1>2, <2>1, <2>2
<1> QED BY <1>1, <1>2 DEF ListingTypeOK

LEMMA ListingKeeps ==
    ASSUME ListingInv, ListingNext
    PROVE  ListingInv'
<1> USE DEF ListingInv
<1> USE ListingConstants, PlacesAreNumbers
<1>1. ASSUME NEW i \in Items, List(i) \/ Delist(i)
      PROVE  ListingInv'
  <2>1. /\ listed' \subseteq Items /\ allAlong' \subseteq listed'
        /\ allAlong' \subseteq allAlong
        /\ UNCHANGED <<reading, from, cursor, seenCursors, pages, items>>
    BY <1>1 DEF List, Delist, ListingTypeOK
  <2>2. ListingTypeOK'
    BY <2>1 DEF ListingTypeOK
  <2>3. ReadSoFar' /\ CompleteListing'
    BY <2>1 DEF ReadSoFar, CompleteListing
  <2> QED BY <2>2, <2>3
<1>2. ASSUME NEW start \in Places, BeginListing(start)
      PROVE  ListingInv'
  <2>1. ListingTypeOK'
    BY <1>2 DEF BeginListing, ListingTypeOK
  <2>2. ReadSoFar'
    <3>1. pages' = 0 /\ from' = start /\ cursor' = start /\ allAlong' \subseteq Nat
      BY <1>2 DEF BeginListing, ListingTypeOK
    <3> QED BY <3>1 DEF ReadSoFar
  <2>3. CompleteListing'
    BY <1>2 DEF BeginListing, CompleteListing
  <2> QED BY <2>1, <2>2, <2>3
<1>3. CASE RefuseRequest
  BY <1>3 DEF RefuseRequest, ListingTypeOK, ReadSoFar, CompleteListing
<1>4. CASE ListingFails
  BY <1>4 DEF ListingFails, ListingTypeOK, ReadSoFar, CompleteListing
<1>5. CASE SourceResponse
  BY <1>5 DEF SourceResponse, ListingTypeOK, ReadSoFar, CompleteListing, StopReasons
<1>6. CASE ProjectionFailure
  BY <1>6 DEF ProjectionFailure, ListingTypeOK, ReadSoFar, CompleteListing, StopReasons
<1>7. CASE PageOverItemBound
  <2>1. PICK page \in PageFrom(cursor) : \E more \in Fitting(page) : items' = items \cup more
    BY <1>7 DEF PageOverItemBound
  <2>2. items' \subseteq Items
    BY <2>1, PageHolds DEF Fitting, ListingTypeOK
  <2>3. /\ reading' = "item-bound" /\ pages' = pages + 1 /\ reading = "waiting"
        /\ UNCHANGED <<listed, allAlong, from, cursor, seenCursors>>
    BY <1>7 DEF PageOverItemBound
  <2>4. ListingTypeOK'
    BY <2>2, <2>3 DEF ListingTypeOK, ReadSoFar, StopReasons
  <2> QED BY <2>3, <2>4 DEF ReadSoFar, CompleteListing
<1>8. CASE LastPage
  <2>1. PICK page \in PageFrom(cursor) : ~page.hasMore /\ items' = items \cup page.items
    BY <1>8 DEF LastPage
  <2>2. page.items \subseteq Items /\ {i \in listed : cursor < i} \subseteq page.items
    BY <2>1, PageHolds
  <2>6. /\ reading' = "complete" /\ pages' = pages + 1 /\ reading = "waiting"
        /\ UNCHANGED <<listed, allAlong, from, cursor, seenCursors>>
    BY <1>8 DEF LastPage
  <2>3. ListingTypeOK'
    <3>1. items' \subseteq Items
      BY <2>1, <2>2 DEF ListingTypeOK
    <3>2. cursor' \in Places
      BY <2>6, <2>1, <2>2 DEF ListingTypeOK
    <3> QED BY <2>6, <3>1, <3>2 DEF ListingTypeOK, ReadSoFar, StopReasons
  <2>4. ReadSoFar'
    BY <1>8 DEF LastPage, ReadSoFar
  <2>5. CompleteListing'
    <3>1. ASSUME NEW i \in allAlong, i > from
          PROVE  i \in items'
      <4>1. i \in Nat /\ cursor \in Nat /\ i \in listed
        BY DEF ListingTypeOK
      <4>2. CASE i <= cursor
        BY <1>8, <2>1, <3>1, <4>1, <4>2 DEF LastPage, ReadSoFar, ListingTypeOK
      <4>3. CASE cursor < i
        BY <2>1, <2>2, <4>1, <4>3
      <4> QED BY <4>1, <4>2, <4>3
    <3> QED BY <1>8, <3>1 DEF LastPage, CompleteListing
  <2> QED BY <2>3, <2>4, <2>5
<1>9. CASE PageWithoutCursor
  <2>1. PICK page \in PageFrom(cursor) : items' = items \cup page.items
    BY <1>9 DEF PageWithoutCursor
  <2>2. items' \subseteq Items
    BY <2>1, PageHolds DEF ListingTypeOK
  <2>3. /\ reading' = "cursor-missing" /\ pages' = pages + 1 /\ reading = "waiting"
        /\ UNCHANGED <<listed, allAlong, from, cursor, seenCursors>>
    BY <1>9 DEF PageWithoutCursor
  <2>4. ListingTypeOK'
    BY <2>2, <2>3 DEF ListingTypeOK, ReadSoFar, StopReasons
  <2> QED BY <2>3, <2>4 DEF ReadSoFar, CompleteListing
<1>10. CASE NextPage
  <2>1. PICK page \in PageFrom(cursor) :
            items' = items \cup page.items /\ cursor' = page.next
    BY <1>10 DEF NextPage
  <2>2. /\ page.items \subseteq Items /\ page.next \in Places
        /\ {i \in listed : cursor < i /\ i <= page.next} \subseteq page.items
    BY <2>1, PageHolds
  <2>6. /\ reading' \in {"page-bound", "cursor-repeated", "waiting"}
        /\ seenCursors' = seenCursors \cup {cursor'}
        /\ pages' = pages + 1 /\ reading = "waiting"
        /\ UNCHANGED <<listed, allAlong, from>>
    BY <1>10 DEF NextPage
  <2>3. ListingTypeOK'
    <3>1. items' \subseteq Items
      BY <2>1, <2>2 DEF ListingTypeOK
    <3>2. cursor' \in Places
      BY <2>6, <2>1, <2>2 DEF ListingTypeOK
    <3> QED BY <2>6, <3>1, <3>2 DEF ListingTypeOK, ReadSoFar, StopReasons
  <2>4. ReadSoFar'
    <3>1. reading' = "waiting" => pages' < MaxPages
      BY <1>10 DEF NextPage, ReadSoFar, ListingTypeOK
    <3>2. ASSUME NEW i \in allAlong, from < i, i <= cursor'
          PROVE  i \in items'
      <4>1. i \in Nat /\ cursor \in Nat /\ i \in listed
        BY DEF ListingTypeOK
      <4>2. CASE i <= cursor
        BY <1>10, <2>1, <3>2, <4>2 DEF NextPage, ReadSoFar
      <4>3. CASE cursor < i
        BY <2>1, <2>2, <3>2, <4>1, <4>3
      <4> QED BY <4>1, <4>2, <4>3
    <3> QED BY <1>10, <3>1, <3>2 DEF NextPage, ReadSoFar
  <2>5. CompleteListing'
    BY <1>10 DEF NextPage, CompleteListing
  <2> QED BY <2>3, <2>4, <2>5
<1> QED BY <1>1, <1>2, <1>3, <1>4, <1>5, <1>6, <1>7, <1>8, <1>9, <1>10 DEF ListingNext

-----------------------------------------------------------------------------
(* The markets.                                                            *)

\* The block of a verified market is one there has been.
BlockKnown ==
    \A p \in Pools : market[p].outcome = "verified" => market[p].block \in DOMAIN blocks

MarketInv == MarketTypeOK /\ BlockKnown /\ VerifiedIsTrue

LEMMA MarketStarts == MarketInit => MarketInv
<1> SUFFICES ASSUME MarketInit PROVE MarketInv
  OBVIOUS
<1>1. PICK paused \in SUBSET Pausable : blocks = <<[number |-> 1, paused |-> paused]>>
  BY DEF MarketInit
<1>2. \A p \in Pools : market[p].outcome = "none"
  BY DEF MarketInit, NoMarket
<1>3. blocks \in Seq([number : Nat, paused : SUBSET Pools]) /\ 1 \in DOMAIN blocks
      /\ blocks[1].number = 1
  BY <1>1, MarketConstants
<1>4. reads \in [HonestProviders -> [Facts -> Reads]]
  BY DEF MarketInit, NoReads, Reads
<1>5. \A h \in HonestProviders, f \in Facts : reads[h][f].step = "none"
  BY DEF MarketInit, NoReads, Unread
<1>6. branch \in Seq(Nat)
      /\ \A n \in DOMAIN branch : branch[n] \in DOMAIN blocks /\ blocks[branch[n]].number = n
  BY <1>3 DEF MarketInit
<1>7. MarketTypeOK
  BY <1>3, <1>4, <1>5, <1>6 DEF MarketInit, MarketTypeOK
<1> QED BY <1>2, <1>7 DEF MarketInv, BlockKnown, VerifiedIsTrue

\* What a step that verifies nothing must keep.
LEMMA MarketStands ==
    ASSUME MarketInv, UNCHANGED <<blocks, market>>
    PROVE  BlockKnown' /\ VerifiedIsTrue'
<1>1. \A f, p, b : Truth(f, p, b)' = Truth(f, p, b)
  BY DEF Truth, Paused
<1> QED BY <1>1 DEF MarketInv, BlockKnown, VerifiedIsTrue

LEMMA ExtendKeeps ==
    ASSUME MarketInv, NEW n \in 1 .. Height, Extend(n)
    PROVE  MarketInv'
<1> USE DEF MarketInv
<1>1. PICK paused \in SUBSET Pausable :
        blocks' = Append(blocks, [number |-> n + 1, paused |-> paused])
  BY DEF Extend
<1>2. /\ branch' = Append(SubSeq(branch, 1, n), Len(blocks) + 1)
      /\ UNCHANGED <<pinned, subject, reads, market>>
  BY DEF Extend
<1>3. /\ blocks \in Seq([number : Nat, paused : SUBSET Pools]) /\ branch \in Seq(Nat)
      /\ n \in Nat \ {0} /\ n <= Len(branch)
  BY DEF MarketTypeOK, Height
<1>4. [number |-> n + 1, paused |-> paused] \in [number : Nat, paused : SUBSET Pools]
  BY <1>3, MarketConstants
<1>5. /\ blocks' \in Seq([number : Nat, paused : SUBSET Pools])
      /\ DOMAIN blocks' = 1 .. Len(blocks) + 1 /\ DOMAIN blocks = 1 .. Len(blocks)
      /\ blocks'[Len(blocks) + 1].number = n + 1
      /\ \A b \in DOMAIN blocks : b \in DOMAIN blocks' /\ blocks'[b] = blocks[b]
  BY <1>1, <1>3, <1>4
<1>6. /\ branch' \in Seq(Nat) /\ DOMAIN branch' = 1 .. n + 1
      /\ branch'[n + 1] = Len(blocks) + 1
      /\ \A m \in 1 .. n : branch'[m] = branch[m] /\ m \in DOMAIN branch
  BY <1>2, <1>3
<1>7. ASSUME NEW m \in DOMAIN branch'
      PROVE  branch'[m] \in DOMAIN blocks' /\ blocks'[branch'[m]].number = m
  <2>1. CASE m = n + 1
    BY <2>1, <1>3, <1>5, <1>6
  <2>2. CASE m \in 1 .. n
    BY <2>2, <1>5, <1>6 DEF MarketTypeOK
  <2> QED BY <1>6, <1>3, <2>1, <2>2
<1>8. MarketTypeOK'
  <2>1. ASSUME NEW h \in HonestProviders, NEW f \in Facts,
               reads[h][f].step = "answered"
        PROVE  /\ reads[h][f].block \in DOMAIN blocks'
               /\ blocks'[reads[h][f].block].number = pinned
    <3>1. /\ reads[h][f].block \in DOMAIN blocks
          /\ blocks[reads[h][f].block].number = pinned
      BY <2>1 DEF MarketTypeOK
    <3> QED BY <3>1, <1>5
  <2> QED BY <1>2, <1>5, <1>6, <1>7, <2>1 DEF MarketTypeOK, NoReads
<1>9. BlockKnown'
  BY <1>2, <1>5 DEF BlockKnown
<1>10. VerifiedIsTrue'
  <2>1. \A f, p : \A b \in DOMAIN blocks : Truth(f, p, b)' = Truth(f, p, b)
    BY <1>5 DEF Truth, Paused
  <2> QED BY <1>2, <1>5, <2>1 DEF VerifiedIsTrue, BlockKnown
<1> QED BY <1>8, <1>9, <1>10

\* Two observations that agree are true, for one of the two is honest.
LEMMA AgreementIsTrue ==
    ASSUME MarketTypeOK, NEW f \in Facts, NEW pair \in Agreements(f)
    PROVE  /\ pair[1].block \in DOMAIN blocks
           /\ blocks[pair[1].block].number = pinned
           /\ pair[1].value = Truth(f, subject, pair[1].block)
<1>1. /\ pair[1] \in Observations(f) /\ pair[2] \in Observations(f)
      /\ Administration[pair[1].provider] # Administration[pair[2].provider]
      /\ pair[1].block = pair[2].block /\ pair[1].value = pair[2].value
  BY DEF Agreements, QuorumCode, Independent, SameBinding
<1>2. ASSUME NEW o \in HonestObservations(f)
      PROVE  /\ o.block \in DOMAIN blocks
             /\ blocks[o.block].number = pinned
             /\ o.value = Truth(f, subject, o.block)
  <2>1. PICK h \in {g \in HonestProviders : reads[g][f].step = "answered"} :
            o = Observed(h, f, reads[h][f].block, Truth(f, subject, reads[h][f].block))
    BY DEF HonestObservations
  <2>2. o.block = reads[h][f].block /\ o.value = Truth(f, subject, reads[h][f].block)
    BY <2>1 DEF Observed
  <2>3. reads[h][f].block \in DOMAIN blocks /\ blocks[reads[h][f].block].number = pinned
    BY <2>1 DEF MarketTypeOK
  <2> QED BY <2>2, <2>3
<1>3. ASSUME NEW o \in DishonestObservations(f)
      PROVE  o.provider \in Providers \ HonestProviders
  BY DEF DishonestObservations, Observed
<1>4. CASE pair[1] \in HonestObservations(f)
  BY <1>2, <1>4
<1>5. CASE pair[2] \in HonestObservations(f)
  BY <1>1, <1>2, <1>5
<1>6. CASE pair[1] \in DishonestObservations(f) /\ pair[2] \in DishonestObservations(f)
  BY <1>1, <1>3, <1>6, MarketConstants
<1> QED BY <1>1, <1>4, <1>5, <1>6 DEF Observations

LEMMA VerifiedKeeps ==
    ASSUME MarketInv, Verified
    PROVE  MarketInv'
<1> USE DEF MarketInv
<1> PICK n \in Cardinality(Facts) .. MaxFactSets :
       \E sets \in [1 .. n -> FactSets], evidence \in Evidence :
        /\ MarketCode(sets, evidence) = "verified"
        /\ market' = [market EXCEPT ![subject] =
              [outcome |-> "verified", number |-> pinned,
               block |-> sets[1].binding.block,
               facts |-> [f \in Facts |-> FactValue(sets, f)]]]
  BY DEF Verified
<1>1. PICK sets \in [1 .. n -> FactSets], evidence \in Evidence :
        /\ MarketCode(sets, evidence) = "verified"
        /\ market' = [market EXCEPT ![subject] =
              [outcome |-> "verified", number |-> pinned,
               block |-> sets[1].binding.block,
               facts |-> [f \in Facts |-> FactValue(sets, f)]]]
  OBVIOUS
<1>2. pinned' = 0 /\ reads' = NoReads /\ UNCHANGED <<blocks, branch, subject>>
  BY DEF Verified
<1> DEFINE block == sets[1].binding.block
           facts == [f \in Facts |-> FactValue(sets, f)]
<1>3. /\ Covers(sets)
      /\ \A i \in 1 .. n : sets[i].binding.block = block
      /\ FactValue(sets, "tuple") = SourceClaim[subject]
      /\ \A f \in Facts : FactValue(sets, f) = Bound(f)
  BY <1>1 DEF MarketCode, SameBlock
<1>4. ASSUME NEW f \in Facts
      PROVE  /\ block \in DOMAIN blocks /\ blocks[block].number = pinned
             /\ FactValue(sets, f) = Truth(f, subject, block)
  <2> DEFINE i == CHOOSE j \in DOMAIN sets : Counts(sets, f, j)
  <2>1. i \in 1 .. n /\ Counts(sets, f, i)
    BY <1>3 DEF Covers
  <2>7. sets[i] \in FactSets
    <3> HIDE DEF i
    <3> QED BY <2>1
  <2>2. PICK g \in Facts : \E pair \in Agreements(g) :
            sets[i] = [field |-> g, binding |-> Binding(pair[1], pair[2])]
    <3> HIDE DEF i
    <3> QED BY <2>7 DEF FactSets
  <2>3. PICK pair \in Agreements(g) :
            sets[i] = [field |-> g, binding |-> Binding(pair[1], pair[2])]
    BY <2>2
  <2>4. g = f /\ sets[i].binding.block = pair[1].block /\ sets[i].binding.value = pair[1].value
    BY <2>1, <2>3 DEF Counts, Binding
  <2>5. pair[1].block = block
    BY <1>3, <2>1, <2>4
  <2>6. FactValue(sets, f) = pair[1].value
    BY <2>4 DEF FactValue
  <2> QED BY <2>3, <2>4, <2>5, <2>6, AgreementIsTrue
<1>5. block \in DOMAIN blocks /\ blocks[block].number = pinned
  BY <1>4 DEF Facts
<1>6. /\ market'[subject].outcome = "verified" /\ market'[subject].number = pinned
      /\ market'[subject].block = block /\ market'[subject].facts = facts
      /\ DOMAIN market' = Pools /\ subject \in Pools
      /\ \A p \in Pools \ {subject} : market'[p] = market[p]
  <2> HIDE DEF block, facts
  <2>1. market' = [market EXCEPT ![subject] =
              [outcome |-> "verified", number |-> pinned, block |-> block,
               facts |-> facts]]
    BY <1>1 DEF block, facts
  <2> QED BY <2>1 DEF MarketTypeOK
<1>7. subject \in DOMAIN Manifest /\ facts = Manifest[subject]
  <2>1. FactValue(sets, "state") # "nothing"
    BY <1>4 DEF Truth, Facts
  <2>2. subject \in DOMAIN Manifest
    BY <1>3, <2>1 DEF Bound, Facts
  <2>3. \A f \in Facts : facts[f] = Manifest[subject][f]
    BY <1>3, <2>2 DEF Bound
  <2>4. Manifest[subject] = [f \in Facts |-> Manifest[subject][f]]
    BY <2>2, MarketConstants
  <2> HIDE DEF facts
  <2>5. facts = [f \in Facts |-> facts[f]]
    BY DEF facts
  <2>6. facts = [f \in Facts |-> Manifest[subject][f]]
    BY <2>3, <2>5, Zenon
  <2> QED BY <2>2, <2>4, <2>6
<1>8. MarketTypeOK'
  <2>1. NoReads \in [HonestProviders -> [Facts -> Reads]]
    BY DEF NoReads, Reads
  <2>2. \A h \in HonestProviders, f \in Facts : NoReads[h][f].step = "none"
    BY DEF NoReads, Unread
  <2> QED BY <1>2, <1>6, <2>1, <2>2 DEF MarketTypeOK
<1>9. BlockKnown'
  BY <1>2, <1>5, <1>6 DEF BlockKnown
<1>10. VerifiedIsTrue'
  <2>1. \A f, p, b : Truth(f, p, b)' = Truth(f, p, b)
    BY <1>2 DEF Truth, Paused
  <2>2. ASSUME NEW p \in Pools, market'[p].outcome = "verified"
        PROVE  /\ blocks[market'[p].block].number = market'[p].number
               /\ \A f \in Facts : market'[p].facts[f] = Truth(f, p, market'[p].block)
               /\ market'[p].facts["tuple"] = SourceClaim[p]
               /\ p \in DOMAIN Manifest /\ market'[p].facts = Manifest[p]
    <3>1. CASE p = subject
      <4>1. \A f \in Facts : facts[f] = Truth(f, subject, block)
        BY <1>4
      <4>2. facts["tuple"] = SourceClaim[subject]
        BY <1>3 DEF Facts
      <4> HIDE DEF block, facts
      <4> QED BY <1>5, <1>6, <1>7, <3>1, <4>1, <4>2
    <3>2. CASE p # subject
      BY <1>6, <2>2, <3>2 DEF VerifiedIsTrue
    <3> QED BY <3>1, <3>2
  <2> QED BY <1>2, <2>1, <2>2 DEF VerifiedIsTrue
<1> QED BY <1>8, <1>9, <1>10
\* The steps of the caller that reads a market.
LEMMA CallsKeep ==
    ASSUME MarketInv,
           \/ \E p \in Pools : pinned = 0 /\ Pin(p)
           \/ \E h \in HonestProviders, f \in Facts :
                Ask(h, f) \/ Answer(h, f) \/ AnswerFails(h, f)
           \/ NotVerified
    PROVE  MarketInv'
<1> USE DEF MarketInv
<1>1. ASSUME NEW p \in Pools, pinned = 0, Pin(p)
      PROVE  MarketTypeOK' /\ UNCHANGED <<blocks, market>>
  <2>1. /\ pinned' \in Nat /\ subject' = p /\ UNCHANGED <<blocks, branch, reads, market>>
    BY <1>1 DEF Pin, MarketTypeOK, Height
  <2>2. \A h \in HonestProviders, f \in Facts : reads[h][f].step = "none"
    BY <1>1 DEF MarketTypeOK, NoReads, Unread
  <2>3. reads = NoReads
    BY <1>1 DEF MarketTypeOK
  <2> QED BY <2>1, <2>2, <2>3 DEF MarketTypeOK, NoReads
<1>2. ASSUME NEW h \in HonestProviders, NEW f \in Facts, NEW read \in Reads,
             reads' = [reads EXCEPT ![h][f] = read],
             pinned # 0, UNCHANGED <<blocks, branch, pinned, subject, market>>,
             read.step = "answered" =>
                 read.block \in DOMAIN blocks /\ blocks[read.block].number = pinned
      PROVE  MarketTypeOK'
  <2>1. reads' \in [HonestProviders -> [Facts -> Reads]]
    BY <1>2 DEF MarketTypeOK
  <2>2. ASSUME NEW g \in HonestProviders, NEW e \in Facts
        PROVE  reads'[g][e] = IF g = h /\ e = f THEN read ELSE reads[g][e]
    BY <1>2 DEF MarketTypeOK
  <2>3. ASSUME NEW g \in HonestProviders, NEW e \in Facts,
               reads'[g][e].step = "answered"
        PROVE  /\ reads'[g][e].block \in DOMAIN blocks
               /\ blocks[reads'[g][e].block].number = pinned
    <3>1. CASE g = h /\ e = f
      BY <1>2, <2>2, <2>3, <3>1
    <3>2. CASE ~(g = h /\ e = f)
      <4>1. reads'[g][e] = reads[g][e]
        BY <2>2, <3>2
      <4> QED BY <2>3, <4>1 DEF MarketTypeOK
    <3> QED BY <3>1, <3>2
  <2> QED BY <1>2, <2>1, <2>3 DEF MarketTypeOK
<1>3. ASSUME NEW h \in HonestProviders, NEW f \in Facts,
             Ask(h, f) \/ Answer(h, f) \/ AnswerFails(h, f)
      PROVE  MarketTypeOK' /\ UNCHANGED <<blocks, market>>
  <2>0. pinned # 0
    <3>1. pinned = 0 => reads[h][f].step = "none"
      BY DEF MarketTypeOK, NoReads, Unread
    <3> QED BY <1>3, <3>1 DEF Ask, Answer, AnswerFails
  <2>1. CASE Ask(h, f)
    <3>1. [step |-> "asked"] \in Reads
      BY DEF Reads
    <3> QED BY <1>2, <2>0, <2>1, <3>1 DEF Ask
  <2>2. CASE Answer(h, f)
    <3>1. branch[pinned] \in DOMAIN blocks /\ blocks[branch[pinned]].number = pinned
          /\ branch[pinned] \in Nat
      BY <2>0, <2>2 DEF Answer, MarketTypeOK, Height
    <3>2. [step |-> "answered", block |-> branch[pinned]] \in Reads
      BY <3>1 DEF Reads
    <3> QED BY <1>2, <2>0, <2>2, <3>1, <3>2 DEF Answer
  <2>3. CASE AnswerFails(h, f)
    <3>1. Unread \in Reads /\ Unread.step # "answered"
      BY DEF Reads, Unread
    <3> QED BY <1>2, <2>0, <2>3, <3>1 DEF AnswerFails
  <2> QED BY <1>3, <2>1, <2>2, <2>3
<1>4. CASE NotVerified
  <2>1. /\ reads' = NoReads /\ pinned' = 0 /\ UNCHANGED <<blocks, branch, subject>>
        /\ market' = [market EXCEPT ![subject] = [outcome |-> "conflict"]]
    BY <1>4 DEF NotVerified
  <2>2. NoReads \in [HonestProviders -> [Facts -> Reads]]
    BY DEF NoReads, Reads
  <2>3. \A h \in HonestProviders, f \in Facts : NoReads[h][f].step = "none"
    BY DEF NoReads, Unread
  <2>4. DOMAIN market' = Pools /\ subject \in Pools
        /\ market'[subject].outcome = "conflict"
        /\ \A p \in Pools \ {subject} : market'[p] = market[p]
    BY <2>1 DEF MarketTypeOK
  <2>5. MarketTypeOK'
    BY <2>1, <2>2, <2>3, <2>4 DEF MarketTypeOK
  <2>6. BlockKnown'
    BY <2>1, <2>4 DEF BlockKnown
  <2>7. \A f, p, b : Truth(f, p, b)' = Truth(f, p, b)
    BY <2>1 DEF Truth, Paused
  <2>8. VerifiedIsTrue'
    BY <2>1, <2>4, <2>7 DEF VerifiedIsTrue
  <2> QED BY <2>5, <2>6, <2>8
<1> QED BY <1>1, <1>3, <1>4, MarketStands

-----------------------------------------------------------------------------
(* The universe.                                                           *)

UniverseInv ==
    /\ ListingInv /\ MarketInv
    /\ CompleteUniverse

LEMMA UniverseStarts == Init => UniverseInv
BY ListingStarts, MarketStarts DEF Init, UniverseInv, NoUniverse, CompleteUniverse

LEMMA UniverseKeeps ==
    ASSUME UniverseInv, [Next]_vars
    PROVE  UniverseInv'
<1> USE DEF UniverseInv
<1>1. CASE Listing
  <2>1. ListingInv'
    BY <1>1, ListingKeeps DEF Listing
  <2>2. UNCHANGED <<blocks, branch, pinned, subject, reads, market>> /\ universe' = NoUniverse
    BY <1>1 DEF Listing, marketVars
  <2>3. MarketInv'
    BY <2>2, MarketStands DEF MarketInv, MarketTypeOK, NoReads
  <2> QED BY <2>1, <2>2, <2>3 DEF CompleteUniverse, NoUniverse
<1>2. CASE Reading
  <2>1. UNCHANGED <<listed, allAlong, reading, from, cursor, seenCursors, pages, items>>
    BY <1>2 DEF Reading, listingVars
  <2>2. universe' = NoUniverse
    BY <1>2 DEF Reading
  <2>3. ListingInv'
    BY <2>1 DEF ListingInv, ListingTypeOK, ReadSoFar, CompleteListing
  <2>4. items \subseteq Pools
    BY UniverseConstants DEF ListingInv, ListingTypeOK
  <2>5. MarketInv'
    BY <1>2, <2>4, ExtendKeeps, CallsKeep, VerifiedKeeps DEF Reading
  <2> QED BY <2>2, <2>3, <2>5 DEF CompleteUniverse, NoUniverse
<1>3. CASE Reconstruct
  <2>1. UNCHANGED <<listed, allAlong, reading, from, cursor, seenCursors, pages, items>>
    BY <1>3 DEF Reconstruct, listingVars
  <2>2. UNCHANGED <<blocks, branch, pinned, subject, reads, market>>
    BY <1>3 DEF Reconstruct, marketVars
  <2>3. ListingInv'
    BY <2>1 DEF ListingInv, ListingTypeOK, ReadSoFar, CompleteListing
  <2>4. MarketInv'
    BY <2>2, MarketStands DEF MarketInv, MarketTypeOK, NoReads
  <2>5. CompleteUniverse'
    <3> SUFFICES ASSUME universe'.outcome = "complete"
                 PROVE  CompleteUniverse'
      BY DEF CompleteUniverse
    <3>1. /\ reading = "complete" /\ from = 0 /\ Unverified = {}
          /\ universe'.markets = {p \in items : market[p].outcome = "verified"}
      BY <1>3 DEF Reconstruct
    <3>2. \A i \in allAlong : i \in items
      BY <3>1, PlacesAreNumbers DEF ListingInv, ListingTypeOK, CompleteListing
    <3>3. allAlong \cap Material \subseteq universe'.markets
      BY <3>1, <3>2 DEF Unverified
    <3>4. \A p \in universe'.markets : p \in Pools /\ market[p].outcome = "verified"
      BY <3>1, UniverseConstants DEF ListingInv, ListingTypeOK
    <3>5. \A p \in universe'.markets :
              market[p].facts["state"] = Truth("state", p, market[p].block)
      BY <3>4 DEF MarketInv, VerifiedIsTrue, Facts
    <3>6. \A p, b : Truth("state", p, b)' = Truth("state", p, b)
      BY <2>2 DEF Truth, Paused
    <3> QED BY <2>1, <2>2, <3>3, <3>5, <3>6 DEF CompleteUniverse
  <2> QED BY <2>3, <2>4, <2>5
<1>4. CASE UNCHANGED vars
  <2>1. UNCHANGED <<listed, allAlong, reading, from, cursor, seenCursors, pages, items>>
    BY <1>4 DEF vars, listingVars
  <2>2. UNCHANGED <<blocks, branch, pinned, subject, reads, market>>
    BY <1>4 DEF vars, marketVars
  <2>3. ListingInv'
    BY <2>1 DEF ListingInv, ListingTypeOK, ReadSoFar, CompleteListing
  <2>4. MarketInv'
    BY <2>2, MarketStands DEF MarketInv, MarketTypeOK, NoReads
  <2>5. universe' = universe
    BY <1>4 DEF vars
  <2>6. \A p, b : Truth("state", p, b)' = Truth("state", p, b)
    BY <2>2 DEF Truth, Paused
  <2> QED BY <2>1, <2>2, <2>3, <2>4, <2>5, <2>6 DEF CompleteUniverse
<1> QED BY <1>1, <1>2, <1>3, <1>4 DEF Next

LEMMA UniverseInvariant == Spec => []UniverseInv
<1>1. Init => UniverseInv
  BY UniverseStarts
<1>2. UniverseInv /\ [Next]_vars => UniverseInv'
  BY UniverseKeeps
<1> QED BY <1>1, <1>2, PTL DEF Spec

\* Types of the list and of the markets: in every state the canonical blocks
\* have the numbers of their places, and an answer is of the number asked for.
THEOREM UniverseTypes == Spec => [](ListingTypeOK /\ MarketTypeOK)
<1>1. UniverseInv => ListingTypeOK /\ MarketTypeOK
  BY DEF UniverseInv, ListingInv, MarketInv
<1> QED BY <1>1, UniverseInvariant, PTL

\* Whatever is handed over to reconstructVerifiedMarket, a verified market is
\* true of one block, if at most one administration is dishonest.
THEOREM VerifiedMarketsAreTrue == Spec => []VerifiedIsTrue
<1>1. UniverseInv => VerifiedIsTrue
  BY DEF UniverseInv, MarketInv
<1> QED BY <1>1, UniverseInvariant, PTL

\* A reading of the list that ends complete has every item that was listed all
\* the time, whatever pages the service cuts the list into.
THEOREM ListingsAreComplete == Spec => []CompleteListing
<1>1. UniverseInv => CompleteListing
  BY DEF UniverseInv, ListingInv
<1> QED BY <1>1, UniverseInvariant, PTL

\* A complete universe misses no material pool of the source, and all its
\* markets are true of the chain.
THEOREM UniversesAreComplete == Spec => []CompleteUniverse
<1>1. UniverseInv => CompleteUniverse
  BY DEF UniverseInv
<1> QED BY <1>1, UniverseInvariant, PTL
=============================================================================
