------------------------- MODULE LimitOrders_proof --------------------------
(***************************************************************************)
(* Proofs about limit orders (packages/operations/src/limit-orders.ts and  *)
(* packages/operations-node/src): the paged reading of a maker's inventory *)
(* keeps the promise of InventoryRead; a maker that makes one order at a   *)
(* time covers all its orders; takers pay the price and can pay it; and what*)
(* is concluded of an order is what the chain bears out. All are for any   *)
(* orders, amounts, pages, bounds and blocks.                              *)
(***************************************************************************)
EXTENDS MakerClient, OrderReconciliation, TakerFills, SumTheorems, SequenceTheorems,
        TLAPS

-----------------------------------------------------------------------------
(* The inventory of a maker.                                               *)

\* What an inventory of S taken from the present head holds.
LiveAmounts(S) == [o \in {p \in S : Live(chain[p])} |-> chain[o].left]

\* What has been observed so far is right as long as the head is the common
\* block; before the first observation there is nothing.
RecordsAreRight ==
    /\ phase = "enumerating" => observed = {}
    /\ observed = {} => commonBlock = NoBlock /\ records = NoRecords
    /\ phase = "observing" =>
        /\ observed # {} => commonBlock # NoBlock
        /\ commonBlock = block => records = LiveAmounts(observed)

IInv == InventoryTypeOK /\ NothingMissed /\ RecordsAreRight

ServiceTypes ==
    /\ position \in [Orders -> 0 .. latest] /\ latest \in Nat
    /\ listed \subseteq {o \in Orders : position[o] > 0}
    /\ terms \in [Orders -> Terms]

HeadTypes == block \in Nat \ {NoBlock} /\ chain \in [Orders -> ChainStates]

EnumerationTypes ==
    /\ pagesRead \in 0 .. MaxPages
    /\ cursor \in 0 .. latest /\ seenCursors \subseteq 1 .. latest
    /\ DOMAIN serviceRecords \subseteq Orders
    /\ serviceRecords \in [DOMAIN serviceRecords -> Terms]
    /\ ~TooManyItems({})

ObservationTypes ==
    /\ commonBlock \in 0 .. block
    /\ observed \subseteq DOMAIN serviceRecords
    /\ DOMAIN records \subseteq observed
    /\ records \in [DOMAIN records -> Nat]

Phases == {"idle", "enumerating", "observing", "complete", "upstream-failed",
           "provider-failed"}

LEMMA TypeParts ==
    InventoryTypeOK <=> /\ ServiceTypes /\ HeadTypes /\ EnumerationTypes /\ ObservationTypes
               /\ phase \in Phases /\ promised \subseteq Orders
BY DEF InventoryTypeOK, ServiceTypes, HeadTypes, EnumerationTypes, ObservationTypes, Phases

LEMMA TypePartsPrimed ==
    ASSUME ServiceTypes', HeadTypes', EnumerationTypes', ObservationTypes',
           phase' \in Phases, promised' \subseteq Orders
    PROVE  InventoryTypeOK'
BY DEF InventoryTypeOK, ServiceTypes, HeadTypes, EnumerationTypes, ObservationTypes, Phases

LEMMA LeftIsNatural == \A state \in ChainStates : state.left \in Nat
BY InventoryRequest DEF ChainStates

LEMMA EnumerationStays ==
    ASSUME ServiceTypes, EnumerationTypes, UNCHANGED enumeration,
           latest' \in Nat, latest' >= latest
    PROVE  EnumerationTypes'
<1>1. /\ pagesRead' = pagesRead /\ cursor' = cursor
      /\ seenCursors' = seenCursors /\ serviceRecords' = serviceRecords
  BY DEF enumeration
<1>2. ~TooManyItems({})'
  BY <1>1, Zenon DEF EnumerationTypes, TooManyItems
<1>3. cursor' \in 0 .. latest' /\ seenCursors' \subseteq 1 .. latest'
  BY <1>1 DEF ServiceTypes, EnumerationTypes
<1> QED BY <1>1, <1>2, <1>3 DEF EnumerationTypes

LEMMA NoItems == Cardinality({}) = 0
BY FS_EmptySet

LEMMA Initially == InventoryInit => IInv
<1> SUFFICES ASSUME InventoryInit PROVE IInv
  OBVIOUS
<1> USE InventoryRequest DEF InventoryInit
<1>1. ServiceTypes
  BY DEF ServiceTypes
<1>2. HeadTypes
  <2>1. \A o \in Orders :
            [left |-> Amount[o], invalidated |-> FALSE, expired |-> FALSE] \in ChainStates
    BY DEF ChainStates
  <2> QED BY <2>1 DEF HeadTypes, NoBlock
<1>3. EnumerationTypes
  <2>1. DOMAIN serviceRecords = {}
    BY DEF NoRecords
  <2>2. ~TooManyItems({})
    <3>1. DOMAIN serviceRecords \cup {} = {}
      BY <2>1
    <3> QED BY <3>1, NoItems DEF TooManyItems
  <2>3. serviceRecords \in [DOMAIN serviceRecords -> Terms]
    BY <2>1 DEF NoRecords
  <2> QED BY <2>1, <2>2, <2>3 DEF EnumerationTypes
<1>4. ObservationTypes
  BY DEF ObservationTypes, NoRecords, NoBlock
<1>5. NothingMissed /\ RecordsAreRight
  BY DEF NothingMissed, RecordsAreRight
<1> QED BY <1>1, <1>2, <1>3, <1>4, <1>5, TypeParts DEF IInv, Phases

-----------------------------------------------------------------------------
(* The steps of the service and the chain.                                 *)

LEMMA AcceptStep ==
    ASSUME IInv, NEW o \in Orders, Accept(o)
    PROVE  IInv'
<1> USE DEF IInv, Accept, head, enumeration, observation
<1>1. ServiceTypes'
  BY DEF InventoryTypeOK, ServiceTypes
<1>2. EnumerationTypes'
  <2>1. UNCHANGED enumeration /\ latest' \in Nat /\ latest' >= latest
    BY TypeParts DEF ServiceTypes
  <2> QED BY <2>1, TypeParts, EnumerationStays
<1>3. HeadTypes' /\ ObservationTypes'
  BY DEF InventoryTypeOK, HeadTypes, ObservationTypes
<1>4. NothingMissed'
  BY DEF InventoryTypeOK, NothingMissed
<1>5. RecordsAreRight'
  BY DEF RecordsAreRight, LiveAmounts
<1> QED BY <1>1, <1>2, <1>3, <1>4, <1>5, TypePartsPrimed DEF InventoryTypeOK, Phases

LEMMA DropStep ==
    ASSUME IInv, NEW o \in Orders, Drop(o)
    PROVE  IInv'
<1> USE DEF IInv, Drop, head, enumeration, observation
<1>1. ServiceTypes'
  BY DEF InventoryTypeOK, ServiceTypes
<1>2. EnumerationTypes' /\ HeadTypes' /\ ObservationTypes'
  <2>1. UNCHANGED enumeration /\ latest' \in Nat /\ latest' >= latest
    BY TypeParts DEF ServiceTypes
  <2>2. EnumerationTypes'
    BY <2>1, TypeParts, EnumerationStays
  <2> QED BY <2>2, TypeParts DEF HeadTypes, ObservationTypes
<1>3. promised' \subseteq promised /\ (phase = "enumerating" => o \notin promised')
  OBVIOUS
<1>4. NothingMissed'
  BY <1>3 DEF InventoryTypeOK, NothingMissed
<1>5. RecordsAreRight'
  BY DEF RecordsAreRight, LiveAmounts
<1> QED BY <1>1, <1>2, <1>3, <1>4, <1>5, TypePartsPrimed DEF InventoryTypeOK, Phases

LEMMA ReindexStep ==
    ASSUME IInv, NEW o \in Orders, Reindex(o)
    PROVE  IInv'
<1> USE DEF IInv, Reindex, head, enumeration, observation
<1>1. ServiceTypes'
  BY DEF InventoryTypeOK, ServiceTypes
<1>2. EnumerationTypes' /\ HeadTypes' /\ ObservationTypes'
  <2>1. UNCHANGED enumeration /\ latest' \in Nat /\ latest' >= latest
    BY TypeParts DEF ServiceTypes
  <2>2. EnumerationTypes'
    BY <2>1, TypeParts, EnumerationStays
  <2> QED BY <2>2, TypeParts DEF HeadTypes, ObservationTypes
<1>3. NothingMissed' /\ RecordsAreRight'
  BY DEF NothingMissed, RecordsAreRight, LiveAmounts
<1> QED BY <1>1, <1>2, <1>3, TypePartsPrimed DEF InventoryTypeOK, Phases

LEMMA NewHeadStep ==
    ASSUME IInv, NEW o \in Orders, NewHead(o)
    PROVE  IInv'
<1> USE DEF IInv, NewHead, service, enumeration, observation
<1>1. HeadTypes'
  BY DEF InventoryTypeOK, HeadTypes, NoBlock
<1>2. ServiceTypes' /\ EnumerationTypes'
  <2>1. UNCHANGED enumeration /\ latest' \in Nat /\ latest' >= latest
    BY TypeParts DEF ServiceTypes
  <2>2. EnumerationTypes'
    BY <2>1, TypeParts, EnumerationStays
  <2> QED BY <2>2, TypeParts DEF ServiceTypes
<1>3. ObservationTypes'
  <2>1. commonBlock' \in 0 .. block'
    BY DEF InventoryTypeOK, NoBlock
  <2> QED BY <2>1 DEF InventoryTypeOK, ObservationTypes
<1>4. NothingMissed'
  BY DEF NothingMissed
<1>5. commonBlock' # block'
  BY DEF InventoryTypeOK, NoBlock
<1>6. RecordsAreRight'
  BY <1>5 DEF RecordsAreRight
<1> QED BY <1>1, <1>2, <1>3, <1>4, <1>6, TypePartsPrimed DEF InventoryTypeOK, Phases

-----------------------------------------------------------------------------
(* The steps of read().                                                    *)

LEMMA InventoryBegins ==
    ASSUME IInv, Begin
    PROVE  IInv'
<1> USE DEF IInv, Begin, service, head
<1>1. ServiceTypes' /\ HeadTypes'
  BY DEF InventoryTypeOK, ServiceTypes, HeadTypes
<1>2. EnumerationTypes'
  <2>1. DOMAIN serviceRecords' = {}
    BY DEF NoRecords
  <2>2. ~TooManyItems({})'
    <3>1. DOMAIN serviceRecords' \cup {} = {}
      BY <2>1
    <3> QED BY <3>1, NoItems, InventoryRequest DEF TooManyItems
  <2>3. serviceRecords' \in [DOMAIN serviceRecords' -> Terms]
    BY <2>1 DEF NoRecords
  <2>4. pagesRead' \in 0 .. MaxPages /\ cursor' \in 0 .. latest'
    BY InventoryRequest DEF InventoryTypeOK
  <2> QED BY <2>1, <2>2, <2>3, <2>4 DEF EnumerationTypes
<1>3. ObservationTypes'
  BY DEF ObservationTypes, NoRecords, NoBlock, InventoryTypeOK
<1>4. NothingMissed' /\ RecordsAreRight'
  BY DEF InventoryTypeOK, NothingMissed, RecordsAreRight
<1>5. phase' \in Phases /\ promised' \subseteq Orders
  BY DEF InventoryTypeOK, Phases
<1> QED BY <1>1, <1>2, <1>3, <1>4, <1>5, TypePartsPrimed

LEMMA FailStep ==
    ASSUME IInv, EnumerationFails \/ ObservationFails
    PROVE  IInv'
<1> USE DEF IInv, EnumerationFails, ObservationFails, service, head, observation
<1>1. /\ UNCHANGED <<service, head, enumeration, observation, promised>>
      /\ phase' \in {"upstream-failed", "provider-failed"}
  OBVIOUS
<1>2. ServiceTypes' /\ HeadTypes'
  BY <1>1 DEF InventoryTypeOK, ServiceTypes, HeadTypes
<1>3. EnumerationTypes'
  <2>1. UNCHANGED enumeration /\ latest' \in Nat /\ latest' >= latest
    BY <1>1 DEF InventoryTypeOK
  <2> QED BY <2>1, TypeParts, EnumerationStays
<1>4. ObservationTypes'
  BY <1>1, TypeParts DEF ObservationTypes, enumeration
<1>5. NothingMissed' /\ RecordsAreRight'
  BY <1>1 DEF NothingMissed, RecordsAreRight
<1>6. phase' \in Phases /\ promised' \subseteq Orders
  BY <1>1 DEF InventoryTypeOK, Phases
<1> QED BY <1>2, <1>3, <1>4, <1>5, <1>6, TypePartsPrimed

LEMMA ItemsTaken ==
    ASSUME InventoryTypeOK, NEW items \in SUBSET Orders, ~TooManyItems(items), TakeItems(items)
    PROVE  /\ DOMAIN serviceRecords' = DOMAIN serviceRecords \cup items
           /\ serviceRecords' \in [DOMAIN serviceRecords' -> Terms]
           /\ ~TooManyItems({})'
<1>1. DOMAIN serviceRecords' = DOMAIN serviceRecords \cup items
  BY DEF TakeItems
<1>2. serviceRecords' \in [DOMAIN serviceRecords' -> Terms]
  <2>1. \A o \in DOMAIN serviceRecords \cup items :
            (IF o \in items THEN terms[o] ELSE serviceRecords[o]) \in Terms
    BY DEF InventoryTypeOK
  <2> QED BY <1>1, <2>1 DEF TakeItems
<1>3. ~TooManyItems({})'
  <2>1. DOMAIN serviceRecords' \cup {} = DOMAIN serviceRecords \cup items
    BY <1>1
  <2> QED BY <2>1 DEF TooManyItems
<1> QED BY <1>1, <1>2, <1>3

LEMMA ReadPageStep ==
    ASSUME IInv, ReadPage
    PROVE  IInv'
<1>1. PICK from \in 0 .. cursor : \E next \in from + 1 .. latest :
        LET items == Page(from, next) IN
        IF Conflicting(items) \/ TooManyItems(items) \/ next \in seenCursors
        THEN EnumerationFails
        ELSE /\ pagesRead' = pagesRead + 1
             /\ TakeItems(items)
             /\ cursor' = next
             /\ seenCursors' = seenCursors \cup {next}
             /\ UNCHANGED <<service, head, phase, observation, promised>>
  BY DEF ReadPage
<1>2. PICK next \in from + 1 .. latest :
        LET items == Page(from, next) IN
        IF Conflicting(items) \/ TooManyItems(items) \/ next \in seenCursors
        THEN EnumerationFails
        ELSE /\ pagesRead' = pagesRead + 1
             /\ TakeItems(items)
             /\ cursor' = next
             /\ seenCursors' = seenCursors \cup {next}
             /\ UNCHANGED <<service, head, phase, observation, promised>>
  BY <1>1
<1> DEFINE items == Page(from, next)
<1>3. CASE Conflicting(items) \/ TooManyItems(items) \/ next \in seenCursors
  BY <1>2, <1>3, FailStep
<1>4. CASE ~(Conflicting(items) \/ TooManyItems(items) \/ next \in seenCursors)
  <2>1. /\ pagesRead' = pagesRead + 1
        /\ TakeItems(items) /\ ~TooManyItems(items)
        /\ cursor' = next
        /\ seenCursors' = seenCursors \cup {next}
        /\ UNCHANGED <<service, head, phase, observation, promised>>
    BY <1>2, <1>4
  <2>2. phase = "enumerating" /\ pagesRead < MaxPages
    BY InventoryRequest DEF ReadPage, TooManyPages, IInv, InventoryTypeOK
  <2>3. from \in Int /\ next \in Int /\ latest \in Int /\ cursor \in Int
    BY DEF IInv, InventoryTypeOK
  <2>4. items \in SUBSET Orders
    BY DEF IInv, InventoryTypeOK, Page
  <2>5. /\ DOMAIN serviceRecords' = DOMAIN serviceRecords \cup items
        /\ serviceRecords' \in [DOMAIN serviceRecords' -> Terms]
        /\ ~TooManyItems({})'
    <3> HIDE DEF items
    <3> QED BY <2>1, <2>4, ItemsTaken DEF IInv
  <2>6. EnumerationTypes'
    <3>1. pagesRead' \in 0 .. MaxPages
      BY <2>1, <2>2, InventoryRequest DEF IInv, InventoryTypeOK
    <3>2. cursor' \in 0 .. latest' /\ seenCursors' \subseteq 1 .. latest'
      BY <2>1, <2>3 DEF IInv, InventoryTypeOK, service
    <3>3. DOMAIN serviceRecords' \subseteq Orders
      BY <2>4, <2>5 DEF IInv, InventoryTypeOK
    <3> QED BY <2>5, <3>1, <3>2, <3>3 DEF EnumerationTypes
  <2>7. ServiceTypes' /\ HeadTypes'
    BY <2>1 DEF IInv, InventoryTypeOK, ServiceTypes, HeadTypes, service, head
  <2>8. ObservationTypes'
    BY <2>1, <2>5 DEF IInv, InventoryTypeOK, ObservationTypes, observation, head
  <2>9. NothingMissed'
    <3> SUFFICES ASSUME NEW o \in promised
                 PROVE  o \in listed /\ (o \in DOMAIN serviceRecords' \/ position[o] > next)
      BY <2>1, <2>2 DEF NothingMissed, service
    <3>1. o \in Orders /\ o \in listed /\ position[o] \in Int
      BY <2>2 DEF IInv, InventoryTypeOK, NothingMissed
    <3>2. o \in DOMAIN serviceRecords \/ position[o] > cursor
      BY <2>2 DEF IInv, NothingMissed
    <3>3. position[o] > cursor /\ position[o] <= next => o \in items
      BY <2>3, <3>1 DEF Page
    <3> QED BY <2>3, <2>5, <3>1, <3>2, <3>3
  <2>10. RecordsAreRight'
    BY <2>1, <2>2 DEF IInv, RecordsAreRight, observation
  <2> QED BY <2>1, <2>6, <2>7, <2>8, <2>9, <2>10, TypePartsPrimed
         DEF IInv, InventoryTypeOK, Phases
<1> QED BY <1>3, <1>4

LEMMA LastPageTaken ==
    ASSUME IInv, phase = "enumerating", pagesRead < MaxPages,
           NEW from \in 0 .. cursor,
           ~TooManyItems(Page(from, latest)),
           pagesRead' = pagesRead + 1,
           TakeItems(Page(from, latest)),
           phase' = IF DOMAIN serviceRecords \cup Page(from, latest) = {}
                    THEN "complete" ELSE "observing",
           UNCHANGED <<service, head, cursor, seenCursors, observation, promised>>
    PROVE  IInv' /\ promised \subseteq DOMAIN serviceRecords'
<1> DEFINE items == Page(from, latest)
<1>1. items \in SUBSET Orders
  BY DEF IInv, InventoryTypeOK, Page
<1>2. /\ DOMAIN serviceRecords' = DOMAIN serviceRecords \cup items
      /\ serviceRecords' \in [DOMAIN serviceRecords' -> Terms]
      /\ ~TooManyItems({})'
  <2>1. ~TooManyItems(items) /\ TakeItems(items)
    OBVIOUS
  <2> HIDE DEF items
  <2> QED BY <1>1, <2>1, ItemsTaken DEF IInv
<1>3. EnumerationTypes'
  <2>1. pagesRead' \in 0 .. MaxPages
    BY InventoryRequest DEF IInv, InventoryTypeOK
  <2>2. cursor' \in 0 .. latest' /\ seenCursors' \subseteq 1 .. latest'
    BY DEF IInv, InventoryTypeOK, service
  <2>3. DOMAIN serviceRecords' \subseteq Orders
    BY <1>1, <1>2 DEF IInv, InventoryTypeOK
  <2> QED BY <1>2, <2>1, <2>2, <2>3 DEF EnumerationTypes
<1>4. ServiceTypes' /\ HeadTypes'
  BY DEF IInv, InventoryTypeOK, ServiceTypes, HeadTypes, service, head
<1>5. ObservationTypes'
  BY <1>2 DEF IInv, InventoryTypeOK, ObservationTypes, observation, head
<1>6. promised \subseteq DOMAIN serviceRecords'
  <2> SUFFICES ASSUME NEW o \in promised PROVE o \in DOMAIN serviceRecords'
    OBVIOUS
  <2>1. /\ o \in Orders /\ o \in listed /\ position[o] \in 0 .. latest
        /\ o \in DOMAIN serviceRecords \/ position[o] > cursor
        /\ cursor \in Nat /\ from \in 0 .. cursor /\ latest \in Nat
    BY DEF IInv, InventoryTypeOK, NothingMissed
  <2>2. position[o] > cursor => o \in items
    BY <2>1 DEF Page
  <2> QED BY <1>2, <2>1, <2>2
<1>7. NothingMissed'
  BY <1>6 DEF NothingMissed
<1>8. RecordsAreRight'
  <2>1. /\ observed' = {} /\ commonBlock' = NoBlock
        /\ block' # NoBlock /\ records' = NoRecords
    BY DEF IInv, RecordsAreRight, observation, head, InventoryTypeOK
  <2> QED BY <2>1 DEF RecordsAreRight
<1> QED BY <1>3, <1>4, <1>5, <1>6, <1>7, <1>8, TypePartsPrimed
       DEF IInv, InventoryTypeOK, Phases

LEMMA ReadLastPageStep ==
    ASSUME IInv, ReadLastPage
    PROVE  IInv' /\ (phase' \in {"observing", "complete"} =>
                        promised \subseteq DOMAIN serviceRecords')
<1>1. PICK from \in 0 .. cursor :
        LET items == Page(from, latest) IN
        IF Conflicting(items) \/ TooManyItems(items)
        THEN EnumerationFails
        ELSE /\ pagesRead' = pagesRead + 1
             /\ TakeItems(items)
             /\ phase' = IF DOMAIN serviceRecords \cup items = {}
                         THEN "complete" ELSE "observing"
             /\ UNCHANGED <<service, head, cursor, seenCursors, observation, promised>>
  BY DEF ReadLastPage
<1>2. phase = "enumerating" /\ pagesRead < MaxPages
  BY InventoryRequest DEF ReadLastPage, TooManyPages, IInv, InventoryTypeOK
<1> DEFINE items == Page(from, latest)
<1>3. CASE Conflicting(items) \/ TooManyItems(items)
  BY <1>1, <1>3, FailStep DEF EnumerationFails
<1>4. CASE ~(Conflicting(items) \/ TooManyItems(items))
  BY <1>1, <1>2, <1>4, LastPageTaken
<1> QED BY <1>3, <1>4

LEMMA RecordAdded ==
    ASSUME IInv, NEW o \in DOMAIN serviceRecords, SameBlock,
           phase = "observing",
           commonBlock' = block, observed' = observed \cup {o},
           records' = [p \in DOMAIN records \cup
                             (IF Live(chain[o]) THEN {o} ELSE {}) |->
                          IF p = o THEN chain[o].left ELSE records[p]],
           UNCHANGED <<service, head, enumeration, promised>>
    PROVE  records' = LiveAmounts(observed') /\ ObservationTypes'
<1>1. records = LiveAmounts(observed)
  <2>1. CASE commonBlock = block
    BY <2>1 DEF IInv, RecordsAreRight
  <2>2. CASE commonBlock = NoBlock
    <3>1. observed = {} /\ records = NoRecords
      BY <2>2 DEF IInv, RecordsAreRight
    <3> QED BY <3>1 DEF LiveAmounts, NoRecords
  <2> QED BY <2>1, <2>2 DEF SameBlock
<1>2. records' = LiveAmounts(observed')
  <2>1. DOMAIN records = {p \in observed : Live(chain[p])}
    BY <1>1 DEF LiveAmounts
  <2>2. DOMAIN records \cup (IF Live(chain[o]) THEN {o} ELSE {})
            = {p \in observed' : Live(chain[p])}
    BY <2>1
  <2>3. \A p \in {q \in observed' : Live(chain[q])} :
            (IF p = o THEN chain[o].left ELSE records[p]) = chain[p].left
    BY <1>1, <2>1 DEF LiveAmounts
  <2> QED BY <2>2, <2>3 DEF LiveAmounts
<1>3. o \in Orders /\ observed' \subseteq Orders /\ observed' \subseteq DOMAIN serviceRecords'
  BY DEF IInv, InventoryTypeOK, enumeration
<1>4. \A p \in observed' : chain[p].left \in Nat
  BY <1>3, LeftIsNatural DEF IInv, InventoryTypeOK
<1>5. DOMAIN records' \subseteq observed' /\ records' \in [DOMAIN records' -> Nat]
  BY <1>2, <1>4 DEF LiveAmounts
<1>6. commonBlock' \in 0 .. block'
  BY DEF IInv, InventoryTypeOK, head, NoBlock
<1> QED BY <1>2, <1>3, <1>5, <1>6 DEF ObservationTypes

LEMMA ObserveStep ==
    ASSUME IInv, NEW o \in Orders, Observe(o)
    PROVE  /\ IInv'
           /\ phase' = "complete" =>
                 records' = LiveAmounts(DOMAIN serviceRecords)
<1>1. phase = "observing" /\ o \in DOMAIN serviceRecords
  BY DEF Observe
<1>2. CASE ~SameBlock
  BY <1>2, FailStep DEF Observe, ObservationFails
<1>3. CASE SameBlock
  <2>1. /\ commonBlock' = block
        /\ observed' = observed \cup {o}
        /\ records' = [p \in DOMAIN records \cup
                             (IF Live(chain[o]) THEN {o} ELSE {}) |->
                          IF p = o THEN chain[o].left ELSE records[p]]
        /\ phase' = IF observed' = DOMAIN serviceRecords
                    THEN "complete" ELSE "observing"
        /\ UNCHANGED <<service, head, enumeration, promised>>
    BY <1>3 DEF Observe
  <2>2. records' = LiveAmounts(observed') /\ ObservationTypes'
    BY <1>1, <1>3, <2>1, RecordAdded
  <2>3. ServiceTypes' /\ HeadTypes'
    BY <2>1 DEF IInv, InventoryTypeOK, ServiceTypes, HeadTypes, service, head
  <2>4. EnumerationTypes'
    <3>1. UNCHANGED enumeration /\ latest' \in Nat /\ latest' >= latest
      BY <2>1 DEF IInv, InventoryTypeOK, service
    <3> QED BY <3>1, TypeParts, EnumerationStays DEF IInv
  <2>5. NothingMissed'
    BY <1>1, <2>1 DEF IInv, NothingMissed, enumeration
  <2>6. RecordsAreRight'
    <3>1. commonBlock' # NoBlock /\ observed' # {} /\ phase' # "enumerating"
      BY <2>1 DEF IInv, InventoryTypeOK
    <3>2. records' = LiveAmounts(observed)'
      BY <2>1, <2>2 DEF LiveAmounts, head
    <3> QED BY <3>1, <3>2 DEF RecordsAreRight
  <2>7. phase' \in Phases /\ promised' \subseteq Orders
    BY <2>1 DEF IInv, InventoryTypeOK, Phases
  <2> QED BY <2>1, <2>2, <2>3, <2>4, <2>5, <2>6, <2>7, TypePartsPrimed DEF IInv
<1> QED BY <1>2, <1>3

LEMMA StutterStep ==
    ASSUME IInv, UNCHANGED inventoryVars
    PROVE  IInv'
<1> USE DEF inventoryVars, service, head, enumeration, observation
<1>1. ServiceTypes' /\ HeadTypes' /\ ObservationTypes'
  BY DEF IInv, InventoryTypeOK, ServiceTypes, HeadTypes, ObservationTypes
<1>2. EnumerationTypes'
  <2>1. UNCHANGED enumeration /\ latest' \in Nat /\ latest' >= latest
    BY DEF IInv, InventoryTypeOK
  <2> QED BY <2>1, TypeParts, EnumerationStays DEF IInv
<1>3. NothingMissed'
  BY DEF IInv, NothingMissed
<1>4. RecordsAreRight'
  BY DEF IInv, RecordsAreRight, LiveAmounts
<1> QED BY <1>1, <1>2, <1>3, <1>4, TypePartsPrimed DEF IInv, InventoryTypeOK, Phases

\* What read() keeps at every step: what it has gathered, promised and observed
\* fits the service's list and the common block.
THEOREM ReadingInvariant == InventorySpec => []IInv
<1>1. IInv /\ [InventoryNext]_inventoryVars => IInv'
  <2> SUFFICES ASSUME IInv, [InventoryNext]_inventoryVars PROVE IInv'
    OBVIOUS
  <2>1. ASSUME NEW o \in Orders, Accept(o) \/ Drop(o) \/ Reindex(o) \/ NewHead(o)
        PROVE  IInv'
    BY <2>1, AcceptStep, DropStep, ReindexStep, NewHeadStep
  <2>2. CASE Begin
    BY <2>2, InventoryBegins
  <2>3. CASE PageBound \/ PageUnusable \/ ObservationUnusable
    BY <2>3, FailStep DEF PageBound, PageUnusable, ObservationUnusable
  <2>4. CASE ReadPage
    BY <2>4, ReadPageStep
  <2>5. CASE ReadLastPage
    BY <2>5, ReadLastPageStep
  <2>6. ASSUME NEW o \in Orders, Observe(o)
        PROVE  IInv'
    BY <2>6, ObserveStep
  <2>7. CASE UNCHANGED inventoryVars
    BY <2>7, StutterStep
  <2> QED BY <2>1, <2>2, <2>3, <2>4, <2>5, <2>6, <2>7 DEF InventoryNext
<1> QED BY <1>1, Initially, PTL DEF InventorySpec

\* Of read(): the bounds of the request hold through any enumeration, and only
\* enumerated orders are observed.
THEOREM InventoryTypes == InventorySpec => []InventoryTypeOK
BY ReadingInvariant, PTL DEF IInv

\* Of the enumeration in read(): an order that stays listed is gathered or
\* still lies ahead of the cursor, whatever the service repeats or reorders.
THEOREM NothingIsMissed == InventorySpec => []NothingMissed
BY ReadingInvariant, PTL DEF IInv

-----------------------------------------------------------------------------
(* The reading keeps the promise of InventoryRead.                         *)

InventoryNow == IF phase = "complete" THEN records ELSE NoRecords

\* What InventoryRead sees does not change.
Unseen ==
    /\ listed' = listed /\ chain' = chain /\ Phase' = Phase
    /\ promised' = promised /\ InventoryNow' = InventoryNow

LEMMA UnseenStutters ==
    ASSUME Unseen
    PROVE  UNCHANGED <<listed, chain, Abstract!reading>>
BY DEF Unseen, Abstract!reading, InventoryNow

LEMMA PhaseIs ==
    /\ phase \in {"enumerating", "observing"} => Phase = "reading"
    /\ phase \in {"upstream-failed", "provider-failed"} => Phase = "failed"
    /\ phase \in {"idle", "complete"} => Phase = phase
BY DEF Phase

LEMMA PhaseIsPrimed ==
    /\ phase' \in {"enumerating", "observing"} => Phase' = "reading"
    /\ phase' \in {"upstream-failed", "provider-failed"} => Phase' = "failed"
    /\ phase' \in {"idle", "complete"} => Phase' = phase'
BY DEF Phase

LEMMA EnvironmentMapped ==
    ASSUME IInv, NEW o \in Orders,
           Accept(o) \/ Drop(o) \/ Reindex(o) \/ NewHead(o), IInv'
    PROVE  Abstract!Environment
<1>1. /\ phase' = phase /\ records' = records
      /\ promised' \subseteq promised
      /\ promised \cap listed' \subseteq promised'
  BY DEF Accept, Drop, Reindex, NewHead, observation
<1>2. Phase' = Phase /\ InventoryNow' = InventoryNow
  BY <1>1 DEF Phase, InventoryNow
<1>3. listed' \in SUBSET Orders /\ chain' \in [Orders -> ChainStates]
  BY DEF IInv, InventoryTypeOK
<1> QED BY <1>1, <1>2, <1>3 DEF Abstract!Environment, InventoryNow

LEMMA BeginMapped ==
    ASSUME IInv, Begin
    PROVE  Abstract!Begin
<1>1. phase \in Phases
  BY DEF IInv, InventoryTypeOK, Phases
<1>2. Phase # "reading" /\ Phase' = "reading"
  BY <1>1, PhaseIs, PhaseIsPrimed DEF Begin, Phases
<1> QED BY <1>2 DEF Begin, service, head, Abstract!Begin, Abstract!NoRecords, NoRecords

LEMMA FailMapped ==
    ASSUME phase \in {"enumerating", "observing"}, EnumerationFails \/ ObservationFails
    PROVE  Abstract!Fail
<1>1. /\ phase' \in {"upstream-failed", "provider-failed"}
      /\ listed' = listed /\ chain' = chain /\ promised' = promised
  BY DEF EnumerationFails, ObservationFails, service, head
<1>2. Phase = "reading" /\ Phase' = "failed"
  BY <1>1, PhaseIs, PhaseIsPrimed
<1>3. InventoryNow' = InventoryNow
  BY <1>1 DEF InventoryNow
<1> QED BY <1>1, <1>2, <1>3 DEF Abstract!Fail, InventoryNow

LEMMA StaysReading ==
    ASSUME phase \in {"enumerating", "observing"}, phase' \in {"enumerating", "observing"},
           listed' = listed, chain' = chain, promised' = promised
    PROVE  Unseen
BY PhaseIs, PhaseIsPrimed DEF Unseen, InventoryNow

LEMMA FinishMapped ==
    ASSUME phase \in {"enumerating", "observing"}, phase' = "complete",
           listed' = listed, chain' = chain, promised' = promised,
           NEW S \in SUBSET Orders, promised \subseteq S, records' = LiveAmounts(S)
    PROVE  Abstract!Finish
<1>1. Phase = "reading" /\ Phase' = "complete"
  BY PhaseIs, PhaseIsPrimed
<1>2. Abstract!LiveAmounts(S) = LiveAmounts(S)
  BY DEF Abstract!LiveAmounts, LiveAmounts, Abstract!Live, Live
<1> QED BY <1>1, <1>2 DEF Abstract!Finish

LEMMA ReadPageMapped ==
    ASSUME IInv, ReadPage
    PROVE  Abstract!Fail \/ Unseen
<1>1. phase = "enumerating"
  BY DEF ReadPage
<1>2. CASE EnumerationFails
  BY <1>1, <1>2, FailMapped
<1>3. CASE ~EnumerationFails
  <2>1. UNCHANGED <<service, head, phase, observation, promised>>
    BY <1>3 DEF ReadPage
  <2> QED BY <1>1, <2>1, StaysReading DEF service, head
<1> QED BY <1>2, <1>3

LEMMA ReadLastPageMapped ==
    ASSUME IInv, ReadLastPage
    PROVE  Abstract!Fail \/ Abstract!Finish \/ Unseen
<1>1. phase = "enumerating"
  BY DEF ReadLastPage
<1>2. CASE EnumerationFails
  BY <1>1, <1>2, FailMapped
<1>3. CASE ~EnumerationFails
  <2>1. PICK from \in 0 .. cursor :
            /\ TakeItems(Page(from, latest))
            /\ phase' = IF DOMAIN serviceRecords \cup Page(from, latest) = {}
                        THEN "complete" ELSE "observing"
            /\ UNCHANGED <<service, head, cursor, seenCursors, observation, promised>>
    BY <1>3 DEF ReadLastPage
  <2>2. listed' = listed /\ chain' = chain /\ promised' = promised
    BY <2>1 DEF service, head
  <2>3. CASE phase' = "observing"
    BY <1>1, <2>2, <2>3, StaysReading
  <2>4. CASE phase' = "complete"
    <3>1. DOMAIN serviceRecords' = {}
      BY <2>1, <2>4 DEF TakeItems
    <3>2. promised \subseteq {}
      BY <2>4, <3>1, ReadLastPageStep
    <3>3. records' = LiveAmounts({})
      <4>1. records' = NoRecords
        BY <1>1, <2>1 DEF IInv, RecordsAreRight, observation
      <4> QED BY <4>1 DEF NoRecords, LiveAmounts
    <3>4. {} \in SUBSET Orders
      OBVIOUS
    <3> QED BY <1>1, <2>2, <2>4, <3>2, <3>3, <3>4, FinishMapped
  <2> QED BY <2>1, <2>3, <2>4
<1> QED BY <1>2, <1>3

LEMMA ObserveMapped ==
    ASSUME IInv, NEW o \in Orders, Observe(o)
    PROVE  Abstract!Fail \/ Abstract!Finish \/ Unseen
<1>1. phase = "observing"
  BY DEF Observe
<1>2. CASE ObservationFails
  BY <1>1, <1>2, FailMapped
<1>3. CASE ~ObservationFails
  <2>1. /\ phase' \in {"observing", "complete"}
        /\ UNCHANGED <<service, head, enumeration, promised>>
    BY <1>3 DEF Observe
  <2>2. listed' = listed /\ chain' = chain /\ promised' = promised
    BY <2>1 DEF service, head
  <2>3. CASE phase' = "observing"
    BY <1>1, <2>2, <2>3, StaysReading
  <2>4. CASE phase' = "complete"
    <3>1. records' = LiveAmounts(DOMAIN serviceRecords)
      BY <2>4, ObserveStep
    <3>2. DOMAIN serviceRecords \in SUBSET Orders /\ promised \subseteq DOMAIN serviceRecords
      BY <1>1 DEF IInv, InventoryTypeOK, NothingMissed
    <3> QED BY <1>1, <2>2, <2>4, <3>1, <3>2, FinishMapped
  <2> QED BY <2>1, <2>3, <2>4
<1> QED BY <1>2, <1>3

\* Of CompleteMakerInventoryAdapter.read: an inventory it calls complete holds
\* the live orders that stayed listed, with the amounts of one block.
THEOREM ReadingKeepsPromise == InventorySpec => ReadsInventory
<1>1. InventoryInit => Abstract!Init
  <2> SUFFICES ASSUME InventoryInit PROVE Abstract!Init
    OBVIOUS
  <2>1. chain \in [Orders -> ChainStates]
    BY Initially DEF IInv, InventoryTypeOK
  <2>2. Phase = "idle"
    BY PhaseIs DEF InventoryInit
  <2> QED BY <2>1, <2>2 DEF InventoryInit, Abstract!Init, Abstract!NoRecords, NoRecords
<1>2. IInv /\ IInv' /\ [InventoryNext]_inventoryVars
          => [Abstract!Next]_<<listed, chain, Abstract!reading>>
  <2> SUFFICES ASSUME IInv, IInv', [InventoryNext]_inventoryVars
               PROVE  Abstract!Next \/ UNCHANGED <<listed, chain, Abstract!reading>>
    OBVIOUS
  <2>1. ASSUME NEW o \in Orders, Accept(o) \/ Drop(o) \/ Reindex(o) \/ NewHead(o)
        PROVE  Abstract!Next
    BY <2>1, EnvironmentMapped DEF Abstract!Next
  <2>2. CASE Begin
    BY <2>2, BeginMapped DEF Abstract!Next
  <2>3. CASE PageBound \/ PageUnusable \/ ObservationUnusable
    BY <2>3, FailMapped DEF PageBound, PageUnusable, ObservationUnusable, Abstract!Next
  <2>4. CASE ReadPage
    BY <2>4, ReadPageMapped, UnseenStutters DEF Abstract!Next
  <2>5. CASE ReadLastPage
    BY <2>5, ReadLastPageMapped, UnseenStutters DEF Abstract!Next
  <2>6. ASSUME NEW o \in Orders, Observe(o)
        PROVE  Abstract!Next \/ UNCHANGED <<listed, chain, Abstract!reading>>
    BY <2>6, ObserveMapped, UnseenStutters DEF Abstract!Next
  <2>7. CASE UNCHANGED inventoryVars
    <3>1. Unseen
      BY <2>7 DEF inventoryVars, service, head, observation, Unseen, Phase, InventoryNow
    <3> QED BY <3>1, UnseenStutters
  <2> QED BY <2>1, <2>2, <2>3, <2>4, <2>5, <2>6, <2>7 DEF InventoryNext
<1> QED BY <1>1, <1>2, ReadingInvariant, PTL DEF InventorySpec, ReadsInventory, Abstract!Spec

-----------------------------------------------------------------------------
(* The orders of a maker.                                                  *)

Steps == {"idle", "closed", "made", "enumerating", "reading", "resetting",
          "approving", "prepared", "signed", "submitted"}

\* The steps of a preparation that has its inventory, and those after the order
\* was not refused.
Informed == {"reading", "resetting", "approving", "prepared", "signed", "submitted"}
Chosen == Informed \ {"reading"}

\* Orders takers can fill now, and what is left of them.
Open == {o \in offered : Fillable(o)}
Owed == SumFunctionOnSet(left, Open)

\* What an inventory says is left of the maker's orders.
Counted(o) == SumFunctionOnSet(inventory[o], DOMAIN inventory[o])

MakerTypes ==
    /\ left \in [MakerOrders -> Nat] /\ \A o \in MakerOrders : left[o] <= MakingAmount[o]
    /\ allowance \in 0 .. MaxUint
    /\ offered \subseteq MakerOrders /\ IsFiniteSet(offered)
    /\ step \in [MakerOrders -> Steps]
    /\ known \in [MakerOrders -> SUBSET MakerOrders]
    /\ DOMAIN inventory = MakerOrders /\ DOMAIN wallet = MakerOrders
    /\ \A o \in MakerOrders :
        /\ IsFiniteSet(known[o])
        /\ IsFiniteSet(DOMAIN inventory[o])
        /\ \A p \in DOMAIN inventory[o] : inventory[o][p] \in Nat
        /\ wallet[o].allowance \in Nat

OneAtATime == \A o, p \in MakerOrders : o # p => Settled(o) \/ Settled(p)

\* An inventory misses nothing that takers can fill.
Misses(o, p) == p \notin DOMAIN inventory[o] \/ inventory[o][p] < left[p]

PreparationInv(o) ==
    /\ step[o] = "enumerating" => offered \subseteq known[o] /\ ~wallet[o].read
    /\ step[o] \in Informed => \A p \in Open : ~Misses(o, p)
    /\ step[o] \in Chosen => ~Refused(o)
    /\ step[o] = "resetting" => ZeroFirst
    /\ step[o] = "reading" /\ wallet[o].read =>
           wallet[o].allowance + Owed <= allowance + Counted(o)
    /\ step[o] \in {"prepared", "signed", "submitted"} =>
           MakingAmount[o] + Owed <= allowance

BeingSet == ZeroFirst /\ \E o \in MakerOrders : step[o] = "approving"

NoncesDiffer ==
    \A o, p \in Open : o # p /\ Regime[o] = "bit" /\ Regime[p] = "bit" => Nonce[o] # Nonce[p]

MakerInv ==
    /\ MakerTypes /\ OneAtATime
    /\ \A o \in MakerOrders : PreparationInv(o)
    /\ BeingSet \/ Owed <= allowance
    /\ NoncesDiffer

-----------------------------------------------------------------------------
\* Sums over the orders that takers can fill are sums of finitely many amounts.
LEMMA OpenIsFinite ==
    ASSUME MakerTypes
    PROVE  /\ Open \subseteq MakerOrders /\ IsFiniteSet(Open) /\ Owed \in Nat
           /\ \A p \in Open : left[p] \in Nat
<1>1. Open \subseteq offered /\ IsFiniteSet(offered) /\ offered \subseteq MakerOrders
  BY DEF MakerTypes, Open
<1>2. IsFiniteSet(Open)
  BY <1>1, FS_Subset
<1>3. \A p \in Open : left[p] \in Nat
  BY <1>1 DEF MakerTypes
<1>4. Owed \in Nat
  BY <1>2, <1>3, SumIsNat DEF Owed
<1> QED
  BY <1>1, <1>2, <1>3, <1>4

\* So after a step.
LEMMA OwedIsNatNext == MakerTypes' => Owed' \in Nat
<1> SUFFICES ASSUME MakerTypes' PROVE Owed' \in Nat
  OBVIOUS
<1>1. Open' \subseteq offered' /\ IsFiniteSet(offered') /\ offered' \subseteq MakerOrders
  BY DEF MakerTypes, Open
<1>2. IsFiniteSet(Open')
  BY <1>1, FS_Subset
<1>3. \A p \in Open' : left'[p] \in Nat
  BY <1>1 DEF MakerTypes
<1>4. SumFunctionOnSet(left', Open') \in Nat
  BY <1>2, <1>3, SumIsNat
<1> QED
  BY <1>4 DEF Owed

\* So is what an inventory counts.
LEMMA CountedIsNat ==
    ASSUME MakerTypes, NEW o \in MakerOrders
    PROVE  Counted(o) \in Nat
  BY SumIsNat DEF MakerTypes, Counted

\* An inventory that misses nothing takers can fill counts all that is owed.
LEMMA OwedIsCounted ==
    ASSUME MakerTypes, NEW o \in MakerOrders, \A p \in Open : ~Misses(o, p)
    PROVE  Owed <= Counted(o)
<1>1. IsFiniteSet(DOMAIN inventory[o]) /\ \A p \in DOMAIN inventory[o] : inventory[o][p] \in Nat
  BY DEF MakerTypes
<1>2. Open \subseteq DOMAIN inventory[o]
  BY DEF Misses
<1>3. \A p \in Open : left[p] \in Nat /\ inventory[o][p] \in Nat
  BY <1>1, <1>2, OpenIsFinite
<1>4. \A p \in Open : left[p] <= inventory[o][p]
  BY <1>3 DEF Misses
<1> QED
  BY <1>1, <1>2, <1>3, <1>4, SumIsMonotone DEF Owed, Counted

\* The allowance a preparation aims at is its order's amount and all that it counted.
LEMMA TargetIsCounted ==
    ASSUME MakerTypes, NEW o \in MakerOrders
    PROVE  /\ TargetAllowance(o) = MakingAmount[o] + Counted(o)
           /\ MakingAmount[o] \in Nat /\ MakingAmount[o] > 0
           /\ Counted(o) \in Nat /\ TargetAllowance(o) \in Nat
<1>1. TargetAllowance(o) = MakingAmount[o] + Counted(o)
  BY DEF TargetAllowance, Counted
<1>2. MakingAmount[o] \in 1 .. MaxUint /\ MaxUint \in Nat
  BY MakerConstants
<1>3. MakingAmount[o] \in Nat /\ MakingAmount[o] > 0
  BY <1>2
<1> QED
  BY <1>1, <1>3, CountedIsNat

\* What a refusal depends on.
LEMMA SameRefusal ==
    ASSUME NEW o \in MakerOrders, inventory'[o] = inventory[o], wallet'[o] = wallet[o]
    PROVE  Refused(o)' <=> Refused(o)
<1>1. TargetAllowance(o)' = TargetAllowance(o)
  BY DEF TargetAllowance
<1>2. IdentityAlreadyUsed(o)' <=> IdentityAlreadyUsed(o)
  BY DEF IdentityAlreadyUsed
<1> QED
  BY <1>1, <1>2 DEF Refused, Overflows

\* What leaves the debt falls with the allowance leaves it covered.
LEMMA Margin ==
    \A a, b, v, w \in Nat : w + a <= v + b /\ v <= a => w <= b
  OBVIOUS

\* So with the order being made.
LEMMA MarginOfOrder ==
    \A a, b, v, w, x \in Nat : w + a <= v + b /\ x + v <= a => x + w <= b
  OBVIOUS

\* So with an allowance that was read before.
LEMMA MarginOfReading ==
    \A a, b, v, w, x, c \in Nat : w + a <= v + b /\ x + v <= a + c => x + w <= b + c
  OBVIOUS

\* Takers, cancellations and time only take away from what is owed, and the
\* allowance shrinks by no more than what is owed does.
Shrinks ==
    /\ step' = step /\ known' = known /\ inventory' = inventory /\ wallet' = wallet
    /\ left' \in [MakerOrders -> Nat] /\ \A p \in MakerOrders : left'[p] <= left[p]
    /\ offered' \subseteq offered /\ \A p \in MakerOrders : Fillable(p)' => Fillable(p)
    /\ allowance' \in Nat /\ allowance' <= allowance
    /\ Owed' + allowance <= Owed + allowance'

\* Whatever reduces what is open no less than the allowance, and touches neither
\* what the client knows nor the identities, keeps the invariant.
LEMMA ShrinkStep == MakerInv /\ Shrinks => MakerInv'
<1> SUFFICES ASSUME MakerInv, Shrinks PROVE MakerInv'
  OBVIOUS
<1> USE DEF MakerInv
<1>0. step' = step /\ known' = known /\ inventory' = inventory /\ wallet' = wallet
  BY DEF Shrinks
<1>1. MaxUint \in Nat /\ MakingAmount \in [MakerOrders -> 1 .. MaxUint]
  BY MakerConstants
<1>2. MakerTypes'
  <2>1. IsFiniteSet(offered') /\ offered' \subseteq MakerOrders
    BY FS_Subset DEF MakerTypes, Shrinks
  <2>2. allowance' \in 0 .. MaxUint
    <3>1. allowance \in 0 .. MaxUint
      BY DEF MakerTypes
    <3>2. MaxUint \in Nat /\ allowance' \in Nat /\ allowance' <= allowance
      BY <1>1 DEF Shrinks
    <3> QED
      BY <3>1, <3>2
  <2>3. ASSUME NEW p \in MakerOrders PROVE left'[p] <= MakingAmount[p]
    <3>1. left'[p] \in Nat /\ left[p] \in Nat /\ MakingAmount[p] \in Nat
      BY <1>1 DEF MakerTypes, Shrinks
    <3>2. left'[p] <= left[p] /\ left[p] <= MakingAmount[p]
      BY DEF MakerTypes, Shrinks
    <3> QED
      BY <3>1, <3>2
  <2> QED
    BY <2>1, <2>2, <2>3, <1>0 DEF MakerTypes, Shrinks
<1>3. Open' \subseteq Open
  BY DEF Open, MakerTypes, Shrinks
<1>4. Owed \in Nat /\ Owed' \in Nat /\ Open \subseteq MakerOrders /\ allowance \in Nat
  <2>1. Owed' \in Nat
    BY <1>2, OwedIsNatNext
  <2>2. MakerTypes
    OBVIOUS
  <2>3. Owed \in Nat /\ Open \subseteq MakerOrders
    BY <2>2, OpenIsFinite
  <2>4. allowance \in Nat
    BY DEF MakerTypes
  <2> QED
    BY <2>1, <2>3, <2>4
<1>9. allowance' \in Nat /\ Owed' + allowance <= Owed + allowance'
  BY DEF Shrinks
<1>5. OneAtATime'
  BY <1>0 DEF OneAtATime, Settled
<1>6. ASSUME NEW o \in MakerOrders PROVE PreparationInv(o)'
  <2>0. PreparationInv(o)
    OBVIOUS
  <2>1. step'[o] \in Informed => \A p \in Open' : ~Misses(o, p)'
    <3> SUFFICES ASSUME step[o] \in Informed, NEW p \in Open' PROVE ~Misses(o, p)'
      BY <1>0
    <3>1. p \in Open /\ p \in MakerOrders
      BY <1>3, <1>4
    <3>2. p \in DOMAIN inventory[o] /\ ~(inventory[o][p] < left[p])
      BY <2>0, <3>1 DEF PreparationInv, Misses
    <3>3. inventory[o][p] \in Nat /\ left[p] \in Nat /\ left'[p] \in Nat /\ left'[p] <= left[p]
      BY <3>1, <3>2 DEF MakerTypes, Shrinks
    <3> QED
      BY <3>2, <3>3, <1>0 DEF Misses
  <2>2. step'[o] \in Chosen => ~Refused(o)'
    BY <2>0, <1>0, SameRefusal DEF PreparationInv
  <2>3. step'[o] = "reading" /\ wallet'[o].read =>
           wallet'[o].allowance + Owed' <= allowance' + Counted(o)'
    <3> SUFFICES ASSUME step[o] = "reading", wallet[o].read
                 PROVE  wallet[o].allowance + Owed' <= allowance' + Counted(o)'
      BY <1>0
    <3>1. Counted(o)' = Counted(o) /\ Counted(o) \in Nat /\ wallet[o].allowance \in Nat
      BY <1>0, CountedIsNat DEF Counted, MakerTypes
    <3>2. wallet[o].allowance + Owed <= allowance + Counted(o)
      BY <2>0 DEF PreparationInv
    <3>3. /\ Owed \in Nat /\ Owed' \in Nat /\ allowance \in Nat /\ allowance' \in Nat
          /\ Owed' + allowance <= Owed + allowance'
      BY <1>4, <1>9
    <3> HIDE DEF MakerInv
    <3>4. PICK a \in Nat, b \in Nat, v \in Nat, w \in Nat :
              a = allowance /\ b = allowance' /\ v = Owed /\ w = Owed'
      BY <3>3
    <3>5. PICK x \in Nat, c \in Nat : x = wallet[o].allowance /\ c = Counted(o)
      BY <3>1
    <3>6. w + a <= v + b /\ x + v <= a + c
      BY <3>2, <3>3, <3>4, <3>5
    <3>7. x + w <= b + c
      BY <3>6, MarginOfReading
    <3> QED
      BY <3>1, <3>4, <3>5, <3>7
  <2>4. step'[o] \in {"prepared", "signed", "submitted"} => MakingAmount[o] + Owed' <= allowance'
    <3>1. MakingAmount[o] \in Nat
      BY TargetIsCounted
    <3>2. CASE step'[o] \in {"prepared", "signed", "submitted"}
      <4>1. MakingAmount[o] + Owed <= allowance
        BY <2>0, <3>2, <1>0 DEF PreparationInv
      <4> HIDE DEF MakerInv
      <4>2. MakingAmount[o] + Owed' <= allowance'
        BY <3>1, <4>1, <1>4, <1>9, MarginOfOrder
      <4> QED
        BY <4>2
    <3> QED
      BY <3>2
  <2> QED
    BY <2>0, <2>1, <2>2, <2>3, <2>4, <1>0 DEF PreparationInv, Shrinks
<1>7. (BeingSet \/ Owed <= allowance)'
  <2>1. BeingSet' <=> BeingSet
    BY <1>0 DEF BeingSet
  <2>2. Owed <= allowance => Owed' <= allowance'
    <3> HIDE DEF MakerInv
    <3> QED
      BY <1>4, <1>9, Margin
  <2> QED
    BY <2>1, <2>2
<1>8. NoncesDiffer'
  BY <1>3 DEF NoncesDiffer
<1> QED
  BY <1>2, <1>5, <1>6, <1>7, <1>8

\* While one order is being made, nothing else is, and unless its approval is
\* under way the allowance suffices.
LEMMA Alone ==
    ASSUME MakerInv, NEW o \in MakerOrders, ~Settled(o)
    PROVE  /\ \A q \in MakerOrders : q # o => Settled(q)
           /\ step[o] # "approving" => Owed <= allowance
<1>1. \A q \in MakerOrders : q # o => Settled(q)
  BY DEF MakerInv, OneAtATime
<1>2. step[o] # "approving" => ~BeingSet
  BY <1>1 DEF BeingSet, Settled
<1> QED
  BY <1>1, <1>2 DEF MakerInv

\* A step with an order while the others rest.
LEMMA ClientStep ==
    ASSUME MakerInv, NEW o \in MakerOrders,
           \A q \in MakerOrders : q # o => Settled(q) /\ step'[q] = step[q],
           MakerTypes', PreparationInv(o)', (BeingSet \/ Owed <= allowance)', NoncesDiffer'
    PROVE  MakerInv'
<1>1. OneAtATime'
  BY DEF OneAtATime, Settled
<1>2. ASSUME NEW q \in MakerOrders PROVE PreparationInv(q)'
  <2>1. CASE q = o
    BY <2>1
  <2>2. CASE q # o
    <3>1. step'[q] \in {"idle", "closed", "made"}
      BY <2>2 DEF Settled
    <3> QED
      BY <3>1 DEF PreparationInv, Informed, Chosen
  <2> QED
    BY <2>1, <2>2
<1> QED
  BY <1>1, <1>2 DEF MakerInv

\* As long as neither the chain nor the service moves, the same is owed.
LEMMA SameOwed ==
    ASSUME MakerInv, left' = left, cancelled' = cancelled, usedNonces' = usedNonces,
           expired' = expired, offered' = offered
    PROVE  Open' = Open /\ Owed' = Owed /\ NoncesDiffer'
<1>1. \A p : Fillable(p)' = Fillable(p)
  BY DEF Fillable, Invalidated
<1>2. Open' = Open
  BY <1>1 DEF Open
<1>3. Owed' = Owed
  BY <1>2 DEF Owed
<1>4. NoncesDiffer'
  BY <1>2 DEF MakerInv, NoncesDiffer
<1> QED
  BY <1>2, <1>3, <1>4

-----------------------------------------------------------------------------
\* Nothing is made, offered or owed at first.
LEMMA MakerInitInv == MakerInit => MakerInv
<1> SUFFICES ASSUME MakerInit PROVE MakerInv
  OBVIOUS
<1> USE DEF MakerInit
<1>1. MaxUint \in Nat /\ MakingAmount \in [MakerOrders -> 1 .. MaxUint]
  BY MakerConstants
<1>2. MakerTypes
  <2>1. IsFiniteSet({})
    BY FS_EmptySet
  <2>2. ASSUME NEW o \in MakerOrders
        PROVE  /\ MakingAmount[o] \in Nat /\ MakingAmount[o] <= MakingAmount[o]
               /\ known[o] = {} /\ DOMAIN inventory[o] = {} /\ wallet[o].allowance = 0
    <3>1. MakingAmount[o] \in Nat /\ MakingAmount[o] <= MakingAmount[o]
      BY <1>1
    <3>2. known[o] = {} /\ inventory[o] = NothingRead /\ wallet[o] = Unread
      OBVIOUS
    <3> QED
      BY <3>1, <3>2 DEF NothingRead, Unread
  <2>3. left \in [MakerOrders -> Nat]
    BY <1>1
  <2>4. step \in [MakerOrders -> Steps] /\ known \in [MakerOrders -> SUBSET MakerOrders]
        /\ DOMAIN inventory = MakerOrders /\ DOMAIN wallet = MakerOrders
    BY DEF Steps
  <2>5. allowance \in 0 .. MaxUint /\ offered \subseteq MakerOrders /\ IsFiniteSet(offered)
    BY <2>1, <1>1
  <2> QED
    BY <2>1, <2>2, <2>3, <2>4, <2>5 DEF MakerTypes
<1>3. OneAtATime /\ \A o \in MakerOrders : PreparationInv(o)
  BY DEF OneAtATime, Settled, PreparationInv, Informed, Chosen
<1>4. Open = {} /\ Owed = 0
  BY SumOfNone DEF Open, Owed
<1> QED
  BY <1>2, <1>3, <1>4 DEF MakerInv, NoncesDiffer

LEMMA FillStep ==
    ASSUME MakerInv, NEW o \in MakerOrders, Fill(o)
    PROVE  MakerInv'
<1>1. PICK amount \in 1 .. left[o] :
        /\ amount <= allowance
        /\ left' = [left EXCEPT ![o] = @ - amount]
        /\ allowance' = allowance - amount
  BY DEF Fill
<1>2. /\ step' = step /\ known' = known /\ inventory' = inventory /\ wallet' = wallet
      /\ offered' = offered /\ cancelled' = cancelled /\ expired' = expired
      /\ usedNonces \subseteq usedNonces'
  BY DEF Fill, client
<1>3. MakerTypes /\ o \in Open
  BY DEF MakerInv, Fill, Open
<1>4. left \in [MakerOrders -> Nat] /\ allowance \in Nat
  BY <1>3 DEF MakerTypes
<1>5. amount \in Nat /\ amount <= left[o] /\ left[o] - amount \in Nat
  BY <1>1, <1>4
<1>6. /\ left' \in [MakerOrders -> Nat] /\ left'[o] = left[o] - amount
      /\ \A p \in MakerOrders : p # o => left'[p] = left[p]
  BY <1>1, <1>4, <1>5
<1>7. \A p \in MakerOrders : left'[p] <= left[p]
  BY <1>4, <1>5, <1>6
<1>8. ASSUME NEW p \in MakerOrders, Fillable(p)' PROVE Fillable(p)
  <2>1. left'[p] \in Nat /\ left[p] \in Nat /\ left'[p] <= left[p] /\ left'[p] > 0
    BY <1>4, <1>6, <1>7, <1>8 DEF Fillable
  <2>2. ~Invalidated(p)
    BY <1>2, <1>8 DEF Fillable, Invalidated
  <2> QED
    BY <2>1, <2>2, <1>2, <1>8 DEF Fillable
<1>9. Open' \subseteq Open
  BY <1>2, <1>3, <1>8 DEF Open, MakerTypes
<1>10. /\ IsFiniteSet(Open) /\ Open \subseteq MakerOrders /\ Owed \in Nat
       /\ IsFiniteSet(Open \ {o})
  BY <1>3, OpenIsFinite, FS_Subset
<1>11. Owed = left[o] + SumFunctionOnSet(left, Open \ {o})
  BY <1>3, <1>10, OpenIsFinite, SumWithout DEF Owed
<1>12. SumFunctionOnSet(left', Open) = left'[o] + SumFunctionOnSet(left', Open \ {o})
  BY <1>3, <1>6, <1>10, SumWithout
<1>13. SumFunctionOnSet(left, Open \ {o}) = SumFunctionOnSet(left', Open \ {o})
  <2>1. \A p \in Open \ {o} : left[p] \in Nat /\ left[p] = left'[p]
    BY <1>4, <1>6, <1>10
  <2> QED
    BY <2>1, <1>10, SumOfEqual
<1>14. SumFunctionOnSet(left, Open \ {o}) \in Nat
  <2>1. \A p \in Open \ {o} : left[p] \in Nat
    BY <1>4, <1>10
  <2> QED
    BY <2>1, <1>10, SumIsNat
<1>15. Owed' \in Nat /\ Owed' <= SumFunctionOnSet(left', Open)
  <2>1. \A p \in Open : left'[p] \in Nat /\ left'[p] <= left'[p]
    BY <1>6, <1>10
  <2>2. IsFiniteSet(Open') /\ \A p \in Open' : left'[p] \in Nat /\ left'[p] <= left'[p]
    BY <2>1, <1>9, <1>10, FS_Subset
  <2>3. SumFunctionOnSet(left', Open') <= SumFunctionOnSet(left', Open)
    BY <2>1, <2>2, <1>9, <1>10, SumIsMonotone
  <2>4. SumFunctionOnSet(left', Open') \in Nat
    BY <2>2, SumIsNat
  <2> QED
    BY <2>3, <2>4 DEF Owed
<1>16. Owed' + allowance <= Owed + allowance' /\ allowance' \in Nat /\ allowance' <= allowance
  <2>1. left[o] \in Nat
    BY <1>4
  <2> QED
    BY <2>1, <1>1, <1>4, <1>5, <1>6, <1>10, <1>11, <1>12, <1>13, <1>14, <1>15
<1> QED
  BY <1>2, <1>6, <1>7, <1>8, <1>16, ShrinkStep DEF Shrinks

\* Steps that take away from what takers can fill, and leave the allowance alone.
Loses ==
    /\ left' = left /\ allowance' = allowance /\ UNCHANGED client
    /\ offered' \subseteq offered
    /\ \A p \in MakerOrders : Fillable(p)' => Fillable(p)

\* An order that can no longer be filled is owed no more.
LEMMA LossStep == MakerInv /\ Loses => MakerInv'
<1> SUFFICES ASSUME MakerInv, Loses PROVE MakerInv'
  OBVIOUS
<1>0. left' = left /\ allowance' = allowance
  BY DEF Loses
<1>1. MakerTypes
  BY DEF MakerInv
<1>2. step' = step /\ known' = known /\ inventory' = inventory /\ wallet' = wallet
  BY DEF Loses, client
<1>3. Open' \subseteq Open
  BY <1>1 DEF Open, MakerTypes, Loses
<1>4. IsFiniteSet(Open) /\ \A p \in Open : left[p] \in Nat /\ left[p] <= left[p]
  BY <1>1, OpenIsFinite
<1>5. IsFiniteSet(Open') /\ \A p \in Open' : left[p] \in Nat /\ left[p] <= left[p]
  BY <1>3, <1>4, FS_Subset
<1>6. SumFunctionOnSet(left, Open') <= SumFunctionOnSet(left, Open)
  BY <1>3, <1>4, <1>5, SumIsMonotone
<1>7. SumFunctionOnSet(left, Open') \in Nat
  BY <1>5, SumIsNat
<1>8. Owed' <= Owed /\ Owed' \in Nat /\ Owed \in Nat
  <2>1. Owed \in Nat
    BY <1>1, OpenIsFinite
  <2>2. Owed = SumFunctionOnSet(left, Open) /\ Owed' = SumFunctionOnSet(left, Open')
    BY <1>0 DEF Owed
  <2> QED
    BY <2>1, <2>2, <1>6, <1>7
<1>9. allowance \in Nat /\ left \in [MakerOrders -> Nat]
  BY <1>1 DEF MakerTypes
<1>10. allowance' \in Nat /\ allowance' <= allowance /\ Owed' + allowance <= Owed + allowance'
  <2>1. allowance' = allowance
    BY <1>0
  <2>2. allowance \in Nat
    BY <1>9
  <2>3. \A a, v, w \in Nat : w <= v => w + a <= v + a
    OBVIOUS
  <2>4. Owed' + allowance <= Owed + allowance
    BY <2>2, <2>3, <1>8
  <2>5. allowance <= allowance
    BY <2>2
  <2> QED
    BY <2>1, <2>2, <2>4, <2>5
<1>11. left' \in [MakerOrders -> Nat] /\ \A p \in MakerOrders : left'[p] <= left[p]
  BY <1>0, <1>9
<1> QED
  BY <1>2, <1>10, <1>11, ShrinkStep DEF Shrinks, Loses

LEMMA CancelStep ==
    ASSUME MakerInv, NEW o \in MakerOrders, Cancel(o)
    PROVE  MakerInv'
<1>1. UNCHANGED client /\ UNCHANGED <<left, expired, allowance, offered>>
  BY DEF Cancel
<1>2. usedNonces \subseteq usedNonces' /\ cancelled \subseteq cancelled'
  BY DEF Cancel
<1>3. \A p \in MakerOrders : Fillable(p)' => Fillable(p)
  BY <1>1, <1>2 DEF Fillable, Invalidated
<1> QED
  BY <1>1, <1>3, LossStep DEF Loses

LEMMA OtherTokenStep ==
    ASSUME MakerInv, NEW o \in MakerOrders, OtherTokenUses(o)
    PROVE  MakerInv'
<1>1. /\ UNCHANGED client /\ UNCHANGED <<left, cancelled, expired, allowance, offered>>
      /\ usedNonces \subseteq usedNonces'
  BY DEF OtherTokenUses
<1>2. \A p \in MakerOrders : Fillable(p)' => Fillable(p)
  BY <1>1 DEF Fillable, Invalidated
<1> QED
  BY <1>1, <1>2, LossStep DEF Loses

LEMMA ExpireStep ==
    ASSUME MakerInv, NEW o \in MakerOrders, Expire(o)
    PROVE  MakerInv'
<1>1. /\ UNCHANGED client /\ UNCHANGED <<left, cancelled, usedNonces, allowance, offered>>
      /\ expired \subseteq expired'
  BY DEF Expire
<1>2. \A p \in MakerOrders : Fillable(p)' => Fillable(p)
  BY <1>1 DEF Fillable, Invalidated
<1> QED
  BY <1>1, <1>2, LossStep DEF Loses

LEMMA UnlistStep ==
    ASSUME MakerInv, NEW o \in MakerOrders, Unlist(o)
    PROVE  MakerInv'
<1>1. UNCHANGED client /\ UNCHANGED protocol /\ offered' \subseteq offered
  BY DEF Unlist
<1>2. UNCHANGED <<left, cancelled, usedNonces, expired, allowance>>
  BY <1>1 DEF protocol
<1>3. \A p \in MakerOrders : Fillable(p)' => Fillable(p)
  BY <1>2 DEF Fillable, Invalidated
<1> QED
  BY <1>1, <1>2, <1>3, LossStep DEF Loses

-----------------------------------------------------------------------------
LEMMA ListStep ==
    ASSUME MakerInv, NEW o \in MakerOrders, List(o)
    PROVE  MakerInv'
<1>1. /\ step[o] = "submitted" /\ step' = [step EXCEPT ![o] = "made"]
      /\ offered' = offered \cup {o} /\ UNCHANGED protocol
      /\ known' = known /\ inventory' = inventory /\ wallet' = wallet
  BY DEF List
<1>2. /\ left' = left /\ cancelled' = cancelled /\ usedNonces' = usedNonces
      /\ expired' = expired /\ allowance' = allowance
  BY <1>1 DEF protocol
<1>3. MakerTypes /\ PreparationInv(o)
  BY DEF MakerInv
<1>4. ~Settled(o)
  BY <1>1 DEF Settled
<1>5. \A q \in MakerOrders : q # o => Settled(q) /\ step'[q] = step[q]
  BY <1>1, <1>3, <1>4, Alone DEF MakerTypes
<1>6. MakerTypes'
  <2>1. IsFiniteSet(offered \cup {o})
    BY <1>3, FS_AddElement DEF MakerTypes
  <2>2. step' \in [MakerOrders -> Steps]
    BY <1>1, <1>3 DEF MakerTypes, Steps
  <2> QED
    BY <2>1, <2>2, <1>1, <1>2, <1>3 DEF MakerTypes
<1>7. step'[o] = "made"
  BY <1>1, <1>3 DEF MakerTypes
<1>8. PreparationInv(o)'
  BY <1>7 DEF PreparationInv, Informed, Chosen
<1>9. ~Refused(o) /\ \A p \in Open : ~Misses(o, p)
  BY <1>1, <1>3 DEF PreparationInv, Informed, Chosen
<1>10. o \notin Open
  BY <1>9 DEF Refused, IdentityAlreadyUsed, Misses
<1>11. Open' \subseteq Open \cup {o}
  BY <1>1, <1>2 DEF Open, Fillable, Invalidated
<1>12. MakingAmount[o] + Owed <= allowance
  BY <1>1, <1>3 DEF PreparationInv
<1>13. (BeingSet \/ Owed <= allowance)'
  <2>1. /\ IsFiniteSet(Open) /\ Open \subseteq MakerOrders /\ Owed \in Nat
        /\ \A p \in Open : left[p] \in Nat
    BY <1>3, OpenIsFinite
  <2>2. left[o] \in Nat /\ left[o] <= MakingAmount[o] /\ MakingAmount[o] \in Nat /\ allowance \in Nat
    BY <1>3, TargetIsCounted DEF MakerTypes
  <2>3. \A p \in Open \cup {o} : left[p] \in Nat /\ left[p] <= left[p]
    BY <2>1, <2>2
  <2>4. /\ IsFiniteSet(Open \cup {o})
        /\ SumFunctionOnSet(left, Open \cup {o}) = left[o] + SumFunctionOnSet(left, Open)
    BY <2>1, <2>3, <1>10, SumWith
  <2>5. SumFunctionOnSet(left, Open') <= SumFunctionOnSet(left, Open \cup {o})
    <3>1. \A p \in Open' : left[p] \in Nat /\ left[p] <= left[p]
      BY <1>11, <2>3
    <3> QED
      BY <3>1, <1>11, <2>3, <2>4, SumIsMonotone
  <2>6. Owed' \in Nat
    BY <1>6, OwedIsNatNext
  <2>7. Owed' = SumFunctionOnSet(left, Open') /\ Owed = SumFunctionOnSet(left, Open)
    BY <1>2 DEF Owed
  <2>8. Owed' <= allowance
    BY <2>1, <2>2, <2>4, <2>5, <2>6, <2>7, <1>12
  <2> QED
    BY <2>8, <1>2
<1>14. NoncesDiffer'
  <2> SUFFICES ASSUME NEW p \in Open', NEW q \in Open', p # q,
                      Regime[p] = "bit", Regime[q] = "bit"
               PROVE  Nonce[p] # Nonce[q]
    BY DEF NoncesDiffer
  <2>1. ASSUME NEW r \in Open, Regime[o] = "bit", Regime[r] = "bit"
        PROVE  Nonce[r] # Nonce[o]
    <3>1. r \in DOMAIN inventory[o]
      BY <1>9 DEF Misses
    <3> QED
      BY <3>1, <2>1, <1>9 DEF Refused, IdentityAlreadyUsed
  <2>2. CASE p \in Open /\ q \in Open
    BY <2>2 DEF MakerInv, NoncesDiffer
  <2>3. CASE p = o /\ q \in Open
    BY <2>1, <2>3
  <2>4. CASE q = o /\ p \in Open
    BY <2>1, <2>4
  <2> QED
    BY <2>2, <2>3, <2>4, <1>11
<1> QED
  BY <1>5, <1>6, <1>8, <1>13, <1>14, ClientStep

-----------------------------------------------------------------------------
(* Steps of the client that touch neither the chain nor the service.       *)

Rests(o) ==
    /\ \A q \in MakerOrders : q # o => step'[q] = step[q]
    /\ UNCHANGED protocol /\ offered' = offered

\* What such a step leaves as it was.
LEMMA RestsFacts ==
    ASSUME MakerInv, NEW o \in MakerOrders, Rests(o)
    PROVE  /\ left' = left /\ cancelled' = cancelled /\ usedNonces' = usedNonces
           /\ expired' = expired /\ allowance' = allowance /\ offered' = offered
           /\ Open' = Open /\ Owed' = Owed /\ NoncesDiffer'
<1>1. /\ left' = left /\ cancelled' = cancelled /\ usedNonces' = usedNonces
      /\ expired' = expired /\ allowance' = allowance /\ offered' = offered
  BY DEF Rests, protocol
<1> QED
  BY <1>1, SameOwed

\* ... of an order that was being made and is not being approved.
LEMMA QuietStep ==
    ASSUME MakerInv, NEW o \in MakerOrders, Rests(o),
           ~Settled(o), step[o] # "approving", MakerTypes', PreparationInv(o)'
    PROVE  MakerInv'
<1>1. allowance' = allowance /\ Owed' = Owed /\ NoncesDiffer'
  BY RestsFacts
<1>2. (\A q \in MakerOrders : q # o => Settled(q)) /\ Owed <= allowance
  BY Alone
<1>3. \A q \in MakerOrders : q # o => Settled(q) /\ step'[q] = step[q]
  BY <1>2 DEF Rests
<1>4. (BeingSet \/ Owed <= allowance)'
  BY <1>1, <1>2
<1> QED
  BY <1>1, <1>3, <1>4, ClientStep

\* ... and that leaves alone what was read, too.
LEMMA MoveOn ==
    ASSUME MakerInv, NEW o \in MakerOrders, NEW s \in Steps,
           step' = [step EXCEPT ![o] = s],
           UNCHANGED <<protocol, offered, known, inventory, wallet>>
    PROVE  Rests(o) /\ MakerTypes' /\ step'[o] = s
<1>1. MakerTypes
  BY DEF MakerInv
<1>2. step' \in [MakerOrders -> Steps] /\ step'[o] = s
      /\ \A q \in MakerOrders : q # o => step'[q] = step[q]
  BY <1>1 DEF MakerTypes
<1>3. Rests(o)
  BY <1>2 DEF Rests
<1>4. left' = left /\ allowance' = allowance /\ offered' = offered
      /\ known' = known /\ inventory' = inventory /\ wallet' = wallet
  BY DEF protocol
<1> QED
  BY <1>1, <1>2, <1>3, <1>4 DEF MakerTypes

LEMMA BeginStep ==
    ASSUME Careful, MakerInv, NEW o \in MakerOrders, BeginOrder(o)
    PROVE  MakerInv'
<1>1. /\ step[o] \in {"idle", "made"} /\ \A p \in MakerOrders : Settled(p)
      /\ step' = [step EXCEPT ![o] = "enumerating"]
      /\ known' = [known EXCEPT ![o] = offered]
      /\ inventory' = [inventory EXCEPT ![o] = NothingRead]
      /\ wallet' = [wallet EXCEPT ![o] = Unread]
      /\ UNCHANGED protocol /\ offered' = offered
  BY DEF BeginOrder
<1>2. MakerTypes
  BY DEF MakerInv
<1>3. step' \in [MakerOrders -> Steps] /\ step'[o] = "enumerating"
      /\ \A q \in MakerOrders : q # o => step'[q] = step[q]
  BY <1>1, <1>2 DEF MakerTypes, Steps
<1>4. Rests(o)
  BY <1>1, <1>3 DEF Rests
<1>5. left' = left /\ allowance' = allowance /\ Owed' = Owed /\ NoncesDiffer'
  BY <1>4, RestsFacts
<1>6. MakerTypes'
  <2>1. known' \in [MakerOrders -> SUBSET MakerOrders] /\ known'[o] = offered
        /\ \A q \in MakerOrders : q # o => known'[q] = known[q]
    BY <1>1, <1>2 DEF MakerTypes
  <2>2. DOMAIN inventory' = MakerOrders /\ inventory'[o] = NothingRead
        /\ \A q \in MakerOrders : q # o => inventory'[q] = inventory[q]
    BY <1>1, <1>2 DEF MakerTypes
  <2>3. DOMAIN wallet' = MakerOrders /\ wallet'[o] = Unread
        /\ \A q \in MakerOrders : q # o => wallet'[q] = wallet[q]
    BY <1>1, <1>2 DEF MakerTypes
  <2>4. DOMAIN NothingRead = {} /\ IsFiniteSet({}) /\ Unread.allowance = 0
    BY FS_EmptySet DEF NothingRead, Unread
  <2>5. ASSUME NEW q \in MakerOrders
        PROVE  /\ IsFiniteSet(known'[q]) /\ IsFiniteSet(DOMAIN inventory'[q])
               /\ \A p \in DOMAIN inventory'[q] : inventory'[q][p] \in Nat
               /\ wallet'[q].allowance \in Nat
    <3>1. CASE q = o
      BY <3>1, <2>1, <2>2, <2>3, <2>4, <1>2 DEF MakerTypes
    <3>2. CASE q # o
      BY <3>2, <2>1, <2>2, <2>3, <1>2 DEF MakerTypes
    <3> QED
      BY <3>1, <3>2
  <2> QED
    BY <2>1, <2>2, <2>3, <2>5, <1>1, <1>2, <1>3, <1>5 DEF MakerTypes
<1>7. known'[o] = offered
  BY <1>1, <1>2 DEF MakerTypes
<1>8. PreparationInv(o)'
  <2>1. wallet'[o] = Unread
    BY <1>1, <1>2 DEF MakerTypes
  <2> QED
    BY <2>1, <1>1, <1>3, <1>7 DEF PreparationInv, Informed, Chosen, Unread
<1>9. (BeingSet \/ Owed <= allowance)'
  <2>1. ~BeingSet
    BY <1>1 DEF BeingSet, Settled
  <2> QED
    BY <2>1, <1>5 DEF MakerInv
<1> QED
  BY <1>1, <1>3, <1>5, <1>6, <1>8, <1>9, ClientStep

LEMMA ReadInventoryStep ==
    ASSUME MakerInv, NEW o \in MakerOrders, ReadInventory(o)
    PROVE  MakerInv'
<1>1. PICK more \in SUBSET offered :
        inventory' = [inventory EXCEPT ![o] =
            [p \in {q \in known[o] \cup more : Fillable(q)} |-> left[p]]]
  BY DEF ReadInventory
<1>2. /\ step[o] = "enumerating" /\ step' = [step EXCEPT ![o] = "reading"]
      /\ UNCHANGED protocol /\ offered' = offered /\ known' = known /\ wallet' = wallet
  BY DEF ReadInventory
<1>3. MakerTypes /\ PreparationInv(o)
  BY DEF MakerInv
<1> DEFINE found == {q \in known[o] \cup more : Fillable(q)}
<1>4. step' \in [MakerOrders -> Steps] /\ step'[o] = "reading"
      /\ \A q \in MakerOrders : q # o => step'[q] = step[q]
  BY <1>2, <1>3 DEF MakerTypes, Steps
<1>5. Rests(o)
  BY <1>2, <1>4 DEF Rests
<1>6. /\ left' = left /\ allowance' = allowance /\ Open' = Open
  BY <1>5, RestsFacts
<1>7. DOMAIN inventory' = MakerOrders /\ inventory'[o] = [p \in found |-> left[p]]
      /\ \A q \in MakerOrders : q # o => inventory'[q] = inventory[q]
  BY <1>1, <1>3 DEF MakerTypes
<1>8. found \subseteq MakerOrders /\ IsFiniteSet(found)
  <2>1. IsFiniteSet(known[o]) /\ IsFiniteSet(offered) /\ more \subseteq offered
        /\ known[o] \subseteq MakerOrders /\ offered \subseteq MakerOrders
    BY <1>3 DEF MakerTypes
  <2>2. IsFiniteSet(more)
    BY <2>1, FS_Subset
  <2>3. IsFiniteSet(known[o] \cup more)
    BY <2>1, <2>2, FS_Union
  <2>4. found \subseteq known[o] \cup more
    OBVIOUS
  <2>5. IsFiniteSet(found)
    BY <2>3, <2>4, FS_Subset
  <2> QED
    BY <2>1, <2>5
<1>9. Open \subseteq found
  BY <1>2, <1>3 DEF Open, PreparationInv
<1> HIDE DEF found
<1>10. DOMAIN inventory'[o] = found /\ \A p \in found : inventory'[o][p] = left[p] /\ left[p] \in Nat
  BY <1>7, <1>8, <1>3 DEF MakerTypes
<1>11. MakerTypes'
  <2>1. ASSUME NEW q \in MakerOrders
        PROVE  /\ IsFiniteSet(DOMAIN inventory'[q])
               /\ \A p \in DOMAIN inventory'[q] : inventory'[q][p] \in Nat
    <3>1. CASE q = o
      BY <3>1, <1>8, <1>10
    <3>2. CASE q # o
      BY <3>2, <1>7, <1>3 DEF MakerTypes
    <3> QED
      BY <3>1, <3>2
  <2> QED
    BY <2>1, <1>2, <1>3, <1>4, <1>6, <1>7 DEF MakerTypes
<1>12. PreparationInv(o)'
  <2>1. \A p \in Open' : ~Misses(o, p)'
    BY <1>6, <1>9, <1>10 DEF Misses
  <2>2. ~wallet'[o].read
    BY <1>2, <1>3 DEF PreparationInv
  <2> QED
    BY <2>1, <2>2, <1>4 DEF PreparationInv, Informed, Chosen
<1> QED
  BY <1>2, <1>5, <1>11, <1>12, QuietStep DEF Settled

LEMMA ReadWalletStep ==
    ASSUME Careful, MakerInv, NEW o \in MakerOrders, ReadWallet(o)
    PROVE  MakerInv'
<1> DEFINE w == [allowance |-> allowance, usedNonces |-> usedNonces,
                 touched |-> o \in cancelled \/ left[o] < MakingAmount[o], read |-> TRUE]
<1>1. /\ step[o] = "reading" /\ wallet' = [wallet EXCEPT ![o] = w]
      /\ UNCHANGED protocol /\ offered' = offered /\ step' = step
      /\ known' = known /\ inventory' = inventory
  BY DEF ReadWallet
<1>2. MakerTypes /\ PreparationInv(o)
  BY DEF MakerInv
<1>3. Rests(o)
  BY <1>1 DEF Rests
<1>4. left' = left /\ allowance' = allowance /\ Owed' = Owed /\ Open' = Open
  BY <1>3, RestsFacts
<1>5. w.allowance = allowance
  OBVIOUS
<1> HIDE DEF w
<1>6. DOMAIN wallet' = MakerOrders /\ wallet'[o] = w
      /\ \A q \in MakerOrders : q # o => wallet'[q] = wallet[q]
  BY <1>1, <1>2 DEF MakerTypes
<1>7. MakerTypes'
  <2>1. ASSUME NEW q \in MakerOrders PROVE wallet'[q].allowance \in Nat
    <3>1. CASE q = o
      BY <3>1, <1>5, <1>6, <1>2 DEF MakerTypes
    <3>2. CASE q # o
      BY <3>2, <1>6, <1>2 DEF MakerTypes
    <3> QED
      BY <3>1, <3>2
  <2> QED
    BY <2>1, <1>1, <1>2, <1>4, <1>6 DEF MakerTypes
<1>8. \A p \in Open : ~Misses(o, p)
  BY <1>1, <1>2 DEF PreparationInv, Informed
<1>9. Owed <= Counted(o)
  BY <1>2, <1>8, OwedIsCounted
<1>10. allowance + Owed <= allowance + Counted(o)
  <2>1. allowance \in Nat
    BY <1>2 DEF MakerTypes
  <2>2. Owed \in Nat /\ Counted(o) \in Nat
    BY <1>2, OpenIsFinite, CountedIsNat
  <2> QED
    BY <2>1, <2>2, <1>9
<1>11. Counted(o)' = Counted(o) /\ \A p \in Open' : ~Misses(o, p)'
  BY <1>1, <1>4, <1>8 DEF Counted, Misses
<1>12. PreparationInv(o)'
  <2>1. wallet'[o].allowance + Owed' <= allowance' + Counted(o)'
    BY <1>4, <1>5, <1>6, <1>10, <1>11
  <2> QED
    BY <2>1, <1>1, <1>11 DEF PreparationInv, Chosen, Informed
<1> QED
  BY <1>1, <1>3, <1>7, <1>12, QuietStep DEF Settled

\* Steps that end a preparation, or give it up.
LEMMA CloseStep ==
    ASSUME MakerInv, NEW o \in MakerOrders, NEW s \in {"idle", "closed"},
           step' = [step EXCEPT ![o] = s],
           UNCHANGED <<protocol, offered, known, inventory, wallet>>,
           ~Settled(o), step[o] # "approving"
    PROVE  MakerInv'
<1>1. s \in Steps
  BY DEF Steps
<1>2. Rests(o) /\ MakerTypes' /\ step'[o] = s
  BY <1>1, MoveOn
<1>3. PreparationInv(o)'
  BY <1>2 DEF PreparationInv, Informed, Chosen
<1> QED
  BY <1>2, <1>3, QuietStep

\* Steps from a chosen one to a chosen one keep what was chosen.
LEMMA ChosenStep ==
    ASSUME MakerInv, NEW o \in MakerOrders, NEW s \in Chosen,
           step' = [step EXCEPT ![o] = s],
           UNCHANGED <<protocol, offered, known, inventory, wallet>>,
           step[o] \in Informed \ {"approving"}, ~Refused(o),
           s = "resetting" => ZeroFirst,
           s \in {"prepared", "signed", "submitted"} => MakingAmount[o] + Owed <= allowance
    PROVE  MakerInv'
<1>1. s \in Steps
  BY DEF Steps, Chosen, Informed
<1>2. Rests(o) /\ MakerTypes' /\ step'[o] = s
  BY <1>1, MoveOn
<1>3. /\ Open' = Open /\ Owed' = Owed /\ allowance' = allowance /\ left' = left
      /\ inventory' = inventory /\ wallet' = wallet
  BY <1>2, RestsFacts
<1>4. \A p \in Open : ~Misses(o, p)
  BY DEF MakerInv, PreparationInv
<1>5. ~Refused(o)'
  BY <1>3, SameRefusal
<1>6. \A p \in Open' : ~Misses(o, p)'
  BY <1>3, <1>4 DEF Misses
<1>7. PreparationInv(o)'
  BY <1>2, <1>3, <1>5, <1>6 DEF PreparationInv, Chosen, Informed
<1> QED
  BY <1>2, <1>7, QuietStep DEF Settled, Informed

LEMMA PrepareDoneStep ==
    ASSUME MakerInv, NEW o \in MakerOrders, PrepareDone(o)
    PROVE  MakerInv'
<1>1. /\ step[o] = "reading" /\ wallet[o].read /\ ~Refused(o)
      /\ wallet[o].allowance >= TargetAllowance(o)
      /\ step' = [step EXCEPT ![o] = "prepared"]
      /\ UNCHANGED <<protocol, offered, known, inventory, wallet>>
  BY DEF PrepareDone, CanPrepare
<1>2. MakerTypes /\ PreparationInv(o)
  BY DEF MakerInv
<1>3. wallet[o].allowance + Owed <= allowance + Counted(o)
  BY <1>1, <1>2 DEF PreparationInv
<1>4. MakingAmount[o] + Owed <= allowance
  <2>1. /\ TargetAllowance(o) = MakingAmount[o] + Counted(o)
        /\ MakingAmount[o] \in Nat /\ Counted(o) \in Nat
    BY <1>2, TargetIsCounted
  <2>2. Owed \in Nat
    BY <1>2, OpenIsFinite
  <2>3. allowance \in Nat /\ wallet[o].allowance \in Nat
    BY <1>2 DEF MakerTypes
  <2> QED
    BY <2>1, <2>2, <2>3, <1>1, <1>3
<1>5. "prepared" \in Chosen /\ step[o] \in Informed \ {"approving"}
  BY <1>1 DEF Chosen, Informed
<1> QED
  BY <1>1, <1>4, <1>5, ChosenStep

LEMMA PreparePrerequisiteStep ==
    ASSUME MakerInv, NEW o \in MakerOrders, PreparePrerequisite(o)
    PROVE  MakerInv'
<1> DEFINE s == IF ZeroFirst THEN "resetting" ELSE "approving"
<1>1. /\ step[o] = "reading" /\ ~Refused(o)
      /\ step' = [step EXCEPT ![o] = s]
      /\ UNCHANGED <<protocol, offered, known, inventory, wallet>>
  BY DEF PreparePrerequisite, CanPrepare
<1>2. s \in Chosen /\ step[o] \in Informed \ {"approving"}
  BY <1>1 DEF Chosen, Informed
<1>3. (s = "resetting" => ZeroFirst) /\ s \notin {"prepared", "signed", "submitted"}
  OBVIOUS
<1> HIDE DEF s
<1> QED
  BY <1>1, <1>2, <1>3, ChosenStep

LEMMA SigningStep ==
    ASSUME MakerInv, NEW o \in MakerOrders, NEW s \in {"signed", "submitted"},
           step[o] \in {"prepared", "signed"},
           step' = [step EXCEPT ![o] = s],
           UNCHANGED <<protocol, offered, known, inventory, wallet>>
    PROVE  MakerInv'
<1>1. PreparationInv(o)
  BY DEF MakerInv
<1>2. ~Refused(o) /\ MakingAmount[o] + Owed <= allowance
  BY <1>1 DEF PreparationInv, Chosen, Informed
<1>3. s \in Chosen /\ s # "resetting" /\ step[o] \in Informed \ {"approving"}
  BY DEF Chosen, Informed
<1> QED
  BY <1>2, <1>3, ChosenStep

\* Steps that set the allowance.
LEMMA ResetStep ==
    ASSUME MakerInv, NEW o \in MakerOrders, ResetAllowance(o)
    PROVE  MakerInv'
<1>1. /\ step[o] = "resetting" /\ step' = [step EXCEPT ![o] = "approving"] /\ allowance' = 0
      /\ left' = left /\ cancelled' = cancelled /\ usedNonces' = usedNonces
      /\ expired' = expired /\ offered' = offered
      /\ known' = known /\ inventory' = inventory /\ wallet' = wallet
  BY DEF ResetAllowance
<1>2. MakerTypes /\ PreparationInv(o)
  BY DEF MakerInv
<1>3. Open' = Open /\ Owed' = Owed /\ NoncesDiffer'
  BY <1>1, SameOwed
<1>4. step' \in [MakerOrders -> Steps] /\ step'[o] = "approving"
      /\ \A q \in MakerOrders : q # o => step'[q] = step[q]
  BY <1>1, <1>2 DEF MakerTypes, Steps
<1>5. MakerTypes'
  <2>1. allowance' \in 0 .. MaxUint
    BY <1>1, MakerConstants
  <2> QED
    BY <2>1, <1>1, <1>2, <1>4 DEF MakerTypes
<1>6. ~Settled(o) /\ ZeroFirst /\ ~Refused(o) /\ \A p \in Open : ~Misses(o, p)
  BY <1>1, <1>2 DEF PreparationInv, Settled, Chosen, Informed
<1>7. ~Refused(o)' /\ \A p \in Open' : ~Misses(o, p)'
  BY <1>1, <1>3, <1>6, SameRefusal DEF Misses
<1>8. PreparationInv(o)'
  BY <1>4, <1>7 DEF PreparationInv, Chosen, Informed
<1>9. BeingSet'
  BY <1>4, <1>6 DEF BeingSet
<1>10. \A q \in MakerOrders : q # o => Settled(q) /\ step'[q] = step[q]
  BY <1>4, <1>6, Alone
<1> QED
  BY <1>3, <1>5, <1>8, <1>9, <1>10, ClientStep

LEMMA ApproveStep ==
    ASSUME MakerInv, NEW o \in MakerOrders, Approve(o)
    PROVE  MakerInv'
<1>1. /\ step[o] = "approving" /\ step' = [step EXCEPT ![o] = "idle"]
      /\ allowance' = TargetAllowance(o)
      /\ left' = left /\ cancelled' = cancelled /\ usedNonces' = usedNonces
      /\ expired' = expired /\ offered' = offered
      /\ known' = known /\ inventory' = inventory /\ wallet' = wallet
  BY DEF Approve
<1>2. MakerTypes /\ PreparationInv(o)
  BY DEF MakerInv
<1>3. Open' = Open /\ Owed' = Owed /\ NoncesDiffer'
  BY <1>1, SameOwed
<1>4. step' \in [MakerOrders -> Steps] /\ step'[o] = "idle"
      /\ \A q \in MakerOrders : q # o => step'[q] = step[q]
  BY <1>1, <1>2 DEF MakerTypes, Steps
<1>5. ~Settled(o) /\ ~Refused(o) /\ \A p \in Open : ~Misses(o, p)
  BY <1>1, <1>2 DEF PreparationInv, Settled, Chosen, Informed
<1>6. /\ TargetAllowance(o) = MakingAmount[o] + Counted(o)
      /\ MakingAmount[o] \in Nat /\ Counted(o) \in Nat
  BY <1>2, TargetIsCounted
<1>7. Owed \in Nat /\ Owed <= Counted(o)
  BY <1>2, <1>5, OpenIsFinite, OwedIsCounted
<1>8. Owed <= TargetAllowance(o) /\ TargetAllowance(o) \in Nat
  BY <1>6, <1>7
<1>9. TargetAllowance(o) \in 0 .. MaxUint
  <2>1. ~(TargetAllowance(o) > MaxUint)
    BY <1>5 DEF Refused, Overflows
  <2>2. MaxUint \in Nat
    BY MakerConstants
  <2> QED
    BY <2>1, <2>2, <1>8
<1>10. MakerTypes'
  BY <1>1, <1>2, <1>4, <1>9 DEF MakerTypes
<1>11. PreparationInv(o)'
  BY <1>4 DEF PreparationInv, Chosen, Informed
<1>12. (BeingSet \/ Owed <= allowance)'
  BY <1>1, <1>3, <1>8
<1>13. \A q \in MakerOrders : q # o => Settled(q) /\ step'[q] = step[q]
  BY <1>4, <1>5, Alone
<1> QED
  BY <1>3, <1>10, <1>11, <1>12, <1>13, ClientStep

\* The invariant is kept, if the maker makes one order at a time.
LEMMA MakerInvStep ==
    ASSUME Careful
    PROVE  MakerInv /\ [MakerNext]_makerVars => MakerInv'
<1> SUFFICES ASSUME MakerInv, [MakerNext]_makerVars PROVE MakerInv'
  OBVIOUS
<1>1. CASE UNCHANGED makerVars
  <2>1. UNCHANGED client /\ UNCHANGED protocol /\ offered' = offered
    BY <1>1 DEF makerVars
  <2>2. UNCHANGED <<left, cancelled, usedNonces, expired, allowance>>
    BY <2>1 DEF protocol
  <2>3. \A p \in MakerOrders : Fillable(p)' => Fillable(p)
    BY <2>2 DEF Fillable, Invalidated
  <2> QED
    BY <2>1, <2>2, <2>3, LossStep DEF Loses
<1>2. ASSUME NEW o \in MakerOrders,
             \/ InventoryIncomplete(o) \/ PrepareRefused(o) \/ Abandon(o)
      PROVE  MakerInv'
  <2>1. /\ step[o] \in {"enumerating", "reading", "prepared", "signed"}
        /\ UNCHANGED <<protocol, offered, known, inventory, wallet>>
        /\ step' = [step EXCEPT ![o] = "idle"] \/ step' = [step EXCEPT ![o] = "closed"]
    BY <1>2 DEF InventoryIncomplete, PrepareRefused, Abandon, CanPrepare
  <2>2. ~Settled(o) /\ step[o] # "approving"
    BY <2>1 DEF Settled
  <2> QED
    BY <2>1, <2>2, CloseStep
<1>3. ASSUME NEW o \in MakerOrders, Finalize(o) \/ Submit(o) PROVE MakerInv'
  <2>1. /\ step[o] \in {"prepared", "signed"}
        /\ UNCHANGED <<protocol, offered, known, inventory, wallet>>
        /\ step' = [step EXCEPT ![o] = "signed"] \/ step' = [step EXCEPT ![o] = "submitted"]
    BY <1>3 DEF Finalize, Submit
  <2> QED
    BY <2>1, SigningStep
<1> QED
  BY <1>1, <1>2, <1>3, FillStep, CancelStep, OtherTokenStep, ExpireStep, ListStep, UnlistStep, BeginStep,
     ReadInventoryStep, ReadWalletStep, PreparePrerequisiteStep, PrepareDoneStep, ResetStep,
     ApproveStep DEF MakerNext

\* All that takers may fill, or may once it is listed, is covered.
LEMMA InvCovers == MakerInv => AllowanceCoversOrders
<1> SUFFICES ASSUME MakerInv PROVE AllowanceCoversOrders
  OBVIOUS
<1>1. MakerTypes
  BY DEF MakerInv
<1>2. allowance \in Nat /\ allowance <= MaxUint
  BY <1>1, MakerConstants DEF MakerTypes
<1>3. SUFFICES ASSUME ~BeingSet PROVE SumFunctionOnSet(left, Outstanding) <= allowance
  BY <1>2 DEF AllowanceCoversOrders, BeingSet
<1>4. /\ IsFiniteSet(Open) /\ Open \subseteq MakerOrders /\ Owed \in Nat
      /\ \A p \in Open : left[p] \in Nat
  BY <1>1, OpenIsFinite
<1>5. CASE \E o \in Outstanding : o \notin Open
  <2>1. PICK o \in Outstanding : o \notin Open
    BY <1>5
  <2>2. o \in MakerOrders /\ step[o] \in {"signed", "submitted"}
    BY <2>1 DEF Outstanding, Open
  <2>3. MakingAmount[o] + Owed <= allowance
    BY <2>2 DEF MakerInv, PreparationInv
  <2>4. left[o] \in Nat /\ left[o] <= MakingAmount[o] /\ MakingAmount[o] \in Nat
    BY <2>2, <1>1, TargetIsCounted DEF MakerTypes
  <2>5. \A q \in MakerOrders : q # o => Settled(q)
    BY <2>2, Alone DEF Settled
  <2>6. Outstanding \subseteq Open \cup {o}
    BY <2>5 DEF Outstanding, Open, Settled
  <2>7. \A p \in Open \cup {o} : left[p] \in Nat /\ left[p] <= left[p]
    BY <1>4, <2>4
  <2>8. /\ IsFiniteSet(Open \cup {o})
        /\ SumFunctionOnSet(left, Open \cup {o}) = left[o] + SumFunctionOnSet(left, Open)
    BY <1>4, <2>1, <2>7, SumWith
  <2>9. IsFiniteSet(Outstanding) /\ \A p \in Outstanding : left[p] \in Nat /\ left[p] <= left[p]
    BY <2>6, <2>7, <2>8, FS_Subset
  <2>10. SumFunctionOnSet(left, Outstanding) <= SumFunctionOnSet(left, Open \cup {o})
    BY <2>6, <2>7, <2>8, <2>9, SumIsMonotone
  <2>11. SumFunctionOnSet(left, Outstanding) \in Nat
    BY <2>9, SumIsNat
  <2>12. SumFunctionOnSet(left, Open) = Owed
    BY DEF Owed
  <2> QED
    BY <1>2, <1>4, <2>3, <2>4, <2>8, <2>10, <2>11, <2>12
<1>6. CASE ~\E o \in Outstanding : o \notin Open
  <2>1. Outstanding = Open
    BY <1>6, <1>4 DEF Outstanding, Open
  <2>2. Owed <= allowance
    BY <1>3 DEF MakerInv
  <2> QED
    BY <2>1, <2>2 DEF Owed
<1> QED
  BY <1>5, <1>6

\* Of two orders that are out one is listed, and the other was not refused.
LEMMA InvSeparates == MakerInv => NoncesOfTokenDiffer
<1> SUFFICES ASSUME MakerInv PROVE NoncesOfTokenDiffer
  OBVIOUS
<1>1. ASSUME NEW o \in MakerOrders, step[o] \in Chosen
      PROVE  /\ o \notin Open
             /\ \A p \in Open : Regime[o] = "bit" /\ Regime[p] = "bit" => Nonce[p] # Nonce[o]
  <2>1. ~Refused(o) /\ \A p \in Open : ~Misses(o, p)
    BY <1>1 DEF MakerInv, PreparationInv, Chosen
  <2> QED
    BY <2>1 DEF Refused, IdentityAlreadyUsed, Misses
<1>2. ASSUME NEW o \in Outstanding, NEW p \in Outstanding, o # p,
             Regime[o] = "bit", Regime[p] = "bit"
      PROVE  Nonce[o] # Nonce[p]
  <2>1. o \in MakerOrders /\ p \in MakerOrders
    BY DEF Outstanding
  <2>2. CASE o \in Open /\ p \in Open
    BY <2>2, <1>2 DEF MakerInv, NoncesDiffer
  <2>3. CASE o \notin Open
    <3>1. step[o] \in {"signed", "submitted"}
      BY <2>3 DEF Outstanding, Open
    <3>2. Settled(p)
      BY <2>1, <3>1, <1>2, Alone DEF Settled
    <3>3. p \in Open
      BY <3>2 DEF Outstanding, Open, Settled
    <3> QED
      BY <2>1, <3>1, <3>3, <1>1, <1>2 DEF Chosen, Informed
  <2>4. CASE p \notin Open
    <3>1. step[p] \in {"signed", "submitted"}
      BY <2>4 DEF Outstanding, Open
    <3>2. Settled(o)
      BY <2>1, <3>1, <1>2, Alone DEF Settled
    <3>3. o \in Open
      BY <3>2 DEF Outstanding, Open, Settled
    <3> QED
      BY <2>1, <3>1, <3>3, <1>1, <1>2 DEF Chosen, Informed
  <2> QED
    BY <2>2, <2>3, <2>4
<1>3. ASSUME NEW o \in offered,
             step[o] \in {"resetting", "approving", "prepared", "signed", "submitted"}
      PROVE  ~Fillable(o)
  <2>1. o \in MakerOrders /\ step[o] \in Chosen
    BY <1>3 DEF MakerInv, MakerTypes, Chosen, Informed
  <2> QED
    BY <2>1, <1>1 DEF Open
<1> QED
  BY <1>2, <1>3 DEF NoncesOfTokenDiffer

\* Of prepareLimitOrderMaker and approvalTransactions in limit-orders.ts: for any
\* orders, amounts, regimes and nonces, any bound of the integers and either kind of
\* token, a maker that makes one order at a time never has orders out that its
\* allowance does not cover, unless an allowance is being set again from zero.
THEOREM AllowanceAlwaysCovers ==
    ASSUME Careful
    PROVE  MakerSpec => []AllowanceCoversOrders
  BY MakerInitInv, MakerInvStep, InvCovers, PTL DEF MakerSpec

\* Of identityAlreadyUsed in limit-orders.ts: nor has such a maker ever two single-fill
\* orders of the token out with one nonce, of which a fill of one would end the
\* other, although orders of other tokens use up nonces at any time.
THEOREM NoncesOfATokenDiffer ==
    ASSUME Careful
    PROVE  MakerSpec => []NoncesOfTokenDiffer
  BY MakerInitInv, MakerInvStep, InvSeparates, PTL DEF MakerSpec

\* Of docs/security.md on the maker allowance, with limit-orders.ts: what the document
\* says of the orders that the service knows holds for a maker that makes one order
\* at a time and reads its allowance after the inventory, of a token whose allowance
\* need not be reset to zero first. It fails when preparations overlap.
THEOREM CarefulMakersAreCovered ==
    ASSUME Careful, ~ZeroFirst
    PROVE  MakerSpec => []KnownOrdersAreCovered
<1>1. MakerInv => KnownOrdersAreCovered
  BY DEF MakerInv, BeingSet, KnownOrdersAreCovered, Owed, Open
<1>2. MakerInit => MakerInv
  BY MakerInitInv
<1>3. MakerInv /\ [MakerNext]_makerVars => MakerInv'
  BY MakerInvStep
<1> QED
  BY <1>1, <1>2, <1>3, PTL DEF MakerSpec

\* The client does nothing else than what the two parts of it do.
LEMMA ClientIsItsParts == ClientSpec => InventorySpec /\ MakerSpec
<1>1. ClientInit => InventoryInit /\ MakerInit
  BY DEF ClientInit
<1>2. ASSUME [ClientNext]_<<inventoryVars, makerVars, task>>
      PROVE  [InventoryNext]_inventoryVars /\ [MakerNext]_makerVars
  BY <1>2 DEF ClientNext, ReadInventories, MakeOrders
<1> QED
  BY <1>1, <1>2, PTL DEF ClientSpec, InventorySpec, MakerSpec

-----------------------------------------------------------------------------
(* The takers of an order.                                                 *)

\* What integer division leaves over is less than the divisor.
LEMMA DivisionBounds ==
    ASSUME NEW n \in Nat, NEW d \in Nat \ {0}
    PROVE  /\ n \div d \in Nat
           /\ (n \div d) * d <= n
           /\ n < (n \div d) * d + d
<1>1. n = (n \div d) * d + (n % d) /\ n % d \in 0 .. d - 1 /\ n \div d \in Int
  BY Z3
<1>2. n \div d >= 0
  BY Z3
<1> QED BY <1>1, <1>2, Z3

\* RequiredTaking is the share, rounded up by less than one unit.
LEMMA ShareBounds ==
    ASSUME NEW a \in 0 .. OrderMaking
    PROVE  /\ RequiredTaking(a) \in Nat
           /\ RequiredTaking(a) * OrderMaking >= TakingAmount * a
           /\ RequiredTaking(a) * OrderMaking <= TakingAmount * a + OrderMaking - 1
<1> DEFINE n == TakingAmount * a + OrderMaking - 1
<1>1. n \in Nat /\ TakingAmount * a \in Nat
  BY FillConstants
<1>2. /\ n \div OrderMaking \in Nat
      /\ (n \div OrderMaking) * OrderMaking <= n
      /\ n < (n \div OrderMaking) * OrderMaking + OrderMaking
  <2> HIDE DEF n
  <2> QED BY <1>1, FillConstants, DivisionBounds
<1>3. RequiredTaking(a) = n \div OrderMaking
  BY DEF RequiredTaking
<1> DEFINE q == RequiredTaking(a) * OrderMaking
<1>4. RequiredTaking(a) \in Nat /\ q <= n /\ n < q + OrderMaking
  <2> HIDE DEF n
  <2> QED BY <1>2, <1>3
<1>5. q \in Int
  BY <1>4, FillConstants
<1>6. q >= TakingAmount * a /\ q <= TakingAmount * a + OrderMaking - 1
  <2> HIDE DEF q
  <2> QED BY <1>1, <1>4, <1>5, FillConstants
<1> QED BY <1>4, <1>6

\* A greater fill costs no less.
LEMMA ShareGrows ==
    ASSUME NEW a \in 0 .. OrderMaking, NEW b \in 0 .. OrderMaking, a <= b
    PROVE  RequiredTaking(a) <= RequiredTaking(b)
<1> DEFINE p == RequiredTaking(a)
           q == RequiredTaking(b)
<1>1. p \in Nat /\ q \in Nat /\ OrderMaking \in Nat \ {0}
  BY ShareBounds, FillConstants
<1>2. TakingAmount * a <= TakingAmount * b
  BY FillConstants
<1>3. p * OrderMaking < q * OrderMaking + OrderMaking
  <2>1. /\ TakingAmount * a \in Int /\ TakingAmount * b \in Int
        /\ p * OrderMaking \in Int /\ q * OrderMaking \in Int
    BY <1>1, FillConstants
  <2> QED BY <2>1, <1>1, <1>2, ShareBounds
<1>4. ~(p >= q + 1)
  <2> SUFFICES ASSUME p >= q + 1 PROVE FALSE
    OBVIOUS
  <2>1. p * OrderMaking >= (q + 1) * OrderMaking
    <3> HIDE DEF p, q
    <3> QED BY <1>1, Z3
  <2>2. (q + 1) * OrderMaking = q * OrderMaking + OrderMaking
    <3> HIDE DEF p, q
    <3> QED BY <1>1, Z3
  <2>3. p * OrderMaking \in Int /\ q * OrderMaking \in Int
    BY <1>1
  <2> HIDE DEF p, q
  <2> QED BY <2>1, <2>2, <2>3, <1>1, <1>3
<1> HIDE DEF p, q
<1>5. p <= q
  BY <1>1, <1>4, SMT
<1> QED BY <1>5 DEF p, q

-----------------------------------------------------------------------------

\* What a prepared fill was prepared with is still there.
PreparedIsCovered ==
    \A t \in Takers : stage[t] = "prepared" =>
        /\ RequiredTaking(making[t]) <= MaximumTakingAmount[t]
        /\ RequiredTaking(making[t]) <= approved[t]

LEMMA InitialTypes == FillsInit => FillTypeOK
<1> SUFFICES ASSUME FillsInit PROVE FillTypeOK
  OBVIOUS
<1>1. late \in BOOLEAN
  BY DEF FillsInit
<1>2. /\ remaining \in 0 .. OrderMaking /\ spendable \in 0 .. MaxFunds
      /\ paid \in Nat /\ fills \in Nat
  BY FillConstants DEF FillsInit
<1>3. /\ approved \in [Takers -> Nat]
      /\ stage \in [Takers -> {"idle", "approving", "prepared", "ended"}]
      /\ making \in [Takers -> 0 .. OrderMaking]
      /\ taking \in [Takers -> Nat]
  BY FillConstants DEF FillsInit
<1> QED BY <1>1, <1>2, <1>3 DEF FillTypeOK

LEMMA Typing == ASSUME FillTypeOK, [FillsNext]_fillsVars PROVE FillTypeOK'
<1> USE FillConstants DEF FillTypeOK
<1>1. ASSUME NEW t \in Takers, TakerRefused(t) PROVE FillTypeOK'
  BY <1>1 DEF TakerRefused, orderState
<1>2. ASSUME NEW t \in Takers, Prepare(t) PROVE FillTypeOK'
  <2>1. \A a \in 0 .. OrderMaking : RequiredTaking(a) \in Nat
    BY ShareBounds
  <2>2. PICK a \in 1 .. OrderMaking :
            /\ making' = [making EXCEPT ![t] = a]
            /\ taking' = [taking EXCEPT ![t] = RequiredTaking(a)]
            /\ stage' = [stage EXCEPT ![t] =
                  IF NeedsApproval(t, a) THEN "approving" ELSE "prepared"]
    BY <1>2 DEF Prepare
  <2>3. stage' \in [Takers -> {"idle", "approving", "prepared", "ended"}]
    BY <2>2
  <2>4. making' \in [Takers -> 0 .. OrderMaking] /\ taking' \in [Takers -> Nat]
    BY <2>1, <2>2
  <2> QED BY <1>2, <2>3, <2>4 DEF Prepare, orderState
<1>3. ASSUME NEW t \in Takers, TakerApprove(t) PROVE FillTypeOK'
  BY <1>3 DEF TakerApprove, orderState
<1>4. ASSUME NEW t \in Takers, Execute(t) PROVE FillTypeOK'
  <2>1. stage' \in [Takers -> {"idle", "approving", "prepared", "ended"}]
    BY <1>4 DEF Execute
  <2>2. CASE Executable(t)
    <3>1. /\ FilledBy(t) \in 0 .. OrderMaking
          /\ FilledBy(t) <= remaining /\ FilledBy(t) <= spendable
      BY <2>2 DEF FilledBy, Least, Executable
    <3>2. RequiredTaking(FilledBy(t)) \in Nat
      BY <3>1, ShareBounds
    <3>3. RequiredTaking(FilledBy(t)) <= approved[t]
      BY <2>2, <3>2 DEF Executable, Least
    <3>4. approved' \in [Takers -> Nat]
      BY <1>4, <2>2, <3>2, <3>3 DEF Execute
    <3> QED BY <1>4, <2>1, <2>2, <3>1, <3>2, <3>4 DEF Execute
  <2>3. CASE ~Executable(t)
    BY <1>4, <2>1, <2>3 DEF Execute
  <2> QED BY <2>2, <2>3
<1>5. CASE OrderExpires
  BY <1>5 DEF OrderExpires, taker
<1>6. CASE MakerFundsChange \/ UNCHANGED fillsVars
  BY <1>6 DEF MakerFundsChange, fillsVars, orderState, taker
<1> QED BY <1>1, <1>2, <1>3, <1>4, <1>5, <1>6 DEF FillsNext

\* For every price and amount, any number of takers and every order of their
\* steps, the maker is paid the price of what was filled, rounding included.
THEOREM MakerAlwaysPaid == FillsSpec => [](FillTypeOK /\ MakerIsPaid)
<1>1. FillsInit => FillTypeOK /\ MakerIsPaid
  <2> SUFFICES ASSUME FillsInit PROVE MakerIsPaid
    BY InitialTypes
  <2>1. paid = 0 /\ fills = 0 /\ OrderMaking - remaining = 0
    BY FillConstants DEF FillsInit
  <2>2. /\ 0 * OrderMaking = 0 /\ TakingAmount * 0 = 0
        /\ 0 * (OrderMaking - 1) = 0
    BY FillConstants
  <2> QED BY <2>1, <2>2 DEF MakerIsPaid
<1>2. ASSUME FillTypeOK, MakerIsPaid, [FillsNext]_fillsVars PROVE FillTypeOK' /\ MakerIsPaid'
  <2>1. FillTypeOK'
    BY <1>2, Typing
  <2>2. ASSUME UNCHANGED <<remaining, paid, fills>> PROVE MakerIsPaid'
    <3>1. remaining' = remaining /\ paid' = paid /\ fills' = fills
      BY <2>2
    <3> QED BY <1>2, <3>1, Zenon DEF MakerIsPaid
  <2>3. ASSUME NEW t \in Takers, Execute(t), Executable(t) PROVE MakerIsPaid'
    <3> DEFINE f == FilledBy(t)
               c == RequiredTaking(f)
    <3>1. /\ f \in 0 .. OrderMaking /\ f <= remaining
          /\ remaining \in Nat /\ paid \in Nat /\ fills \in Nat
          /\ OrderMaking \in Nat \ {0} /\ TakingAmount \in Nat
      BY <1>2, FillConstants DEF FillTypeOK, FilledBy, Least
    <3>2. /\ c \in Nat
          /\ c * OrderMaking >= TakingAmount * f
          /\ c * OrderMaking <= TakingAmount * f + OrderMaking - 1
      BY <3>1, ShareBounds
    <3>3. remaining' = remaining - f /\ paid' = paid + c /\ fills' = fills + 1
      BY <2>3 DEF Execute
    <3> DEFINE before == OrderMaking - remaining
               after == OrderMaking - remaining'
    <3> HIDE DEF f, c
    <3>4. before \in Int /\ after = before + f
      BY <3>1, <3>3
    <3>5. /\ paid' * OrderMaking = paid * OrderMaking + c * OrderMaking
          /\ fills' * (OrderMaking - 1) = fills * (OrderMaking - 1) + OrderMaking - 1
      BY <3>1, <3>2, <3>3, Z3
    <3> HIDE DEF before, after
    <3>6. TakingAmount * after = TakingAmount * before + TakingAmount * f
      BY <3>1, <3>4, Z3
    <3>7. /\ paid * OrderMaking >= TakingAmount * before
          /\ paid * OrderMaking <= TakingAmount * before + fills * (OrderMaking - 1)
      BY <1>2 DEF MakerIsPaid, before
    <3>8. /\ paid * OrderMaking \in Int /\ c * OrderMaking \in Int
          /\ TakingAmount * before \in Int /\ TakingAmount * f \in Int
          /\ fills * (OrderMaking - 1) \in Int
      BY <3>1, <3>2, <3>4
    <3>9. /\ paid' * OrderMaking >= TakingAmount * after
          /\ paid' * OrderMaking <= TakingAmount * after + fills' * (OrderMaking - 1)
      BY <3>1, <3>2, <3>5, <3>6, <3>7, <3>8
    <3> QED BY <3>9 DEF MakerIsPaid, after
  <2>4. MakerIsPaid'
    <3>1. ASSUME NEW t \in Takers, Execute(t) PROVE MakerIsPaid'
      BY <2>2, <2>3, <3>1 DEF Execute
    <3>2. ASSUME NEW t \in Takers, TakerRefused(t) \/ Prepare(t) \/ TakerApprove(t)
          PROVE  MakerIsPaid'
      BY <2>2, <3>2 DEF TakerRefused, Prepare, TakerApprove, orderState
    <3>3. CASE OrderExpires \/ MakerFundsChange \/ UNCHANGED fillsVars
      BY <2>2, <3>3 DEF OrderExpires, MakerFundsChange, fillsVars, orderState
    <3> QED BY <1>2, <3>1, <3>2, <3>3 DEF FillsNext
  <2> QED BY <2>1, <2>4
<1> QED BY <1>1, <1>2, PTL DEF FillsSpec

LEMMA Covering ==
    ASSUME FillTypeOK, PreparedIsCovered, [FillsNext]_fillsVars
    PROVE  PreparedIsCovered'
<1> USE FillConstants DEF FillTypeOK, PreparedIsCovered
<1>1. ASSUME NEW t \in Takers, TakerRefused(t) PROVE PreparedIsCovered'
  BY <1>1 DEF TakerRefused, orderState
<1>2. ASSUME NEW t \in Takers, Prepare(t) PROVE PreparedIsCovered'
  <2>1. PICK a \in 1 .. OrderMaking :
            /\ RequiredTaking(a) <= MaximumTakingAmount[t]
            /\ making' = [making EXCEPT ![t] = a]
            /\ stage' = [stage EXCEPT ![t] =
                  IF NeedsApproval(t, a) THEN "approving" ELSE "prepared"]
    BY <1>2 DEF Prepare
  <2>2. approved' = approved
    BY <1>2 DEF Prepare
  <2> SUFFICES ASSUME NEW u \in Takers, stage'[u] = "prepared"
               PROVE  /\ RequiredTaking(making'[u]) <= MaximumTakingAmount[u]
                      /\ RequiredTaking(making'[u]) <= approved'[u]
    BY DEF RequiredTaking
  <2>3. CASE u = t
    <3>1. ~NeedsApproval(t, a) /\ making'[t] = a
      BY <2>1, <2>3
    <3>2. RequiredTaking(a) \in Nat
      BY ShareBounds
    <3> QED BY <2>1, <2>2, <2>3, <3>1, <3>2 DEF NeedsApproval
  <2>4. CASE u # t
    <3>1. stage[u] = "prepared" /\ making'[u] = making[u]
      BY <2>1, <2>4
    <3> QED BY <2>2, <3>1
  <2> QED BY <2>3, <2>4
<1>3. ASSUME NEW t \in Takers, TakerApprove(t) PROVE PreparedIsCovered'
  <2> SUFFICES ASSUME NEW u \in Takers, stage'[u] = "prepared"
               PROVE  /\ RequiredTaking(making'[u]) <= MaximumTakingAmount[u]
                      /\ RequiredTaking(making'[u]) <= approved'[u]
    BY DEF RequiredTaking
  <2>1. u # t /\ stage[u] = "prepared" /\ approved'[u] = approved[u]
    BY <1>3 DEF TakerApprove
  <2> QED BY <1>3, <2>1 DEF TakerApprove
<1>4. ASSUME NEW t \in Takers, Execute(t) PROVE PreparedIsCovered'
  <2> SUFFICES ASSUME NEW u \in Takers, stage'[u] = "prepared"
               PROVE  /\ RequiredTaking(making'[u]) <= MaximumTakingAmount[u]
                      /\ RequiredTaking(making'[u]) <= approved'[u]
    BY DEF RequiredTaking
  <2>1. u # t /\ stage[u] = "prepared" /\ approved'[u] = approved[u]
    BY <1>4 DEF Execute
  <2> QED BY <1>4, <2>1 DEF Execute
<1>5. CASE OrderExpires \/ MakerFundsChange \/ UNCHANGED fillsVars
  BY <1>5 DEF OrderExpires, MakerFundsChange, fillsVars, orderState, taker
<1> QED BY <1>1, <1>2, <1>3, <1>4, <1>5 DEF FillsNext

\* A prepared fill never fails for want of what its preparation has checked: not
\* even when other fills have left less than it was prepared for.
THEOREM PreparedFillsSucceed == FillsSpec => []PreparedFillSucceeds
<1>1. FillsInit => FillTypeOK /\ PreparedIsCovered
  BY InitialTypes DEF FillsInit, PreparedIsCovered
<1>2. FillTypeOK /\ PreparedIsCovered /\ [FillsNext]_fillsVars => FillTypeOK' /\ PreparedIsCovered'
  BY Typing, Covering
<1>3. ASSUME FillTypeOK, PreparedIsCovered PROVE PreparedFillSucceeds
  <2> SUFFICES ASSUME NEW t \in Takers, stage[t] = "prepared",
                      ~late, remaining > 0, FilledBy(t) <= spendable
               PROVE  Executable(t)
    BY DEF PreparedFillSucceeds
  <2>1. /\ FilledBy(t) \in 0 .. OrderMaking /\ making[t] \in 0 .. OrderMaking
        /\ FilledBy(t) <= making[t]
    BY <1>3 DEF FillTypeOK, FilledBy, Least
  <2>2. RequiredTaking(FilledBy(t)) <= RequiredTaking(making[t])
    BY <2>1, ShareGrows
  <2>3. RequiredTaking(FilledBy(t)) \in Nat /\ RequiredTaking(making[t]) \in Nat
    BY <2>1, ShareBounds
  <2>4. approved[t] \in Nat /\ MaximumTakingAmount[t] \in Nat
    BY <1>3, FillConstants DEF FillTypeOK
  <2> QED BY <1>3, <2>2, <2>3, <2>4 DEF Executable, PreparedIsCovered, Least
<1> QED BY <1>1, <1>2, <1>3, PTL DEF FillsSpec

-----------------------------------------------------------------------------
(* The reconciliation of an order.                                         *)

\* Of two canonical blocks, the later one: lateness is for good, what is dead
\* stays as it is, and nothing is filled once it is late.
Follows(b, c) ==
    /\ b.late => c.late
    /\ Dead(b) => /\ c.remaining = b.remaining
                  /\ c.invalidated = b.invalidated
                  /\ c.event = b.event
    /\ b.late /\ c.event = "OrderFilled" => b.event = "OrderFilled"

ChainInv ==
    /\ branch \in Seq(Evidence) /\ Len(branch) > 0
    /\ blocks \in Nat /\ final \in 0 .. Height
    /\ \A n \in 0 .. Height : Block(n).number = n /\ Block(n).id < blocks
    /\ Block(0).remaining = Making /\ ~Block(0).late
    /\ \A n, m \in 0 .. Height : n <= m => Follows(Block(n), Block(m))

\* Evidence is of a block there has been: the canonical one of its number, or
\* one of another identity.
IsOfChain(e) ==
    /\ e \in Evidence /\ e.id < blocks
    /\ e.number <= Height /\ Block(e.number).id = e.id => Block(e.number) = e

EvidenceInv == evidence = <<>> \/ \E e \in Evidence : evidence = <<e>> /\ IsOfChain(e)

\* What a verdict says of the order as it stood at the block.
BearsOut(b, status) ==
    /\ status = "filled" => b.remaining = 0 /\ b.event = "OrderFilled"
    /\ status = "cancelled" => b.invalidated /\ b.event # "OrderFilled"
    /\ status = "expired" => b.late /\ ~b.invalidated /\ b.event # "OrderFilled"
    /\ status = "partially-filled" =>
           /\ 0 < b.remaining /\ b.remaining < Making
           /\ b.event = "OrderFilled" \/ (~b.invalidated /\ ~b.late)
    /\ status = "unfillable" => ~Dead(b) /\ ~b.late /\ b.spendable < b.remaining
    /\ status = "open" => ~Dead(b) /\ ~b.late /\ b.spendable >= b.remaining
    /\ status = "accepted" => ~b.invalidated /\ b.remaining = Making /\ ~b.late
    /\ status \in {"rejected", "not-submitted"} => ~b.invalidated /\ b.remaining = Making

VerdictInv ==
    verdict.status \in Firm =>
        /\ verdict.number \in 0 .. final
        /\ BearsOut(Block(verdict.number), verdict.status)

OrderInv == ChainInv /\ EvidenceInv /\ VerdictInv

-----------------------------------------------------------------------------
\* The parts of an evidence.
LEMMA EvidenceFields ==
    ASSUME NEW b \in Evidence
    PROVE  /\ b.id \in Nat /\ b.number \in Nat /\ b.remaining \in 0 .. Making
           /\ b.remaining \in Nat
           /\ b.invalidated \in BOOLEAN /\ b.event \in EventKinds
           /\ b.late \in BOOLEAN /\ b.spendable \in Nat
<1>1. /\ b.id \in Nat /\ b.number \in Nat /\ b.remaining \in 0 .. Making
      /\ b.invalidated \in BOOLEAN /\ b.event \in EventKinds
      /\ b.late \in BOOLEAN /\ b.spendable \in Funds
  BY DEF Evidence
<1>2. Making \in Nat /\ Funds \subseteq Nat
  BY ReconciliationConstants
<1>3. b.remaining \in Nat
  <2>1. b.remaining \in 0 .. Making
    BY <1>1
  <2> QED
    BY <2>1, <1>2
<1>4. b.spendable \in Nat
  <2>1. b.spendable \in Funds
    BY <1>1
  <2> QED
    BY <2>1, <1>2
<1> QED
  BY <1>1, <1>3, <1>4, Zenon

\* The blocks of the branch are evidence.
LEMMA BlockType ==
    ASSUME ChainInv, NEW n \in 0 .. Height
    PROVE  Block(n) \in Evidence /\ Height \in Nat /\ n \in Nat
  BY DEF ChainInv, Block, Height

\* A step to a canonical block keeps the order's history.
LEMMA StepFollows ==
    ASSUME NEW b \in Evidence, NEW c \in Evidence, b.late => c.late,
           \/ \E amount \in 1 .. Making : Filled(b, amount, c)
           \/ Cancelled(b, c) \/ BitTaken(b, c) \/ Untouched(b, c)
    PROVE  Follows(b, c)
<1>1. CASE \E amount \in 1 .. Making : Filled(b, amount, c)
  BY <1>1 DEF Filled, Follows
<1>2. CASE Cancelled(b, c)
  BY <1>2 DEF Cancelled, Follows
<1>3. CASE BitTaken(b, c)
  BY <1>3 DEF BitTaken, Follows
<1>4. CASE Untouched(b, c)
  BY <1>4 DEF Untouched, Follows, Dead
<1> QED
  BY <1>1, <1>2, <1>3, <1>4

\* Following a follower is following.
LEMMA FollowsIsTransitive ==
    ASSUME NEW b \in Evidence, NEW c \in Evidence, NEW d \in Evidence,
           Follows(b, c), Follows(c, d)
    PROVE  Follows(b, d)
  BY DEF Follows, Dead

\* A chain of one block, and no evidence.
LEMMA ChainInit == ReconciliationInit => OrderInv
<1> SUFFICES ASSUME ReconciliationInit PROVE OrderInv
  OBVIOUS
<1>1. PICK funds \in Funds :
        branch = << [id |-> 0, number |-> 0, remaining |-> Making,
                     invalidated |-> FALSE, event |-> "none", late |-> FALSE,
                     spendable |-> funds] >>
  BY DEF ReconciliationInit
<1> DEFINE b == [id |-> 0, number |-> 0, remaining |-> Making,
                 invalidated |-> FALSE, event |-> "none", late |-> FALSE,
                 spendable |-> funds]
<1>2. b \in Evidence
  BY ReconciliationConstants DEF Evidence, EventKinds
<1>3. branch = <<b>> /\ Height = 0 /\ branch \in Seq(Evidence) /\ Len(branch) = 1
  BY <1>1, <1>2 DEF Height
<1>4. Block(0) = b
  BY <1>3 DEF Block
<1>5. ChainInv
  BY <1>3, <1>4 DEF ChainInv, ReconciliationInit, Follows, Dead
<1>6. EvidenceInv /\ VerdictInv
  BY DEF EvidenceInv, VerdictInv, ReconciliationInit, NoVerdict, Firm, Statuses
<1> QED
  BY <1>5, <1>6 DEF OrderInv

\* What every step of the chain keeps of the branch up to the final block.
LEMMA KeepsVerdict ==
    ASSUME ChainInv, VerdictInv, verdict' = verdict, final' \in Nat, final' >= final,
           \A n \in 0 .. final : Block(n)' = Block(n)
    PROVE  VerdictInv'
<1>1. final \in Nat
  BY DEF ChainInv, Height
<1>2. CASE verdict.status \in Firm
  <2>1. verdict.number \in 0 .. final /\ BearsOut(Block(verdict.number), verdict.status)
    BY <1>2 DEF VerdictInv
  <2>2. Block(verdict.number)' = Block(verdict.number)
    BY <2>1
  <2>3. verdict.number \in 0 .. final'
    BY <1>1, <2>1
  <2> QED
    BY <2>1, <2>2, <2>3 DEF VerdictInv, BearsOut, Dead
<1> QED
  BY <1>2 DEF VerdictInv

\* Evidence stays of the chain: a branch may lose its block, and a new block has an
\* identity of its own.
LEMMA KeepsEvidence ==
    ASSUME EvidenceInv, evidence' = evidence, blocks \in Nat, blocks' \in Nat, blocks' >= blocks,
           Height \in Nat, Height' \in Nat,
           \A n \in 0 .. Height' :
             (n <= Height /\ Block(n)' = Block(n)) \/ Block(n)'.id = blocks
    PROVE  EvidenceInv'
<1>1. CASE evidence = <<>>
  BY <1>1 DEF EvidenceInv
<1>2. ASSUME NEW e \in Evidence, evidence = <<e>>, IsOfChain(e)
      PROVE  IsOfChain(e)'
  <2>1. e.number \in Nat /\ e.id \in Nat /\ e.id < blocks
    BY <1>2, EvidenceFields DEF IsOfChain
  <2>2. ASSUME e.number <= Height', (Block(e.number).id = e.id)'
        PROVE  (Block(e.number) = e)'
    <3>1. e.number \in 0 .. Height'
      BY <2>1, <2>2
    <3>2. Block(e.number)'.id = e.id
      BY <2>2
    <3>3. e.number <= Height /\ Block(e.number)' = Block(e.number)
      BY <3>1, <3>2, <2>1
    <3> QED
      BY <3>2, <3>3, <1>2 DEF IsOfChain
  <2> QED
    BY <2>1, <2>2, <1>2 DEF IsOfChain
<1> QED
  BY <1>1, <1>2 DEF EvidenceInv

\* So do steps that leave the chain alone.
LEMMA KeepsChain ==
    ASSUME ChainInv, branch' = branch, blocks' = blocks, final' = final
    PROVE  ChainInv'
<1>1. Height' = Height /\ \A n : Block(n)' = Block(n)
  BY DEF Height, Block
<1>2. (\A n, m \in 0 .. Height : n <= m => Follows(Block(n), Block(m)))'
  BY <1>1 DEF ChainInv, Follows, Dead
<1> QED
  BY <1>1, <1>2 DEF ChainInv

LEMMA NewBlockStep == OrderInv /\ NewBlock => OrderInv'
<1> SUFFICES ASSUME OrderInv, NewBlock PROVE OrderInv'
  OBVIOUS
<1> USE DEF OrderInv
<1> DEFINE b == Block(Height)
<1>1. PICK c \in [id : {blocks}, number : {Height + 1}, remaining : 0 .. Making,
                 invalidated : BOOLEAN, event : EventKinds, late : BOOLEAN,
                 spendable : Funds] :
        /\ b.late => c.late
        /\ \/ \E amount \in 1 .. Making : Filled(b, amount, c)
           \/ Cancelled(b, c) \/ BitTaken(b, c) \/ Untouched(b, c)
        /\ branch' = Append(branch, c)
  BY DEF NewBlock
<1>2. blocks' = blocks + 1 /\ final' = final /\ evidence' = evidence /\ verdict' = verdict
  BY DEF NewBlock
<1>3. Height \in Nat /\ blocks \in Nat /\ final \in 0 .. Height /\ branch \in Seq(Evidence)
  BY DEF ChainInv, Height
<1>4. c \in Evidence /\ c.id = blocks /\ c.number = Height + 1
  BY <1>1, <1>3 DEF Evidence
<1>5. /\ Height' = Height + 1 /\ branch' \in Seq(Evidence) /\ Len(branch') > 0
      /\ \A n \in Nat : n = Height + 1 => Block(n)' = c
      /\ \A n \in 0 .. Height : Block(n)' = Block(n)
  <2>1. Len(branch') = Len(branch) + 1 /\ branch' \in Seq(Evidence)
    BY <1>1, <1>3, <1>4, AppendProperties
  <2>2. branch'[Len(branch) + 1] = c /\ \A i \in 1 .. Len(branch) : branch'[i] = branch[i]
    BY <1>1, <1>3, <1>4, AppendProperties
  <2>3. Len(branch) \in Nat /\ Len(branch) = Height + 1
    BY <1>3 DEF Height
  <2> QED
    BY <2>1, <2>2, <2>3 DEF Height, Block
<1>6. b \in Evidence /\ Height \in 0 .. Height
  BY <1>3, BlockType
<1>7. Follows(b, c)
  BY <1>1, <1>4, <1>6, StepFollows
<1>8. ASSUME NEW n \in 0 .. Height', NEW m \in 0 .. Height', n <= m
      PROVE  Follows(Block(n)', Block(m)')
  <2>1. CASE m <= Height
    <3>1. n \in 0 .. Height /\ m \in 0 .. Height
      BY <2>1, <1>8, <1>3, <1>5
    <3> QED
      BY <3>1, <1>8, <1>5 DEF ChainInv
  <2>2. CASE m = Height + 1 /\ n <= Height
    <3>1. n \in 0 .. Height /\ n <= Height
      BY <2>2, <1>8, <1>3, <1>5
    <3>2. Follows(Block(n), b)
      BY <3>1, <1>3 DEF ChainInv
    <3>3. Block(n) \in Evidence
      BY <3>1, BlockType
    <3>4. Follows(Block(n), c)
      BY <3>2, <3>3, <1>4, <1>6, <1>7, FollowsIsTransitive
    <3> QED
      BY <3>1, <3>4, <2>2, <1>5
  <2>3. CASE m = Height + 1 /\ n = Height + 1
    BY <2>3 DEF Follows
  <2> QED
    BY <2>1, <2>2, <2>3, <1>8, <1>3, <1>5
<1>9. ChainInv'
  <2>1. ASSUME NEW n \in 0 .. Height'
        PROVE  Block(n)'.number = n /\ Block(n)'.id < blocks'
    <3>1. CASE n = Height + 1
      BY <3>1, <1>5, <1>4, <1>2, <1>3
    <3>2. CASE n \in 0 .. Height
      <4>1. Block(n).number = n /\ Block(n).id < blocks /\ Block(n).id \in Nat
        BY <3>2, BlockType, EvidenceFields DEF ChainInv
      <4> QED
        BY <3>2, <4>1, <1>5, <1>2, <1>3
    <3> QED
      BY <3>1, <3>2, <1>3, <1>5
  <2>2. Block(0)' = Block(0) /\ Block(0).remaining = Making /\ ~Block(0).late
    BY <1>3, <1>5 DEF ChainInv
  <2>3. blocks' \in Nat /\ final' \in 0 .. Height'
    BY <1>2, <1>3, <1>5
  <2>4. \A n, m \in 0 .. Height' : n <= m => Follows(Block(n)', Block(m)')
    BY <1>8
  <2>5. (\A n, m \in 0 .. Height : n <= m => Follows(Block(n), Block(m)))'
    BY <2>4 DEF Follows, Dead
  <2> QED
    BY <2>1, <2>2, <2>3, <2>5, <1>5 DEF ChainInv
<1>10. EvidenceInv'
  <2>1. \A n \in 0 .. Height' : (n <= Height /\ Block(n)' = Block(n)) \/ Block(n)'.id = blocks
    BY <1>3, <1>4, <1>5
  <2> QED
    BY <2>1, <1>2, <1>3, <1>5, KeepsEvidence
<1>11. VerdictInv'
  BY <1>2, <1>3, <1>5, KeepsVerdict
<1> QED
  BY <1>9, <1>10, <1>11

LEMMA ReorgStep == OrderInv /\ Reorg => OrderInv'
<1> SUFFICES ASSUME OrderInv, Reorg PROVE OrderInv'
  OBVIOUS
<1> USE DEF OrderInv
<1>1. PICK n \in final .. Height - 1 : branch' = SubSeq(branch, 1, n + 1)
  BY DEF Reorg
<1>2. blocks' = blocks /\ final' = final /\ evidence' = evidence /\ verdict' = verdict
  BY DEF Reorg
<1>3. Height \in Nat /\ blocks \in Nat /\ final \in 0 .. Height /\ branch \in Seq(Evidence)
  BY DEF ChainInv, Height
<1>4. /\ branch' \in Seq(Evidence) /\ Len(branch') = n + 1
      /\ \A i \in 1 .. n + 1 : branch'[i] = branch[i]
  BY <1>1, <1>3, SubSeqProperties DEF Height
<1>5. Height' = n /\ n \in Nat /\ n < Height /\ final <= n
  BY <1>1, <1>3, <1>4 DEF Height
<1>6. ASSUME NEW k \in 0 .. n PROVE Block(k)' = Block(k)
  BY <1>4, <1>5 DEF Block
<1>7. ChainInv'
  <2>1. \A k \in 0 .. n : k \in 0 .. Height
    BY <1>3, <1>5
  <2>2. \A k \in 0 .. Height' : Block(k)'.number = k /\ Block(k)'.id < blocks'
    BY <2>1, <1>6, <1>5, <1>2 DEF ChainInv
  <2>3. Block(0)' = Block(0) /\ Block(0).remaining = Making /\ ~Block(0).late
    BY <1>3, <1>5, <1>6 DEF ChainInv
  <2>4. \A k, m \in 0 .. Height' : k <= m => Follows(Block(k)', Block(m)')
    BY <2>1, <1>6, <1>5 DEF ChainInv
  <2>5. (\A k, m \in 0 .. Height : k <= m => Follows(Block(k), Block(m)))'
    BY <2>4 DEF Follows, Dead
  <2>6. blocks' \in Nat /\ final' \in 0 .. Height' /\ Len(branch') > 0
    BY <1>2, <1>3, <1>4, <1>5
  <2> QED
    BY <2>2, <2>3, <2>5, <2>6, <1>4 DEF ChainInv
<1>8. EvidenceInv'
  BY <1>2, <1>3, <1>5, <1>6, KeepsEvidence
<1>9. VerdictInv'
  BY <1>2, <1>3, <1>5, <1>6, KeepsVerdict
<1> QED
  BY <1>7, <1>8, <1>9

LEMMA SettleStep == OrderInv /\ FinalizeBlock => OrderInv'
<1> SUFFICES ASSUME OrderInv, FinalizeBlock PROVE OrderInv'
  OBVIOUS
<1> USE DEF OrderInv
<1>1. /\ branch' = branch /\ blocks' = blocks /\ evidence' = evidence /\ verdict' = verdict
      /\ final' = final + 1 /\ final < Height
  BY DEF FinalizeBlock
<1>2. Height' = Height /\ Height \in Nat /\ final \in 0 .. Height /\ \A n : Block(n)' = Block(n)
  BY <1>1 DEF Height, Block, ChainInv
<1>3. final' \in 0 .. Height'
  BY <1>1, <1>2
<1>4. ChainInv'
  <2>1. (\A n, m \in 0 .. Height : n <= m => Follows(Block(n), Block(m)))'
    BY <1>2 DEF ChainInv, Follows, Dead
  <2> QED
    BY <2>1, <1>1, <1>2, <1>3 DEF ChainInv
<1>5. EvidenceInv'
  BY <1>1, <1>2 DEF EvidenceInv, IsOfChain
<1>6. VerdictInv'
  BY <1>1, <1>2, <1>3, KeepsVerdict
<1> QED
  BY <1>4, <1>5, <1>6

LEMMA CollectStep == OrderInv /\ Collect => OrderInv'
<1> SUFFICES ASSUME OrderInv, Collect PROVE OrderInv'
  OBVIOUS
<1> USE DEF OrderInv
<1>1. PICK n \in 0 .. Height : evidence' = <<Block(n)>>
  BY DEF Collect
<1>2. branch' = branch /\ blocks' = blocks /\ final' = final /\ verdict' = verdict
  BY DEF Collect
<1>3. Block(n) \in Evidence /\ Block(n).number = n /\ Block(n).id < blocks
  BY BlockType DEF ChainInv
<1>4. ChainInv'
  BY <1>2, KeepsChain
<1>5. EvidenceInv'
  BY <1>1, <1>2, <1>3 DEF EvidenceInv, IsOfChain, Block, Height
<1>6. VerdictInv'
  BY <1>2 DEF VerdictInv, BearsOut, Dead, Block
<1> QED
  BY <1>4, <1>5, <1>6

\* A firm status needs evidence of a final, canonical block.
LEMMA FirmIsCertain ==
    ASSUME NEW e, NEW hostile \in BOOLEAN, NEW claim \in Claims, NEW submitted \in BOOLEAN,
           Status(e, hostile, claim, submitted) \in Firm
    PROVE  ~hostile /\ ~Uncertain(e)
  BY DEF Status, Firm, Statuses

\* ... and is what that block bears out.
LEMMA StatusIsBorneOut ==
    ASSUME NEW e \in Evidence, NEW claim \in Claims, NEW submitted \in BOOLEAN,
           ~Uncertain(e), e.number = 0 => e.remaining = Making /\ ~e.late
    PROVE  BearsOut(e, Status(e, FALSE, claim, submitted))
<1> DEFINE s == Status(e, FALSE, claim, submitted)
<1>0. Making \in Nat \ {0} /\ e.remaining \in 0 .. Making /\ e.spendable \in Nat
      /\ e.invalidated \in BOOLEAN /\ e.late \in BOOLEAN
  BY EvidenceFields, ReconciliationConstants
<1>1. CASE Contradicted(e, claim)
  BY <1>1 DEF Status, BearsOut
<1>2. CASE ~Contradicted(e, claim) /\ claim = "rejected"
  BY <1>2 DEF Status, BearsOut, Contradicted, Untraded
<1>3. CASE ~Contradicted(e, claim) /\ claim # "rejected" /\ ~submitted /\ claim = "none" /\ Untraded(e)
  BY <1>3 DEF Status, BearsOut, Untraded
<1>4. CASE /\ ~Contradicted(e, claim) /\ claim # "rejected"
           /\ claim = "accepted" /\ e.number = 0 /\ e.event = "none" /\ ~e.invalidated
  BY <1>4 DEF Status, BearsOut
<1>5. CASE /\ ~Contradicted(e, claim) /\ claim # "rejected"
           /\ ~(~submitted /\ claim = "none" /\ Untraded(e))
           /\ ~(claim = "accepted" /\ e.number = 0 /\ e.event = "none" /\ ~e.invalidated)
  <2>1. CASE e.event # "none"
    <3>1. s = FromEvent(e)
      BY <1>5, <2>1 DEF Status
    <3>2. BearsOut(e, FromEvent(e))
      BY <1>0, <2>1 DEF FromEvent, BearsOut
    <3> QED
      BY <3>1, <3>2
  <2>2. CASE e.event = "none"
    <3>1. s = FromState(e, claim)
      BY <1>5, <2>2 DEF Status
    <3>2. CASE e.invalidated
      BY <3>1, <3>2, <2>2, <1>0 DEF FromState, BearsOut
    <3>3. CASE ~e.invalidated /\ e.late
      BY <3>1, <3>3, <2>2, <1>0 DEF FromState, BearsOut
    <3>4. CASE ~e.invalidated /\ ~e.late
      <4>0. Making \in Nat \ {0} /\ e.remaining \in 0 .. Making /\ e.spendable \in Nat
        BY <1>0
      <4>1. ASSUME e.remaining > 0, e.remaining < Making
            PROVE  BearsOut(e, "partially-filled")
        BY <3>4, <4>1 DEF BearsOut
      <4>2. BearsOut(e, "unknown")
        BY DEF BearsOut
      <4>3. ASSUME e.remaining >= Making, e.spendable < e.remaining
            PROVE  BearsOut(e, "unfillable")
        BY <4>0, <3>4, <4>3 DEF BearsOut, Dead
      <4>4. ASSUME e.remaining >= Making, ~(e.spendable < e.remaining)
            PROVE  BearsOut(e, "open")
        BY <4>0, <3>4, <4>4 DEF BearsOut, Dead
      <4>5. FromState(e, claim) =
              IF e.remaining > 0 /\ e.remaining < Making THEN "partially-filled"
              ELSE IF e.remaining < Making THEN "unknown"
              ELSE IF e.spendable < e.remaining THEN "unfillable"
              ELSE IF claim = "open" THEN "open" ELSE "unknown"
        BY <3>4, Zenon DEF FromState
      <4> HIDE DEF s
      <4>6. BearsOut(e, s)
        BY <3>1, <4>0, <4>1, <4>2, <4>3, <4>4, <4>5
      <4> QED
        BY <4>6 DEF s
    <3> QED
      BY <3>2, <3>3, <3>4
  <2> QED
    BY <2>1, <2>2
<1> QED
  BY <1>1, <1>2, <1>3, <1>4, <1>5

LEMMA ReconcileStep == OrderInv /\ Reconcile => OrderInv'
<1> SUFFICES ASSUME OrderInv, Reconcile PROVE OrderInv'
  OBVIOUS
<1> USE DEF OrderInv
<1>1. PICK e \in Evidence : evidence = <<e>> /\ IsOfChain(e)
  BY DEF EvidenceInv, Reconcile
<1>2. PICK hostile \in BOOLEAN, claim \in Claims, submitted \in BOOLEAN :
        verdict' = [status |-> Status(e, hostile, claim, submitted), number |-> e.number]
  BY <1>1 DEF Reconcile, Hostile
<1>3. /\ branch' = branch /\ blocks' = blocks /\ final' = final /\ evidence' = <<>>
  BY DEF Reconcile
<1>4. ChainInv' /\ EvidenceInv'
  BY <1>3, KeepsChain DEF EvidenceInv
<1>5. ASSUME verdict'.status \in Firm
      PROVE  /\ verdict'.number = e.number /\ e.number \in 0 .. final
             /\ Block(e.number) = e /\ BearsOut(e, verdict'.status)
  <2>1. ~hostile /\ ~Uncertain(e)
    BY <1>2, <1>5, FirmIsCertain
  <2>2. verdict'.status = Status(e, FALSE, claim, submitted) /\ verdict'.number = e.number
    BY <1>2, <2>1
  <2>3. e.number \in Nat /\ e.number <= final /\ e.number <= Height /\ Block(e.number).id = e.id
    BY <2>1, <1>1, EvidenceFields DEF Uncertain, Reorged, Finalized, ChainInv, Height
  <2>4. Block(e.number) = e
    BY <2>3, <1>1 DEF IsOfChain
  <2>5. e.number = 0 => e.remaining = Making /\ ~e.late
    BY <2>4 DEF ChainInv
  <2>6. BearsOut(e, Status(e, FALSE, claim, submitted))
    BY <1>1, <2>1, <2>5, StatusIsBorneOut
  <2>7. final \in Nat
    BY DEF ChainInv, Height
  <2>8. e.number \in 0 .. final
    BY <2>3, <2>7
  <2> QED
    BY <2>2, <2>4, <2>6, <2>8, Zenon
<1>6. VerdictInv'
  BY <1>3, <1>5 DEF VerdictInv, BearsOut, Dead, Block
<1> QED
  BY <1>4, <1>6

LEMMA OrderInvStep ==
    OrderInv /\ [ReconciliationNext]_reconciliationVars => OrderInv'
<1> SUFFICES ASSUME OrderInv, [ReconciliationNext]_reconciliationVars PROVE OrderInv'
  OBVIOUS
<1>1. CASE UNCHANGED reconciliationVars
  <2>1. branch' = branch /\ blocks' = blocks /\ final' = final /\ evidence' = evidence
        /\ verdict' = verdict
    BY <1>1 DEF reconciliationVars
  <2>2. ChainInv'
    BY <2>1, KeepsChain DEF OrderInv
  <2>3. EvidenceInv'
    BY <2>1 DEF OrderInv, EvidenceInv, IsOfChain, Height, Block
  <2>4. VerdictInv'
    BY <2>1 DEF OrderInv, VerdictInv, BearsOut, Block, Dead
  <2> QED
    BY <2>2, <2>3, <2>4 DEF OrderInv
<1>2. CASE ReconciliationNext
  BY <1>2, NewBlockStep, ReorgStep, SettleStep, CollectStep, ReconcileStep, Zenon
     DEF ReconciliationNext
<1> QED
  BY <1>1, <1>2

\* Of reconcileLimitOrder: for any amount, any funds and any number of blocks, however
\* the chain is rewritten short of finality, a verdict that is not provisional is
\* borne out by the finalized block it names.
THEOREM VerdictsAreTrue == ReconciliationSpec => []VerdictIsTrue
<1>1. ReconciliationInit => OrderInv
  BY ChainInit
<1>2. OrderInv /\ [ReconciliationNext]_reconciliationVars => OrderInv'
  BY OrderInvStep
<1>3. OrderInv => VerdictIsTrue
  <2> SUFFICES ASSUME OrderInv, verdict.status \in Firm PROVE VerdictIsTrue
    BY DEF VerdictIsTrue
  <2>1. verdict.number \in 0 .. final /\ BearsOut(Block(verdict.number), verdict.status)
    BY DEF OrderInv, VerdictInv
  <2>2. final \in Nat
    BY DEF OrderInv, ChainInv, Height
  <2> QED
    BY <2>1, <2>2 DEF VerdictIsTrue, BearsOut, Firm, Statuses
<1> QED
  BY <1>1, <1>2, <1>3, PTL DEF ReconciliationSpec

\* What follows a block that bears out an end bears out the same end.
LEMMA EndsAreKept ==
    ASSUME NEW b \in Evidence, NEW c \in Evidence, Follows(b, c),
           NEW s \in {"filled", "cancelled", "expired"}, NEW t \in Firm,
           BearsOut(b, s), BearsOut(c, t)
    PROVE  t \in Leads(s)
<1>0. Making \in Nat \ {0} /\ b.remaining \in 0 .. Making /\ c.remaining \in 0 .. Making
  BY EvidenceFields, ReconciliationConstants
<1>1. CASE s = "filled"
  <2>1. c.remaining = 0 /\ c.event = "OrderFilled" /\ Dead(c)
    BY <1>1 DEF BearsOut, Follows, Dead
  <2> QED
    BY <2>1, <1>0, <1>1 DEF BearsOut, Firm, Statuses, Leads
<1>2. CASE s = "cancelled"
  <2>1. c.invalidated /\ c.event # "OrderFilled" /\ Dead(c)
    BY <1>2 DEF BearsOut, Follows, Dead
  <2> QED
    BY <2>1, <1>0, <1>2 DEF BearsOut, Firm, Statuses, Leads
<1>3. CASE s = "expired"
  <2>1. c.late /\ c.event # "OrderFilled"
    BY <1>3 DEF BearsOut, Follows
  <2> QED
    BY <2>1, <1>0, <1>3 DEF BearsOut, Firm, Statuses, Leads
<1> QED
  BY <1>1, <1>2, <1>3

\* Of the lifecycle of an order: a verdict of an end, once given, is not taken back
\* for another, whatever is claimed and observed later.
THEOREM EndsAreFinal == ReconciliationSpec => EndIsFinal
<1> DEFINE Kept ==
      /\ verdict.status \in {"filled", "cancelled", "expired"}
      /\ verdict'.status \in Firm
      /\ verdict'.number >= verdict.number
      => verdict'.status \in Leads(verdict.status)
<1>1. ReconciliationInit => OrderInv
  BY ChainInit
<1>2. OrderInv /\ [ReconciliationNext]_reconciliationVars => OrderInv'
  BY OrderInvStep
<1>3. OrderInv /\ [ReconciliationNext]_reconciliationVars => [Kept]_verdict
  <2> SUFFICES ASSUME OrderInv, OrderInv', [ReconciliationNext]_reconciliationVars,
                      verdict' # verdict,
                      verdict.status \in {"filled", "cancelled", "expired"},
                      verdict'.status \in Firm,
                      verdict'.number >= verdict.number
               PROVE  verdict'.status \in Leads(verdict.status)
    BY <1>2
  <2>1. branch' = branch /\ final' = final
    BY DEF ReconciliationNext, NewBlock, Reorg, FinalizeBlock, Collect, Reconcile, reconciliationVars
  <2>2. verdict.number \in 0 .. final /\ BearsOut(Block(verdict.number), verdict.status)
    BY DEF OrderInv, VerdictInv, Firm, Statuses
  <2>3. PICK t, n : t = verdict'.status /\ n = verdict'.number
    OBVIOUS
  <2>4. n \in 0 .. final /\ BearsOut(Block(n), t)
    BY <2>1, <2>3 DEF OrderInv, VerdictInv, BearsOut, Block, Dead
  <2>5. final \in 0 .. Height /\ Height \in Nat
    BY DEF OrderInv, ChainInv, Height
  <2>6. n \in 0 .. Height /\ verdict.number \in 0 .. Height /\ verdict.number <= n
    BY <2>2, <2>3, <2>4, <2>5
  <2>7. Follows(Block(verdict.number), Block(n))
    BY <2>6 DEF OrderInv, ChainInv
  <2>8. Block(verdict.number) \in Evidence /\ Block(n) \in Evidence
    BY <2>6, BlockType DEF OrderInv
  <2> QED
    BY <2>2, <2>3, <2>4, <2>7, <2>8, EndsAreKept
<1> QED
  BY <1>1, <1>2, <1>3, PTL DEF ReconciliationSpec, EndIsFinal

\* A decided status is what the evidence says, whatever is claimed.
LEMMA StatusOfTheChain ==
    ASSUME NEW e, NEW claim \in Claims, ~Uncertain(e),
           Status(e, FALSE, claim, TRUE)
             \in {"partially-filled", "filled", "cancelled", "expired", "unfillable"}
    PROVE  Status(e, FALSE, claim, TRUE)
             = IF e.event # "none" THEN FromEvent(e) ELSE FromState(e, "cancelled")
<1> DEFINE s == Status(e, FALSE, claim, TRUE)
<1>1. s = IF e.event # "none" THEN FromEvent(e) ELSE FromState(e, claim)
  BY DEF Status
<1>2. CASE e.event # "none"
  BY <1>1, <1>2
<1>3. CASE e.event = "none"
  <2>1. s = FromState(e, claim)
    BY <1>1, <1>3
  <2>2. FromState(e, claim) \in {"partially-filled", "filled", "cancelled", "expired", "unfillable"}
    BY <2>1
  <2>3. FromState(e, claim) = FromState(e, "cancelled")
    BY <2>2 DEF FromState
  <2> QED
    BY <2>1, <2>3, <1>3
<1> QED
  BY <1>2, <1>3

\* Of one evidence, whatever the submission claims, at most one end can be concluded.
THEOREM TheChainDecides == ReconciliationSpec => []ChainDecides
<1>1. ASSUME NEW e
      PROVE  Cardinality({Status(e, FALSE, claim, TRUE) : claim \in Claims}
                \cap {"partially-filled", "filled", "cancelled", "expired", "unfillable"}) <= 1
  <2> DEFINE Decided == {"partially-filled", "filled", "cancelled", "expired", "unfillable"}
             found == {Status(e, FALSE, claim, TRUE) : claim \in Claims} \cap Decided
             the == IF e.event # "none" THEN FromEvent(e) ELSE FromState(e, "cancelled")
  <2>1. ASSUME NEW s \in found PROVE s = the
    <3>1. PICK claim \in Claims : s = Status(e, FALSE, claim, TRUE)
      OBVIOUS
    <3>2. s \in Decided
      OBVIOUS
    <3>3. s \in Firm
      BY <3>2 DEF Firm, Statuses
    <3>4. ~Uncertain(e)
      BY <3>1, <3>3, FirmIsCertain
    <3> QED
      BY <3>1, <3>2, <3>4, StatusOfTheChain
  <2> HIDE DEF found, the
  <2>2. found \subseteq {the}
    BY <2>1
  <2>3. IsFiniteSet({the}) /\ Cardinality({the}) = 1
    BY FS_Singleton
  <2>4. IsFiniteSet(found) /\ Cardinality(found) <= 1
    BY <2>2, <2>3, FS_Subset
  <2> QED
    BY <2>4 DEF found
<1>2. ChainDecides
  BY <1>1 DEF ChainDecides
<1> QED
  BY <1>2, PTL
=============================================================================
