---------------------------- MODULE MakerInventory -----------------------------
(***************************************************************************)
(* CompleteMakerInventoryAdapter.read                                      *)
(* (packages/operations-node/src/limit-order-inventory.ts): the orders of  *)
(* a maker are enumerated page by page from the order service, and each is *)
(* then observed in the chain. Every page and every observation is awaited *)
(* on its own: meanwhile the service lists, reindexes and drops orders,    *)
(* and blocks arrive or are replaced.                                      *)
(*                                                                         *)
(* The requests are those that pass validation. An order hash is a member  *)
(* of Orders. A cursor names a position of the service's list, 0 being the *)
(* null of the first request.                                              *)
(***************************************************************************)
EXTENDS Integers, FiniteSets

CONSTANTS
    Orders,
    Amount,      \* making amount of each order
    Terms,       \* what the service may say of an order, its hash apart
    MaxPages,    \* bounds of the request
    MaxItems,
    MaxBlock     \* bound of the model: blocks that arrive

ASSUME InventoryRequest ==
    /\ Amount \in [Orders -> Nat \ {0}]
    /\ MaxPages \in Nat \ {0} /\ MaxItems \in Nat \ {0}
    /\ MaxBlock \in Nat
    /\ Terms # {}

ChainStates ==
    [left : UNION {0 .. Amount[o] : o \in Orders},
     invalidated : BOOLEAN, expired : BOOLEAN]

VARIABLES
    \* the order service (external)
    position,    \* of each order in its list, 0 before it is accepted
    latest,      \* the last position given
    listed,      \* accepted and not dropped
    terms,
    \* the chain as its reader sees it (external)
    block,       \* identity of its head: number, hash and parent hash
    chain,
    \* read()
    phase,
    pagesRead,
    cursor,
    seenCursors,
    serviceRecords,
    commonBlock,
    observed,    \* the records whose chain state has been read
    records,
    \* history
    promised     \* orders listed from the start of the reading until its
                 \* enumeration ended

service == <<position, latest, listed, terms>>
head == <<block, chain>>
enumeration == <<pagesRead, cursor, seenCursors, serviceRecords>>
observation == <<commonBlock, observed, records>>
inventoryVars == <<service, head, phase, enumeration, observation, promised>>

NoRecords == [o \in {} |-> 0]

NoBlock == 0

Live(state) == ~state.invalidated /\ ~state.expired /\ state.left > 0

InventoryInit ==
    /\ position = [o \in Orders |-> 0] /\ latest = 0 /\ listed = {}
    /\ terms \in [Orders -> Terms]
    /\ block = 1
    /\ chain = [o \in Orders |->
                   [left |-> Amount[o], invalidated |-> FALSE, expired |-> FALSE]]
    /\ phase = "idle"
    /\ pagesRead = 0 /\ cursor = 0 /\ seenCursors = {}
    /\ serviceRecords = NoRecords
    /\ commonBlock = NoBlock /\ observed = {} /\ records = NoRecords
    /\ promised = {}

-----------------------------------------------------------------------------
(* The order service and the chain.                                        *)

Accept(o) ==
    /\ position[o] = 0
    /\ latest' = latest + 1
    /\ position' = [position EXCEPT ![o] = latest + 1]
    /\ listed' = listed \cup {o}
    /\ UNCHANGED <<terms, head, phase, enumeration, observation, promised>>

\* The service drops an order it has found to be final.
Drop(o) ==
    /\ o \in listed
    /\ listed' = listed \ {o}
    /\ promised' = IF phase = "enumerating" THEN promised \ {o} ELSE promised
    /\ UNCHANGED <<position, latest, terms, head, phase, enumeration, observation>>

Reindex(o) ==
    /\ o \in listed
    /\ \E t \in Terms : t # terms[o] /\ terms' = [terms EXCEPT ![o] = t]
    /\ UNCHANGED <<position, latest, listed, head, phase, enumeration,
                   observation, promised>>

\* A block arrives, or replaces the head: an order is filled, invalidated or
\* expires, or a fill is undone.
NewHead(o) ==
    /\ block <= MaxBlock
    /\ block' = block + 1
    /\ \E state \in ChainStates :
        /\ state.left <= Amount[o]
        /\ chain' = [chain EXCEPT ![o] = state]
    /\ UNCHANGED <<service, phase, enumeration, observation, promised>>

-----------------------------------------------------------------------------
(* read(): the enumeration.                                                *)

Begin ==
    /\ phase \notin {"enumerating", "observing"}
    /\ phase' = "enumerating"
    /\ pagesRead' = 0 /\ cursor' = 0 /\ seenCursors' = {}
    /\ serviceRecords' = NoRecords
    /\ commonBlock' = NoBlock /\ observed' = {} /\ records' = NoRecords
    /\ promised' = listed
    /\ UNCHANGED <<service, head>>

EnumerationFails ==
    /\ phase' = "upstream-failed"
    /\ UNCHANGED <<service, head, enumeration, observation, promised>>

TooManyPages(n) == n >= MaxPages

PageBound ==
    /\ phase = "enumerating"
    /\ TooManyPages(pagesRead)
    /\ EnumerationFails

\* The request throws, or its answer is not maker-wide, not well formed, or
\* has an empty cursor.
PageUnusable ==
    /\ phase = "enumerating"
    /\ ~TooManyPages(pagesRead)
    /\ EnumerationFails

\* The orders of a page: those listed after position from, up to position upto.
Page(from, upto) == {o \in listed : from < position[o] /\ position[o] <= upto}

Conflicting(items) ==
    \E o \in items \cap DOMAIN serviceRecords : serviceRecords[o] # terms[o]

TooManyItems(items) == Cardinality(DOMAIN serviceRecords \cup items) > MaxItems

\* Fault: the records of earlier pages are forgotten.
TakeItems_OnePage(items) == serviceRecords' = [o \in items |-> terms[o]]

TakeItems(items) ==
    serviceRecords' = [o \in DOMAIN serviceRecords \cup items |->
                          IF o \in items THEN terms[o] ELSE serviceRecords[o]]

\* A page that names a next one. The service may repeat orders the reader
\* has, and may name a position it named before.
ReadPage ==
    /\ phase = "enumerating"
    /\ ~TooManyPages(pagesRead)
    /\ \E from \in 0 .. cursor : \E next \in from + 1 .. latest :
        LET items == Page(from, next) IN
        IF Conflicting(items) \/ TooManyItems(items) \/ next \in seenCursors
        THEN EnumerationFails
        ELSE /\ pagesRead' = pagesRead + 1
             /\ TakeItems(items)
             /\ cursor' = next
             /\ seenCursors' = seenCursors \cup {next}
             /\ UNCHANGED <<service, head, phase, observation, promised>>

\* The last page. Without orders there is nothing to observe and the reading
\* is complete.
ReadLastPage ==
    /\ phase = "enumerating"
    /\ ~TooManyPages(pagesRead)
    /\ \E from \in 0 .. cursor :
        LET items == Page(from, latest) IN
        IF Conflicting(items) \/ TooManyItems(items)
        THEN EnumerationFails
        ELSE /\ pagesRead' = pagesRead + 1
             /\ TakeItems(items)
             /\ phase' = IF DOMAIN serviceRecords \cup items = {}
                         THEN "complete" ELSE "observing"
             /\ UNCHANGED <<service, head, cursor, seenCursors, observation, promised>>

-----------------------------------------------------------------------------
(* read(): the chain observations.                                         *)

ObservationFails ==
    /\ phase' = "provider-failed"
    /\ UNCHANGED <<service, head, enumeration, observation, promised>>

\* The provider throws or its answer is not well formed.
ObservationUnusable == phase = "observing" /\ ObservationFails

\* Fault: observations of different blocks are mixed.
SameBlock_Any == commonBlock \in Nat

SameBlock == commonBlock \in {NoBlock, block}

Observe(o) ==
    /\ phase = "observing"
    /\ o \in DOMAIN serviceRecords \ observed
    /\ IF ~SameBlock
       THEN ObservationFails
       ELSE /\ commonBlock' = block
            /\ observed' = observed \cup {o}
            /\ records' = [p \in DOMAIN records \cup
                                 (IF Live(chain[o]) THEN {o} ELSE {}) |->
                              IF p = o THEN chain[o].left ELSE records[p]]
            /\ phase' = IF observed' = DOMAIN serviceRecords
                        THEN "complete" ELSE "observing"
            /\ UNCHANGED <<service, head, enumeration, promised>>

InventoryNext ==
    \/ \E o \in Orders : Accept(o) \/ Drop(o) \/ Reindex(o) \/ NewHead(o)
    \/ Begin \/ PageBound \/ PageUnusable \/ ReadPage \/ ReadLastPage
    \/ ObservationUnusable
    \/ \E o \in Orders : Observe(o)

InventorySpec == InventoryInit /\ [][InventoryNext]_inventoryVars

-----------------------------------------------------------------------------

\* Types, and what bounds the reading: it never asks for more pages, nor
\* holds more orders, than the request allows, and only observes what it
\* enumerated.
InventoryTypeOK ==
    /\ position \in [Orders -> 0 .. latest] /\ latest \in Nat
    /\ listed \subseteq {o \in Orders : position[o] > 0}
    /\ terms \in [Orders -> Terms]
    /\ block \in Nat \ {NoBlock}
    /\ chain \in [Orders -> ChainStates]
    /\ phase \in {"idle", "enumerating", "observing", "complete",
                  "upstream-failed", "provider-failed"}
    /\ pagesRead \in 0 .. MaxPages
    /\ cursor \in 0 .. latest /\ seenCursors \subseteq 1 .. latest
    /\ DOMAIN serviceRecords \subseteq Orders
    /\ serviceRecords \in [DOMAIN serviceRecords -> Terms]
    /\ ~TooManyItems({})
    /\ commonBlock \in 0 .. block
    /\ observed \subseteq DOMAIN serviceRecords
    /\ DOMAIN records \subseteq observed
    /\ records \in [DOMAIN records -> Nat]
    /\ promised \subseteq Orders

Phase ==
    IF phase \in {"enumerating", "observing"} THEN "reading"
    ELSE IF phase \in {"upstream-failed", "provider-failed"} THEN "failed"
    ELSE phase

Abstract == INSTANCE InventoryRead WITH
    phase <- Phase,
    inventory <- IF phase = "complete" THEN records ELSE NoRecords

\* The reading of many pages and observations keeps the promise of
\* InventoryRead: whatever the service and the chain do meanwhile, a complete
\* inventory holds every live order that stayed listed, each with what is left
\* of it in one and the same block.
ReadsInventory == Abstract!Spec

\* Why no order is missed: what is promised has been gathered already or lies
\* beyond the cursor.
NothingMissed ==
    /\ phase = "enumerating" =>
        \A o \in promised : o \in listed /\
            (o \in DOMAIN serviceRecords \/ position[o] > cursor)
    /\ phase = "observing" => promised \subseteq DOMAIN serviceRecords
=============================================================================
