----------------------------- MODULE PhoenixListing -----------------------------
(***************************************************************************)
(* The reading of a list of the Phoenix service page by page               *)
(* (packages/operations-node/src/phoenix.ts, PhoenixClient.#execute), by   *)
(* which all the list operations of the client read.                       *)
(*                                                                         *)
(* The service is external: it keeps items in an order, a cursor is a      *)
(* place in that order, and a page holds all that is listed between two    *)
(* places; it may hold other items too. Items come and go while pages are  *)
(* read. The service may also answer with what is no page, fail, or return *)
(* a cursor it has given before.                                           *)
(***************************************************************************)
EXTENDS Integers, FiniteSets

CONSTANTS
    Items,        \* an item is its place in the order of the service
    MaxPages, MaxItems    \* bounds given by the caller

ASSUME ListingConstants ==
    Items \subseteq Nat \ {0} /\ MaxPages \in Nat \ {0} /\ MaxItems \in Nat \ {0}

VARIABLES
    listed,       \* at the service
    allAlong,     \* history: listed since the reading began
    reading,      \* "idle", "waiting", or how it ended
    from,         \* the cursor the caller began with, 0 for none
    cursor,
    seenCursors,
    pages,        \* number of pages read
    items         \* items read: distinct ones
listingVars == <<listed, allAlong, reading, from, cursor, seenCursors, pages, items>>

Places == Items \cup {0}

StopReasons == {"complete", "page-bound", "item-bound", "cursor-missing",
                "cursor-repeated", "projection-failure", "source-response"}

ListingInit ==
    /\ listed \in SUBSET Items /\ allAlong = {}
    /\ reading = "idle" /\ from = 0 /\ cursor = 0 /\ seenCursors = {}
    /\ pages = 0 /\ items = {}

-----------------------------------------------------------------------------
(* The service.                                                            *)

List(i) ==
    /\ i \notin listed
    /\ listed' = listed \cup {i}
    /\ UNCHANGED <<allAlong, reading, from, cursor, seenCursors, pages, items>>

Delist(i) ==
    /\ i \in listed
    /\ listed' = listed \ {i}
    /\ allAlong' = allAlong \ {i}
    /\ UNCHANGED <<reading, from, cursor, seenCursors, pages, items>>

\* A page for the cursor p: all that is listed from there up to place next, and
\* perhaps more (what was also on an earlier page); whether there is more behind
\* it. Next may be a place passed before.
PageFrom(p) ==
    {page \in [items : SUBSET listed, next : Places, hasMore : BOOLEAN] :
        /\ {i \in listed : p < i /\ i <= page.next} \subseteq page.items
        /\ page.hasMore <=> \E i \in listed : i > page.next}

-----------------------------------------------------------------------------
(* The client.                                                             *)

\* The bounds or the query are invalid: a failure before anything is read.
RefuseRequest ==
    /\ reading # "waiting"
    /\ reading' = "failed"
    /\ items' = {}
    /\ UNCHANGED <<listed, allAlong, from, cursor, seenCursors, pages>>

\* The caller's query may begin at a cursor of an earlier reading.
BeginListing(start) ==
    /\ reading # "waiting"
    /\ reading' = "waiting"
    /\ from' = start /\ cursor' = start
    /\ seenCursors' = {start} \ {0}
    /\ pages' = 0 /\ items' = {}
    /\ allAlong' = listed
    /\ UNCHANGED listed

\* A failed transport or an unreadable body: a failure, and no items.
ListingFails ==
    /\ reading = "waiting"
    /\ reading' = "failed"
    /\ items' = {}
    /\ UNCHANGED <<listed, allAlong, from, cursor, seenCursors, pages>>

\* An answer other than success: it is kept as a page, and the reading ends with
\* what it has.
SourceResponse ==
    /\ reading = "waiting"
    /\ reading' = "source-response"
    /\ pages' = pages + 1
    /\ UNCHANGED <<listed, allAlong, from, cursor, seenCursors, items>>

\* So does a body that is no page.
ProjectionFailure ==
    /\ reading = "waiting"
    /\ reading' = "projection-failure"
    /\ pages' = pages + 1
    /\ UNCHANGED <<listed, allAlong, from, cursor, seenCursors, items>>

\* Only an item that is new is one too many.
TooManyItems(page) == Cardinality(items \cup page.items) > MaxItems

\* What of a page that is too long is still taken: its first new items.
Fitting(page) ==
    {more \in SUBSET (page.items \ items) :
        Cardinality(items) + Cardinality(more) = MaxItems}

PageOverItemBound ==
    /\ reading = "waiting"
    /\ \E page \in PageFrom(cursor) :
        /\ TooManyItems(page)
        /\ \E more \in Fitting(page) : items' = items \cup more
    /\ reading' = "item-bound"
    /\ pages' = pages + 1
    /\ UNCHANGED <<listed, allAlong, from, cursor, seenCursors>>

\* Fault: a page without a next cursor is the last one.
LastPage_WithoutCursor ==
    /\ reading = "waiting"
    /\ \E page \in PageFrom(cursor) :
        /\ ~TooManyItems(page)
        /\ items' = items \cup page.items
    /\ reading' = "complete"
    /\ pages' = pages + 1
    /\ UNCHANGED <<listed, allAlong, from, cursor, seenCursors>>

LastPage ==
    /\ reading = "waiting"
    /\ \E page \in PageFrom(cursor) :
        /\ ~TooManyItems(page) /\ ~page.hasMore
        /\ items' = items \cup page.items
    /\ reading' = "complete"
    /\ pages' = pages + 1
    /\ UNCHANGED <<listed, allAlong, from, cursor, seenCursors>>

\* There is more, but the page does not say where.
PageWithoutCursor ==
    /\ reading = "waiting"
    /\ \E page \in PageFrom(cursor) :
        /\ ~TooManyItems(page) /\ page.hasMore
        /\ items' = items \cup page.items
    /\ reading' = "cursor-missing"
    /\ pages' = pages + 1
    /\ UNCHANGED <<listed, allAlong, from, cursor, seenCursors>>

\* The page count is looked at first, then the cursor.
NextPage ==
    /\ reading = "waiting"
    /\ \E page \in PageFrom(cursor) :
        /\ ~TooManyItems(page) /\ page.hasMore /\ page.next # 0
        /\ items' = items \cup page.items
        /\ cursor' = page.next
    /\ pages' = pages + 1
    /\ seenCursors' = seenCursors \cup {cursor'}
    /\ reading' = IF pages' = MaxPages THEN "page-bound"
                  ELSE IF cursor' \in seenCursors THEN "cursor-repeated"
                  ELSE "waiting"
    /\ UNCHANGED <<listed, allAlong, from>>

ListingNext ==
    \/ \E i \in Items : List(i) \/ Delist(i)
    \/ \E start \in Places : BeginListing(start)
    \/ RefuseRequest \/ ListingFails \/ SourceResponse \/ ProjectionFailure
    \/ PageOverItemBound \/ LastPage \/ PageWithoutCursor \/ NextPage

-----------------------------------------------------------------------------

\* Types; only items still listed count as listed all along.
ListingTypeOK ==
    /\ listed \subseteq Items /\ allAlong \subseteq listed
    /\ reading \in {"idle", "waiting", "failed"} \cup StopReasons
    /\ from \in Places /\ cursor \in Places /\ seenCursors \subseteq Places
    /\ pages \in 0 .. MaxPages
    /\ items \subseteq Items

\* A reading that ended complete has every item behind its first cursor that
\* was listed from its beginning to its end, whatever came and went meanwhile.
CompleteListing ==
    reading = "complete" => \A i \in allAlong : i > from => i \in items
=============================================================================
