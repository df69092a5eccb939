----------------------------- MODULE MCToolRouter -----------------------------
(***************************************************************************)
(* An instance of ToolRouter for TLC: up to three calls, of which only two *)
(* fit; the first has a deadline, the second a later one, the third none.  *)
(***************************************************************************)
EXTENDS ToolRouter

CONSTANTS c1, c2, c3, alice, bob

MCPrincipalOf == [c \in Calls |-> IF c = c3 THEN bob ELSE alice]

MCClassOf == [c \in Calls |-> IF c = c1 THEN "first-party" ELSE "public"]

MCCostOf == [c \in Calls |-> [d \in Dimensions |-> 1]]

MCPerPrincipal == [d \in Dimensions |-> 2]

MCGlobal == [d \in Dimensions |-> 2]

MCReserve == [d \in Reserved |-> 1]

MCDeadlineOf == [c \in Calls |-> IF c = c1 THEN 1 ELSE IF c = c2 THEN 2 ELSE NoTime]
=============================================================================
