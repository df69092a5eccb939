------------------------------ MODULE StateQuorum ------------------------------
(***************************************************************************)
(* Agreement of two administrations on an observed value                   *)
(* (packages/operations/src/quorum.ts: establishPureQuorum).               *)
(*                                                                         *)
(* A block stands for its number, hash and parent hash; a request for the  *)
(* source, its commit and schema, and the digest of what was asked. The    *)
(* time of an observation decides nothing here and is left out.            *)
(***************************************************************************)
CONSTANT Administration   \* of each provider

Independent(left, right) ==
    /\ left.provider # right.provider
    /\ Administration[left.provider] # Administration[right.provider]

SameBinding(left, right) ==
    left.request = right.request /\ left.block = right.block

\* establishPureQuorum() of two observations; INVALID_OBSERVATION, of a form
\* that no observation has, is left out.
QuorumCode(left, right) ==
    IF ~left.success \/ ~right.success THEN "OBSERVATION_FAILURE"
    ELSE IF ~Independent(left, right) THEN "INDEPENDENCE_REQUIRED"
    ELSE IF ~SameBinding(left, right) THEN "BINDING_MISMATCH"
    ELSE IF left.value # right.value THEN "VALUE_MISMATCH"
    ELSE "authoritative"

\* What an authoritative result binds.
Binding(left, right) ==
    [block |-> left.block, value |-> left.value,
     providers |-> <<left.provider, right.provider>>]
=============================================================================
