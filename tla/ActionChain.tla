------------------------------ MODULE ActionChain ------------------------------
(***************************************************************************)
(* The chain on which finalized actions execute, and the account's wallet  *)
(* (external: the program neither signs nor sends).                        *)
(*                                                                         *)
(* An execution is what the wallet sends, as often as it likes: the action *)
(* it was frozen for and                                                   *)
(*   funded      the tokens it pulls from the account to the adapter,      *)
(*   spends      "all" of them, or their "cost" when it executes,          *)
(*   permits     the Permit2 nonces it uses up,                            *)
(*   phase, deadline    when the pool accepts it.                          *)
(* Blocks arrive and are replaced until they are final; the cost may be any *)
(* by then, and others move the balance of the adapter.                    *)
(***************************************************************************)
EXTENDS Integers, Sequences, SequencesExt, FiniteSets

CONSTANTS
    Expiry,        \* time at which the pool changes phase
    Costs,         \* of what an action with a preview spends
    MaxTime, MaxHeight, MaxBlocks, MaxSent, MaxBalance   \* bounds of the model

ASSUME ChainConstants ==
    /\ Expiry \in Nat /\ Costs \subseteq Nat \ {0}
    /\ {MaxTime, MaxHeight, MaxBlocks, MaxSent, MaxBalance} \subseteq Nat

VARIABLES
    clock,
    blocks,        \* all there have been: number, balance of the adapter and
                   \* what was executed up to it
    branch,        \* the canonical ones
    final,         \* number of the last that is never replaced
    sent           \* transactions of the wallet: the execution of each
chainVars == <<clock, blocks, branch, final, sent>>

Latest == blocks[branch[Len(branch)]]

Phase(time) == IF time < Expiry THEN "pre-expiry" ELSE "post-expiry"

ChainInit ==
    /\ clock = 0
    /\ blocks = <<[number |-> 1, balance |-> 0, done |-> <<>>]>>
    /\ branch = <<1>> /\ final = 1 /\ sent = <<>>

Tick == clock < MaxTime /\ clock' = clock + 1 /\ UNCHANGED <<blocks, branch, final, sent>>

Send(execution) ==
    /\ Len(sent) < MaxSent
    /\ sent' = Append(sent, execution)
    /\ UNCHANGED <<clock, blocks, branch, final>>

Permits(done) ==
    UNION {sent[done[i].tx].permits : i \in {j \in DOMAIN done : done[j].result = "success"}}

MustRevert(execution, done, cost) ==
    \/ clock > execution.deadline \/ Phase(clock) # execution.phase
    \/ execution.permits \cap Permits(done) # {}
    \/ execution.spends = "cost" /\ cost > execution.funded

Left(execution, result, cost) ==
    IF result = "success" /\ execution.spends = "cost" THEN execution.funded - cost ELSE 0

\* A block on top of the n-th canonical one.
Grow(n, block) ==
    /\ n \in final .. Len(branch) /\ n < MaxHeight /\ Len(blocks) < MaxBlocks
    /\ blocks' = Append(blocks, block)
    /\ branch' = Append(SubSeq(branch, 1, n), Len(blocks) + 1)
    /\ UNCHANGED <<clock, final, sent>>

Others(n) ==
    \E b \in 0 .. MaxBalance :
        Grow(n, [blocks[branch[n]] EXCEPT !.number = n + 1, !.balance = b])

\* A transaction executes, once; it may also revert for reasons of its own, and
\* have its effects or not.
Execute(n, t) ==
    LET parent == blocks[branch[n]] IN
    /\ \A i \in DOMAIN parent.done : parent.done[i].tx # t
    /\ \E result \in {"success", "revert"}, effects \in BOOLEAN, cost \in Costs :
        /\ MustRevert(sent[t], parent.done, cost) => result = "revert"
        /\ result = "revert" => ~effects
        /\ LET end == parent.balance + Left(sent[t], result, cost) IN
           /\ end <= MaxBalance
           /\ Grow(n, [parent EXCEPT !.number = n + 1, !.balance = end,
                !.done = Append(@, [tx |-> t, number |-> n + 1, result |-> result,
                    effects |-> effects, start |-> parent.balance, end |-> end])])

BecomeFinal ==
    /\ final < Len(branch) /\ final' = final + 1
    /\ UNCHANGED <<clock, blocks, branch, sent>>

ChainNext ==
    \/ Tick \/ BecomeFinal
    \/ \E n \in DOMAIN branch : Others(n)
    \/ \E n \in DOMAIN branch, t \in DOMAIN sent : Execute(n, t)
=============================================================================
