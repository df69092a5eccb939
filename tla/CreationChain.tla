------------------------------ MODULE CreationChain ------------------------------
(***************************************************************************)
(* The chain on which markets are made (external).                         *)
(*                                                                         *)
(* The state of a block holds                                              *)
(*   wrapper     what the registry knows for the pair of assets            *)
(*   relations   what it, its factory, the assets and the feeds are,       *)
(*               "built" as the build of the market expects                *)
(*   pool        whether the market of the pair is there                   *)
(* and, of the Safe that governs,                                          *)
(*   nonce, delay  its nonce and the delay of its timelock                 *)
(*   open        whether it holds its roles, and pools can be created      *)
(*   rate, fresh what the feeds say                                        *)
(* Others change it as they like, within a world of states; a client's     *)
(* transactions execute in a block at most once. Blocks are replaced until  *)
(* they are final.                                                         *)
(***************************************************************************)
EXTENDS Integers, Sequences, SequencesExt, FiniteSets

CONSTANTS
    Expected,     \* address of the wrapper that the registry deploys
    MaxSent       \* bound of the model, of which a world holds two more

ASSUME ChainConstants == Expected # "zero" /\ MaxSent \in Nat

VARIABLES
    world,     \* states that others bring about, and how high the chain grows and
               \* by how many blocks: bounds of the model
    blocks,    \* all there have been: number, parent, state and what was
               \* executed up to it of the client's transactions
    branch,    \* the canonical ones
    final,     \* number of the last that is never replaced
    sent       \* transactions of the client
chainVars == <<world, blocks, branch, final, sent>>

\* The states of a world.
IsState(s) ==
    /\ DOMAIN s = {"wrapper", "relations", "pool", "nonce", "delay", "open", "rate", "fresh"}
    /\ {s.nonce, s.delay, s.rate} \subseteq Nat

ChainInit(w) ==
    /\ world = w
    /\ \E s \in w.states : blocks = <<[number |-> 1, parent |-> 0, state |-> s, done |-> <<>>]>>
    /\ branch = <<1>> /\ final = 1 /\ sent = <<>>

\* A block on top of the n-th canonical one.
Grow(n, state, done) ==
    /\ n \in final .. Len(branch) /\ n < world.height /\ Len(blocks) < world.blocks
    /\ blocks' = Append(blocks,
            [number |-> n + 1, parent |-> branch[n], state |-> state, done |-> done])
    /\ branch' = Append(SubSeq(branch, 1, n), Len(blocks) + 1)
    /\ UNCHANGED <<world, final, sent>>

Others(n) ==
    LET parent == blocks[branch[n]] IN
    \E s \in world.states : Grow(n, [s EXCEPT !.pool = @ \/ parent.state.pool], parent.done)

Sending(transaction) ==
    /\ Len(sent) < MaxSent
    /\ sent' = Append(sent, transaction)
    /\ UNCHANGED <<world, blocks, branch, final>>

\* deploy() of the registry deploys the wrapper, or finds that it has one.
Registering(state) ==
    IF state.wrapper = "zero" THEN [state EXCEPT !.wrapper = Expected] ELSE state

\* The pool is created once, upon the wrapper; any transaction may revert.
Executes(n, t) ==
    LET parent == blocks[branch[n]]
        executed(status, events) ==
            Append(parent.done, [tx |-> t, number |-> n + 1, status |-> status, events |-> events])
    IN
    /\ \A i \in DOMAIN parent.done : parent.done[i].tx # t
    /\ \/ Grow(n, parent.state, executed("revert", 0))
       \/ /\ sent[t] = "registry"
          /\ Grow(n, Registering(parent.state),
                executed("success", IF parent.state.wrapper = "zero" THEN 1 ELSE 0))
       \/ /\ sent[t] = "pool" /\ parent.state.wrapper = Expected /\ ~parent.state.pool
          /\ Grow(n, [parent.state EXCEPT !.pool = TRUE], executed("success", 1))

BecomeFinal ==
    /\ final < Len(branch) /\ final' = final + 1
    /\ UNCHANGED <<world, blocks, branch, sent>>

ChainNext ==
    \/ BecomeFinal
    \/ \E n \in DOMAIN branch : Others(n) \/ \E t \in DOMAIN sent : Executes(n, t)
=============================================================================
