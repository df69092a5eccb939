---------------------------- MODULE SafeMarketPackage ----------------------------
(***************************************************************************)
(* The preparation of the market that a Safe creates through its timelock  *)
(* (packages/gateway/src/safe-market.ts, safe-market-proof.ts). A call     *)
(* pins a block, reads what it needs from two providers, builds the two    *)
(* transactions, proves them on a fork of its own, and publishes them with *)
(* a manifest in place of the package that was there.                      *)
(*                                                                         *)
(*   step   "idle" -> "fork" -> "check" -> "before"                        *)
(*          -> "schedule" -> "scheduled" -> "execute" -> "executed" ->     *)
(*          "verify" -> "manifest" -> "move" -> "publish" -> "remove" or   *)
(*          "restore" -> "done" or "failed", or "crashed"                  *)
(*                                                                         *)
(* Reads name a block by its number. What two providers must agree on is   *)
(* read once: if they agree, it is as if both had answered of one block.   *)
(*                                                                         *)
(* The fork is of the primary provider alone, which may say anything, and  *)
(* reads the state by the number of the block as the proof goes along.     *)
(* Its clock runs on while the proof waits for its receipts. It listens on *)
(* a port that comes of the process, so calls of one process meet on it.   *)
(***************************************************************************)
EXTENDS CreationChain

CONSTANTS
    Previews,    \* calls
    PortOf,      \* of each
    Proves,      \* those that prove: a developer may skip the proof
    MaxWait,     \* longest time on the fork between the two transactions: the
                 \* requests and the receipt in between time out
    Nobody

ASSUME PackageConstants ==
    MaxWait \in Nat /\ Nobody \notin Previews \cup {"former"} /\ "former" \notin Previews

VARIABLES
    asked,       \* calls that are made
    step,
    seen,        \* the block each call pinned, and those it read parts of the state of
    stage,       \* its directory of files
    fork,        \* at each port: the call that spawned it, what it shows of the
                 \* chain, the nonce of the Safe and the operations there
    shown,       \* history: what each call's fork had shown when its proof passed
    output,      \* the package that is published
    backup,      \* and what a call moved away
    latest       \* history: the last that was published
packageVars == <<asked, step, seen, stage, fork, shown, output, backup, latest>>

Parts == {"governance", "feeds"}

NoPackage == [of |-> Nobody]

Unseen == [p \in {"pin"} \cup Parts |-> Nobody]

\* A package may have been published before.
PackageInit(calls) ==
    /\ asked = calls
    /\ step = [c \in Previews |-> "idle"]
    /\ seen = [c \in Previews |-> Unseen]
    /\ stage = [c \in Previews |-> NoPackage]
    /\ fork = [p \in {PortOf[c] : c \in Previews} |-> Nobody]
    /\ shown = [c \in Previews |-> Nobody]
    /\ output \in {NoPackage, [of |-> "former", files |-> {"schedule", "execute", "manifest"},
                              proof |-> "not-run"]}
    /\ backup = [c \in Previews |-> NoPackage]
    /\ latest = output

Goto(c, s) == step' = [step EXCEPT ![c] = s]

-----------------------------------------------------------------------------
(* Reading. *)

\* The governance path is there; the feeds are fresh. (That the market is not there
\* is checked too: it cannot be, for it is named by the time of the block.)
ValidPart(part, state) ==
    IF part = "governance" THEN state.open ELSE state.fresh

\* Of the lower of the latest blocks of the two providers, which both know: every
\* part was read while a block of that number was canonical.
Snapshots ==
    {s \in [{"pin"} \cup Parts -> DOMAIN blocks] :
        \A p \in Parts :
            /\ blocks[s[p]].number = blocks[s["pin"]].number
            /\ ValidPart(p, blocks[s[p]].state)}

Number(c) == blocks[seen[c]["pin"]].number

\* Half a percent below and above, rounded away from it.
RateMin(rate) == (rate * 995) \div 1000
RateMax(rate) == (rate * 1005 + 999) \div 1000

Nonce(c) == blocks[seen[c]["governance"]].state.nonce
Delay(c) == blocks[seen[c]["governance"]].state.delay
Rate(c) == blocks[seen[c]["feeds"]].state.rate

\* The market, of which the address of the oracle, the identifier and the salt
\* of the operation come.
Market(c) ==
    [block |-> seen[c]["pin"], rateMin |-> RateMin(Rate(c)), rateMax |-> RateMax(Rate(c))]

\* All but the manifest.
PrepareSafeMarketPreview(c) ==
    /\ step[c] = "idle"
    /\ \E s \in Snapshots : seen' = [seen EXCEPT ![c] = s]
    /\ Market(c)'.rateMin # 0 /\ Market(c)'.rateMin < Market(c)'.rateMax
    /\ stage' = [stage EXCEPT ![c] = [of |-> c, files |-> {"schedule", "execute"}, proof |-> "not-run"]]
    /\ Goto(c, IF c \in Proves THEN "fork" ELSE "manifest")
    /\ UNCHANGED <<asked, fork, shown, output, backup, latest>>

-----------------------------------------------------------------------------
(* proveSafeMarketPackage() *)

Fork(c) == fork[PortOf[c]]

\* What the provider shows of the blocks of a number, each field read apart: which
\* of them it names, and state of them, of others, or invented.
Shows(number) ==
    {[block |-> b, nonce |-> s.nonce, delay |-> t.delay, open |-> u.open, rate |-> v.rate] :
        b \in {n \in DOMAIN blocks : blocks[n].number = number},
        s, t, u, v \in world.states}

\* Where the port is taken Anvil will exit; the call may not notice.
SpawnFork(c) ==
    /\ step[c] = "fork"
    /\ IF Fork(c) # Nobody THEN UNCHANGED fork
       ELSE \E view \in Shows(Number(c)) :
                fork' = [fork EXCEPT ![PortOf[c]] =
                    [by |-> c, shown |-> view, nonce |-> view.nonce,
                     scheduled |-> {}, executed |-> {}]]
    /\ Goto(c, "check")
    /\ UNCHANGED <<asked, seen, stage, shown, output, backup, latest>>

Proving(c, from, to) ==
    /\ step[c] = from /\ Fork(c) # Nobody
    /\ Goto(c, to)
    /\ UNCHANGED <<asked, seen, stage, shown, output, backup, latest>>

\* The block of the pinned number: the one the fork is of, or, of a fork that
\* another call made later, one before it, of which the provider says anything.
AssertPinnedForkBlock(c) ==
    LET at == blocks[Fork(c).shown.block].number IN
    /\ Proving(c, "check", "before")
    /\ Number(c) <= at
    /\ Number(c) = at => Fork(c).shown.block = seen[c]["pin"]
    /\ UNCHANGED fork

\* Fault: the nonce is not compared.
NonceIs_Any(c, n) == TRUE

NonceIs(c, n) == Fork(c).nonce = n

AssertNonce(c, from, to, n) ==
    /\ Proving(c, from, to)
    /\ NonceIs(c, n)
    /\ UNCHANGED fork

\* Executed by the Safe, whose nonce goes up, with the delay that was read.
ScheduleBatch(c) ==
    /\ Proving(c, "schedule", "scheduled")
    /\ Market(c) \notin Fork(c).scheduled
    /\ Delay(c) >= Fork(c).shown.delay
    /\ fork' = [fork EXCEPT ![PortOf[c]].nonce = @ + 1, ![PortOf[c]].scheduled = @ \cup {Market(c)}]

\* The operation is ready once its delay is over: the proof does not wait for it,
\* nor set the clock.
ExecuteBatch(c) ==
    /\ Proving(c, "execute", "executed")
    /\ Market(c) \in Fork(c).scheduled \ Fork(c).executed
    /\ Delay(c) <= MaxWait /\ Fork(c).shown.open
    /\ fork' = [fork EXCEPT ![PortOf[c]].nonce = @ + 1, ![PortOf[c]].executed = @ \cup {Market(c)}]

RateInBounds(c) ==
    LET rate == Fork(c).shown.rate IN
    Market(c).rateMin <= rate /\ rate <= Market(c).rateMax

\* The feeds may have become stale on the fork: then the proof fails. The fork
\* ends with the call that spawned it.
Verify(c) ==
    /\ step[c] = "verify" /\ Fork(c) # Nobody
    /\ Market(c) \in Fork(c).executed
    /\ RateInBounds(c)
    /\ fork' = IF Fork(c).by = c THEN [fork EXCEPT ![PortOf[c]] = Nobody] ELSE fork
    /\ shown' = [shown EXCEPT ![c] = Fork(c).shown]
    /\ stage' = [stage EXCEPT ![c].proof = "passed"]
    /\ Goto(c, "manifest")
    /\ UNCHANGED <<asked, seen, output, backup, latest>>

Prove(c) ==
    \/ SpawnFork(c) \/ AssertPinnedForkBlock(c)
    \/ AssertNonce(c, "before", "schedule", Nonce(c)) \/ ScheduleBatch(c)
    \/ AssertNonce(c, "scheduled", "execute", Nonce(c) + 1) \/ ExecuteBatch(c)
    \/ AssertNonce(c, "executed", "verify", Nonce(c) + 2) \/ Verify(c)

-----------------------------------------------------------------------------
(* publishSafeMarketPackage(): directories are renamed, each at once.      *)

StageManifest(c) ==
    /\ step[c] = "manifest"
    /\ stage' = [stage EXCEPT ![c].files = @ \cup {"manifest"}]
    /\ Goto(c, "move")
    /\ UNCHANGED <<asked, seen, fork, shown, output, backup, latest>>

\* Fault: the package is removed before there is another.
MoveOutput_Removes(c) ==
    /\ step[c] = "move"
    /\ output' = NoPackage
    /\ Goto(c, "publish")
    /\ UNCHANGED <<asked, seen, stage, fork, shown, backup, latest>>

\* There may be none.
MoveOutput(c) ==
    /\ step[c] = "move"
    /\ backup' = [backup EXCEPT ![c] = output]
    /\ output' = NoPackage
    /\ Goto(c, "publish")
    /\ UNCHANGED <<asked, seen, stage, fork, shown, latest>>

\* The stage takes its place, unless another call's has.
Publish(c) ==
    /\ step[c] = "publish" /\ output = NoPackage
    /\ output' = stage[c] /\ latest' = stage[c]
    /\ stage' = [stage EXCEPT ![c] = NoPackage]
    /\ Goto(c, IF backup[c] = NoPackage THEN "done" ELSE "remove")
    /\ UNCHANGED <<asked, seen, fork, shown, backup>>

PublishFails(c) ==
    /\ step[c] = "publish"
    /\ IF backup[c] = NoPackage
       THEN Goto(c, "failed") /\ stage' = [stage EXCEPT ![c] = NoPackage]
       ELSE Goto(c, "restore") /\ UNCHANGED stage
    /\ UNCHANGED <<asked, seen, fork, shown, output, backup, latest>>

Restore(c) ==
    /\ step[c] = "restore" /\ output = NoPackage
    /\ output' = backup[c]
    /\ backup' = [backup EXCEPT ![c] = NoPackage]
    /\ stage' = [stage EXCEPT ![c] = NoPackage]
    /\ Goto(c, "failed")
    /\ UNCHANGED <<asked, seen, fork, shown, latest>>

\* The former package stays where it is.
RestoreFails(c) ==
    /\ step[c] = "restore"
    /\ stage' = [stage EXCEPT ![c] = NoPackage]
    /\ Goto(c, "failed")
    /\ UNCHANGED <<asked, seen, fork, shown, output, backup, latest>>

\* It may fail after some of the files.
RemoveBackup(c) ==
    /\ step[c] = "remove"
    /\ \/ backup' = [backup EXCEPT ![c] = NoPackage] /\ Goto(c, "done")
       \/ \E files \in SUBSET backup[c].files :
            backup' = [backup EXCEPT ![c].files = files] /\ Goto(c, "failed")
    /\ UNCHANGED <<asked, seen, stage, fork, shown, output, latest>>

-----------------------------------------------------------------------------

\* Providers fail or disagree, what was read is not acceptable, the proof or a
\* write fails: the stage is removed and the fork ended.
PreviewFails(c) ==
    /\ step[c] \notin {"idle", "publish", "restore", "remove", "done", "failed", "crashed"}
    /\ stage' = [stage EXCEPT ![c] = NoPackage]
    /\ fork' = IF Fork(c) # Nobody /\ Fork(c).by = c
               THEN [fork EXCEPT ![PortOf[c]] = Nobody] ELSE fork
    /\ Goto(c, "failed")
    /\ UNCHANGED <<asked, seen, shown, output, backup, latest>>

\* The process dies, with all its calls; what it spawned and staged stays.
Crash(port) ==
    /\ \E c \in asked : PortOf[c] = port /\ step[c] \notin {"idle", "done", "failed", "crashed"}
    /\ step' = [c \in Previews |->
            IF PortOf[c] = port /\ step[c] \notin {"done", "failed"} THEN "crashed" ELSE step[c]]
    /\ UNCHANGED <<asked, seen, stage, fork, shown, output, backup, latest>>

PackageNext ==
    /\ UNCHANGED chainVars
    /\ \/ \E c \in asked :
            \/ PrepareSafeMarketPreview(c) \/ Prove(c)
            \/ StageManifest(c) \/ MoveOutput(c) \/ Publish(c) \/ PublishFails(c)
            \/ Restore(c) \/ RestoreFails(c) \/ RemoveBackup(c) \/ PreviewFails(c)
       \/ \E port \in DOMAIN fork : Crash(port)

-----------------------------------------------------------------------------

Whole(package) == package # NoPackage /\ package.files = {"schedule", "execute", "manifest"}

\* Whatever fails and dies, and however calls overlap: what is published is whole,
\* and the package that was published last is there, or where a call moved it.
PackageSurvives ==
    /\ output # NoPackage => Whole(output)
    /\ latest # NoPackage =>
        latest = output \/ \E c \in Previews : backup[c] = latest

\* A package that passed its proof, with no other call on the fork, can be executed
\* upon what its fork showed: of the block that the package names the governance
\* path is there, the delay to be waited for is enough, and is over when the proof
\* ends, the Safe has the nonce that the package names and the rate lies
\* within the bounds of its market, though both providers were read
\* by the number of a block that may have been replaced. What the primary provider
\* shows of that block is its word alone.
PassedCanExecute ==
    \A c \in asked :
        LET passed == \E package \in {stage[c], output} : package.of = c /\ package.proof = "passed"
            alone == \A d \in asked \ {c} : PortOf[d] # PortOf[c]
        IN
        passed /\ alone =>
            /\ shown[c].block = seen[c]["pin"]
            /\ shown[c].open
            /\ shown[c].delay <= Delay(c) /\ Delay(c) <= MaxWait
            /\ shown[c].nonce = Nonce(c)
            /\ RateMin(Rate(c)) <= shown[c].rate /\ shown[c].rate <= RateMax(Rate(c))
=============================================================================
