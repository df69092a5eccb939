------------------------------ MODULE ToolRouter ------------------------------
(***************************************************************************)
(* Calls to the tool router (packages/gateway/src/router.ts, call and      *)
(* #invoke): each is checked, admitted by the work admission, raced        *)
(* against its deadline and the client's cancellation, answered, and gives *)
(* its lease back.                                                         *)
(*                                                                         *)
(*   phase     "idle" -> "admitted" (holds a lease) -> "running" (the      *)
(*             handler and the cancellation race) -> "settled" (the race   *)
(*             is decided, call() has not resumed) -> "done"               *)
(*   handler   the handler itself, which may ignore the abort signal and   *)
(*             go on after its call has been answered                      *)
(*                                                                         *)
(* A timer is never early, and the clock never goes back.                  *)
(***************************************************************************)
EXTENDS WorkAdmission

CONSTANTS
    DeadlineOf,   \* of each call: deadlineAtMs, or NoTime
    MaxDelay,     \* the longest delay that setTimeout accepts
    MaxTime       \* bound: the clock stops here

NoTime == -1

ASSUME DeadlinesAndTime ==
    /\ MaxTime \in Nat /\ MaxDelay \in Nat \ {0}
    /\ DeadlineOf \in [Calls -> Nat \cup {NoTime}]

VARIABLES phase, handler, aborted, timer, outcome, reply, now

call == <<phase, handler, aborted, timer, outcome, reply>>
vars == <<admission, call, now>>

\* An unknown tool, a scope the credential lacks, a capability that is not
\* callable, invalid arguments.
Refusals == {"UNKNOWN_TOOL", "AUTHENTICATION_SCOPE_DENIED",
             "CAPABILITY_NOT_CALLABLE", "INVALID_INPUT"}

Replies == Refusals \cup
    {"none", "ok", "HANDLER_FAILED", "REQUEST_CANCELLED", "DEADLINE_EXCEEDED",
     "BOUNDED_WORK_REJECTED"}

Elapsed(c) == DeadlineOf[c] # NoTime /\ now >= DeadlineOf[c]

Init ==
    /\ AdmissionInit
    /\ phase = [c \in Calls |-> "idle"]
    /\ handler = [c \in Calls |-> "none"]
    /\ aborted \in [Calls -> BOOLEAN]
    /\ timer = [c \in Calls |-> NoTime]
    /\ outcome = [c \in Calls |-> "none"]
    /\ reply = [c \in Calls |-> "none"]
    /\ now = 0

Answer(c, code) ==
    /\ phase' = [phase EXCEPT ![c] = "done"]
    /\ reply' = [reply EXCEPT ![c] = code]
    /\ UNCHANGED <<handler, aborted, timer, outcome, now>>

-----------------------------------------------------------------------------
(* From the call to the handler. *)

\* The call is refused before it asks for a lease,
Refuse(c) ==
    /\ phase[c] = "idle"
    /\ \/ \E code \in Refusals : Answer(c, code)
       \/ aborted[c] /\ Answer(c, "REQUEST_CANCELLED")
       \/ ~aborted[c] /\ Elapsed(c) /\ Answer(c, "DEADLINE_EXCEEDED")
       \/ /\ ~aborted[c] /\ ~Elapsed(c)
          /\ ~Admissible(c)
          /\ Answer(c, "BOUNDED_WORK_REJECTED")
    /\ UNCHANGED admission

\* or obtains one.
Enter(c) ==
    /\ phase[c] = "idle"
    /\ ~aborted[c] /\ ~Elapsed(c)
    /\ Admit(c)
    /\ phase' = [phase EXCEPT ![c] = "admitted"]
    /\ UNCHANGED <<handler, aborted, timer, outcome, reply, now>>

\* setTimeout replaces a delay that is too short or too long by one millisecond.
Delay(d) == IF d < 1 \/ d > MaxDelay THEN 1 ELSE d

\* Fault: no timer is set.
TimerOf_Never(c) == NoTime

TimerOf(c) ==
    IF DeadlineOf[c] = NoTime THEN NoTime ELSE now + Delay(DeadlineOf[c] - now)

\* Fault: a call that is late by now is answered outside of the try block.
GiveUp_KeepsLease(c) ==
    /\ \/ aborted[c] /\ Answer(c, "REQUEST_CANCELLED")
       \/ ~aborted[c] /\ Elapsed(c) /\ Answer(c, "DEADLINE_EXCEEDED")
    /\ UNCHANGED admission

\* The second look at the signal and the clock, inside of the try block.
GiveUp(c) ==
    /\ \/ aborted[c] /\ Answer(c, "REQUEST_CANCELLED")
       \/ ~aborted[c] /\ Elapsed(c) /\ Answer(c, "DEADLINE_EXCEEDED")
    /\ Release(c)

\* The handler starts, and with it the race.
Invoke(c) ==
    /\ ~aborted[c] /\ ~Elapsed(c)
    /\ phase' = [phase EXCEPT ![c] = "running"]
    /\ handler' = [handler EXCEPT ![c] = "running"]
    /\ timer' = [timer EXCEPT ![c] = TimerOf(c)]
    /\ UNCHANGED <<admission, aborted, outcome, reply, now>>

Start(c) == phase[c] = "admitted" /\ (GiveUp(c) \/ Invoke(c))

-----------------------------------------------------------------------------
(* The race. *)

\* The first to settle decides.
Settle(c, result) ==
    IF phase[c] = "running"
      THEN /\ phase' = [phase EXCEPT ![c] = "settled"]
           /\ outcome' = [outcome EXCEPT ![c] = result]
      ELSE UNCHANGED <<phase, outcome>>

\* Fault: every abort is taken to be the client's.
Reason_Cancelled(c) == "cancelled"

\* What an abort stands for.
Reason(c) == IF Elapsed(c) THEN "deadline" ELSE "cancelled"

\* The client may cancel before, during and after the call.
ClientAborts(c) ==
    /\ ~aborted[c]
    /\ aborted' = [aborted EXCEPT ![c] = TRUE]
    /\ Settle(c, Reason(c))
    /\ UNCHANGED <<admission, handler, timer, reply, now>>

\* The timer is cleared when the race is over.
TimerFires(c) ==
    /\ phase[c] = "running"
    /\ timer[c] # NoTime /\ now >= timer[c]
    /\ Settle(c, Reason(c))
    /\ UNCHANGED <<admission, handler, aborted, timer, reply, now>>

\* A handler that lost the race may still end; nothing waits for it.
HandlerEnds(c) ==
    /\ handler[c] = "running"
    /\ \E result \in {"value", "failure"} :
          /\ handler' = [handler EXCEPT ![c] = result]
          /\ Settle(c, result)
    /\ UNCHANGED <<admission, aborted, timer, reply, now>>

\* Fault: a value is returned as it comes.
ReplyOf_NoRecheck(c) ==
    CASE outcome[c] = "value" -> "ok"
      [] outcome[c] = "failure" -> "HANDLER_FAILED"
      [] outcome[c] = "cancelled" -> "REQUEST_CANCELLED"
      [] outcome[c] = "deadline" -> "DEADLINE_EXCEEDED"

\* A value is looked at once more before it is returned.
ReplyOf(c) ==
    CASE outcome[c] = "value" /\ aborted[c] -> "REQUEST_CANCELLED"
      [] outcome[c] = "value" /\ ~aborted[c] /\ Elapsed(c) -> "DEADLINE_EXCEEDED"
      [] outcome[c] = "value" /\ ~aborted[c] /\ ~Elapsed(c) -> "ok"
      [] outcome[c] = "failure" -> "HANDLER_FAILED"
      [] outcome[c] = "cancelled" -> "REQUEST_CANCELLED"
      [] outcome[c] = "deadline" -> "DEADLINE_EXCEEDED"

Resume(c) ==
    /\ phase[c] = "settled"
    /\ Answer(c, ReplyOf(c))
    /\ Release(c)

Tick ==
    /\ now < MaxTime
    /\ now' = now + 1
    /\ UNCHANGED <<admission, call>>

-----------------------------------------------------------------------------

Next ==
    \/ \E c \in Calls :
          \/ Refuse(c) \/ Enter(c) \/ Start(c)
          \/ ClientAborts(c) \/ TimerFires(c) \/ HandlerEnds(c) \/ Resume(c)
    \/ Tick

Spec == Init /\ [][Next]_vars

\* Time passes, timers fire, and the event loop resumes what is settled. Neither
\* handlers nor clients have to do anything.
Fairness ==
    /\ WF_vars(Tick)
    /\ \A c \in Calls :
          WF_vars(Start(c)) /\ WF_vars(TimerFires(c)) /\ WF_vars(Resume(c))

FairSpec == Spec /\ Fairness

-----------------------------------------------------------------------------

InCall == {"admitted", "running", "settled"}

TypeOK ==
    /\ phase \in [Calls -> InCall \cup {"idle", "done"}]
    /\ handler \in [Calls -> {"none", "running", "value", "failure"}]
    /\ aborted \in [Calls -> BOOLEAN]
    /\ timer \in [Calls -> Nat \cup {NoTime}]
    /\ outcome \in [Calls -> {"none", "value", "failure", "cancelled", "deadline"}]
    /\ reply \in [Calls -> Replies]
    /\ now \in Nat
    /\ lease \in [Calls -> {"none", "held", "released"}]
    /\ \A c \in Calls : phase[c] = "done" <=> reply[c] # "none"

\* A call holds a lease from its admission until it is answered, whichever way it
\* ends, and at no other time.
LeaseWhileInCall ==
    \A c \in Calls : lease[c] = "held" <=> phase[c] \in InCall

\* A client is told that it cancelled only if it did ("request was cancelled").
CancelledByClient ==
    \A c \in Calls : reply[c] = "REQUEST_CANCELLED" => aborted[c]

\* A reply tells the truth: that the client cancelled, that the deadline elapsed,
\* that the handler failed, that a result is the handler's. It holds as long as
\* setTimeout accepts every delay.
ReplyIsTrue ==
    /\ CancelledByClient
    /\ \A c \in Calls :
          /\ reply[c] = "DEADLINE_EXCEEDED" => Elapsed(c)
          /\ reply[c] = "HANDLER_FAILED" => handler[c] = "failure"
          /\ reply[c] = "ok" => handler[c] = "value"

\* A call that the client has cancelled, or whose deadline has elapsed, is never
\* answered with a result, even if the handler won the race.
NoLateSuccess ==
    [][\A c \in Calls :
          reply[c] = "none" /\ reply'[c] = "ok" => ~aborted[c] /\ ~Elapsed(c)]_vars

\* A call with a deadline that has been admitted is answered, and so gives its
\* lease back, even if its handler never returns.
DeadlineEndsCall ==
    \A c \in Calls :
        DeadlineOf[c] # NoTime /\ phase[c] = "admitted" ~> phase[c] = "done"
=============================================================================
