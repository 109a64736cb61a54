------------------------------ MODULE Outbound ------------------------------
(***************************************************************************)
(* The remote calls a node makes (call.go, retry.go, node.go): sendCall,   *)
(* the outbound queue, and drainOutbound with its retries and timeouts.    *)
(* The node is a load balancer, which never fails (CanCrash is FALSE), or  *)
(* an app node, which an out-of-memory kill takes down.  Whether the node  *)
(* called accepts a call is its own affair (module Node): here it may or   *)
(* may not, at any time.                                                   *)
(*                                                                         *)
(* The runner sends while the tick goroutine drains; the two share the     *)
(* queue, under outboundMu.  drainOutbound takes the queue over, handles   *)
(* each call without the lock, and appends the calls it keeps to whatever  *)
(* was queued meanwhile.  The calls of a queue do not depend on each       *)
(* other, so queues are sets.                                              *)
(*                                                                         *)
(* Times are relative to the clock and in milliseconds: age is now minus   *)
(* queuedAt, wait is nextRetryAt minus now, rounded up, 0 when it is past. *)
(***************************************************************************)
EXTENDS Integers

CONSTANTS
  Calls,            \* the remote calls of the run
  TimeoutMs,        \* of each (90.0 in MakeCall and makeCall), 0 for none
  CanCrash,
  CustomPolicies,   \* the RetryPolicy of those calls that have one
  MaxRetries, InitialDelay, BackoffFactor, MaxDelay, Jitter   \* the default's

Hundred == 100      \* Jitter is in parts of it

Policy == [maxRetries : Nat, initialDelay : Nat, backoffFactor : Nat,
           maxDelay : Nat, jitter : 0 .. Hundred]

ASSUME OutboundAssumption ==
  /\ TimeoutMs \in Nat /\ CanCrash \in BOOLEAN
  /\ DOMAIN CustomPolicies \subseteq Calls
  /\ CustomPolicies \in [DOMAIN CustomPolicies -> Policy]
  /\ MaxRetries \in Nat /\ InitialDelay \in Nat /\ BackoffFactor \in Nat
  /\ MaxDelay \in Nat /\ Jitter \in 0 .. Hundred

VARIABLES
  pc,         \* where the runner is
  begun,      \* the calls whose closure has begun
  todo,       \* those of the present closure still to be sent
  refused,    \* the one in hand, refused and not yet queued
  queue,      \* outboundQueue
  tick,       \* where the tick goroutine is
  batch,      \* drainOutbound's queue: the calls it has still to handle
  remaining,  \* the calls it keeps
  down,       \* isDown
  age, wait, attempt,      \* of each call in the queue
  accepted, errors         \* how often each was delivered, or answered a 503

runnerVars == <<pc, begun, todo, refused>>
tickVars   == <<tick, batch, remaining>>
callVars   == <<age, wait, attempt>>
outcomes   == <<accepted, errors>>
ovars == <<runnerVars, queue, tickVars, down, callVars, outcomes>>

Zero == [c \in Calls |-> 0]

OInit ==
  /\ pc = "select" /\ begun = {} /\ todo = {} /\ refused = {}
  /\ queue = {} /\ tick = "done" /\ batch = {} /\ remaining = {}
  /\ down = FALSE
  /\ age = Zero /\ wait = Zero /\ attempt = Zero
  /\ accepted = Zero /\ errors = Zero

Bump(f, c) == [f EXCEPT ![c] = @ + 1]

-----------------------------------------------------------------------------
(* Retry policies.                                                          *)

DefaultRetryPolicy ==
  [maxRetries |-> MaxRetries, initialDelay |-> InitialDelay,
   backoffFactor |-> BackoffFactor, maxDelay |-> MaxDelay, jitter |-> Jitter]

\* A call without a policy of its own gets the default at its first failure.
PolicyOf(c) == IF c \in DOMAIN CustomPolicies THEN CustomPolicies[c]
                                              ELSE DefaultRetryPolicy

Backoff(p, n) == p.initialDelay * p.backoffFactor ^ n

\* A power of natural numbers is one (the provers know no exponentiation).
ASSUME BackoffAssumption ==
  \A c \in Calls : \A n \in 1 .. PolicyOf(c).maxRetries : Backoff(PolicyOf(c), n) \in Nat

Capped(p, n) == IF Backoff(p, n) > p.maxDelay THEN p.maxDelay ELSE Backoff(p, n)

\* x hundredths, rounded up: the milliseconds to wait for a time between two.
RoundUp(x) == (x + Hundred - 1) \div Hundred

DelayOfPreviousAttempt(p, n) ==                   \* mutant
  RoundUp(Capped(p, n - 1) * (Hundred - p.jitter)) ..
    RoundUp(Capped(p, n - 1) * (Hundred + p.jitter))

\* The random jitter is applied after the cap, which it may exceed.
DelayForAttempt(p, n) ==
  RoundUp(Capped(p, n) * (Hundred - p.jitter)) ..
    RoundUp(Capped(p, n) * (Hundred + p.jitter))

-----------------------------------------------------------------------------
(* The runner, in its millisecond.                                          *)

runnerFrame == UNCHANGED <<tickVars, outcomes>>

TakeMs ==
  /\ pc = "ms" /\ pc' = "working"
  /\ UNCHANGED <<begun, todo, refused, queue, down, callVars>> /\ runnerFrame

\* A node that is up starts on the closure of a task, the balancer on the
\* forwarding of a call.
BeginClosure ==
  /\ pc = "working" /\ todo = {} /\ ~down
  /\ \E s \in SUBSET (Calls \ begun) \ {{}} : todo' = s /\ begun' = begun \cup s
  /\ UNCHANGED <<pc, refused, queue, down, callVars>> /\ runnerFrame

\* sendCall: tryAcceptCall takes the call, or refuses it.
SendCall(c) ==
  /\ pc = "working" /\ c \in todo
  /\ todo' = todo \ {c}
  /\ \/ /\ accepted' = Bump(accepted, c)
        /\ UNCHANGED <<pc, refused, callVars>>
     \/ /\ refused' = {c} /\ pc' = "refused"
        /\ age' = [age EXCEPT ![c] = 0] /\ wait' = [wait EXCEPT ![c] = 0]
        /\ attempt' = [attempt EXCEPT ![c] = 0]
        /\ UNCHANGED accepted
  /\ UNCHANGED <<begun, queue, down, errors, tickVars>>

\* queueOutbound: the call is queued under the lock...
QueueOutbound ==
  /\ pc = "refused" /\ pc' = "charge"
  /\ queue' = queue \cup refused /\ refused' = {}
  /\ UNCHANGED <<begun, todo, down, callVars>> /\ runnerFrame

\* ...and its memory charged, which may kill the node; so may other work.  A
\* closure that has begun goes on.
Kill == CanCrash /\ ~down /\ down' = TRUE

ChargeQueued ==
  /\ pc = "charge" /\ pc' = "working"
  /\ Kill \/ UNCHANGED down
  /\ UNCHANGED <<begun, todo, refused, queue, callVars>> /\ runnerFrame

OtherWorkKills ==
  /\ pc = "working" /\ todo = {} /\ Kill
  /\ UNCHANGED <<runnerVars, queue, callVars>> /\ runnerFrame

EndMs ==
  /\ pc = "working" /\ todo = {} /\ pc' = "select"
  /\ UNCHANGED <<begun, todo, refused, queue, down, callVars>> /\ runnerFrame

Runner == \/ TakeMs \/ BeginClosure \/ QueueOutbound \/ ChargeQueued
          \/ OtherWorkKills \/ EndMs \/ \E c \in Calls : SendCall(c)

-----------------------------------------------------------------------------
(* The tick goroutine: drainOutbound, then updateResources.                 *)

tickFrame == UNCHANGED <<runnerVars, down>>

\* The queue is taken over.
TakeQueue ==
  /\ tick = "drain"
  /\ batch' = queue /\ queue' = {}
  /\ tick' = IF queue = {} THEN "update" ELSE "process"
  /\ UNCHANGED <<remaining, callVars, outcomes>> /\ tickFrame

processFrame == UNCHANGED <<queue, tick>> /\ tickFrame

Keep(c) == remaining' = remaining \cup {c}

\* processOutboundCall, in this order: a call whose next try is not due yet is
\* kept...
KeepForBackoff(c) ==
  /\ c \in batch /\ wait[c] > 0
  /\ batch' = batch \ {c} /\ Keep(c)
  /\ UNCHANGED <<callVars, outcomes>> /\ processFrame

\* ...one that is too old gets an error reply...
TimedOutAtFirst(c) ==                             \* mutant
  TimeoutMs > 0 /\ age[c] > TimeoutMs /\ attempt[c] = 0

TimedOut(c) == TimeoutMs > 0 /\ age[c] > TimeoutMs

TimeOut(c) ==
  /\ c \in batch /\ wait[c] = 0 /\ TimedOut(c)
  /\ batch' = batch \ {c}
  /\ errors' = Bump(errors, c)
  /\ UNCHANGED <<remaining, callVars, accepted>> /\ processFrame

\* ...else tryAcceptCall may take it...
Due(c) == c \in batch /\ wait[c] = 0 /\ ~TimedOut(c)

Deliver(c) ==
  /\ Due(c)
  /\ batch' = batch \ {c}
  /\ accepted' = Bump(accepted, c)
  /\ UNCHANGED <<remaining, callVars, errors>> /\ processFrame

\* ...or refuses it: then it is given up, with an error reply...
ExhaustedBeforeThis(c) == attempt[c] > PolicyOf(c).maxRetries     \* mutant

Exhausted(c) == attempt[c] + 1 > PolicyOf(c).maxRetries

GiveUpButKeep(c) ==                               \* mutant
  /\ Due(c) /\ Exhausted(c)
  /\ batch' = batch \ {c} /\ Keep(c)
  /\ attempt' = Bump(attempt, c)
  /\ errors' = Bump(errors, c)
  /\ UNCHANGED <<age, wait, accepted>> /\ processFrame

GiveUp(c) ==
  /\ Due(c) /\ Exhausted(c)
  /\ batch' = batch \ {c}
  /\ attempt' = Bump(attempt, c)
  /\ errors' = Bump(errors, c)
  /\ UNCHANGED <<remaining, age, wait, accepted>> /\ processFrame

RetryAsNew(c)        ==                           \* mutant
  /\ Due(c) /\ ~Exhausted(c)
  /\ batch' = batch \ {c} /\ Keep(c)
  /\ attempt' = [attempt EXCEPT ![c] = 1] /\ age' = [age EXCEPT ![c] = 0]
  /\ \E w \in DelayForAttempt(PolicyOf(c), 1) : wait' = [wait EXCEPT ![c] = w]
  /\ UNCHANGED outcomes /\ processFrame

\* ...or kept for another try after the next delay.
Retry(c) ==
  /\ Due(c) /\ ~Exhausted(c)
  /\ batch' = batch \ {c} /\ Keep(c)
  /\ attempt' = Bump(attempt, c)
  /\ \E w \in DelayForAttempt(PolicyOf(c), attempt'[c]) :
       wait' = [wait EXCEPT ![c] = w]
  /\ UNCHANGED <<age, outcomes>> /\ processFrame

ReturnInsteadOfAppend ==                          \* mutant
  /\ tick = "process" /\ batch = {} /\ tick' = "update"
  /\ queue' = IF remaining = {} THEN queue ELSE remaining
  /\ remaining' = {}
  /\ UNCHANGED <<batch, callVars, outcomes>> /\ tickFrame

\* What remains is appended to what the runner has queued meanwhile.
Return ==
  /\ tick = "process" /\ batch = {} /\ tick' = "update"
  /\ queue' = queue \cup remaining /\ remaining' = {}
  /\ UNCHANGED <<batch, callVars, outcomes>> /\ tickFrame

\* updateResources may end an outage: the cleanup forgets the queue.
Update ==
  /\ tick = "update"
  /\ \/ down /\ down' = FALSE /\ tick' = "clean"
     \/ tick' = "done" /\ UNCHANGED down
  /\ UNCHANGED <<runnerVars, queue, batch, remaining, callVars, outcomes>>

Clean ==
  /\ tick = "clean" /\ tick' = "done"
  /\ queue' = {}
  /\ UNCHANGED <<batch, remaining, callVars, outcomes>> /\ tickFrame

Tick == \/ TakeQueue \/ Return \/ Update \/ Clean
        \/ \E c \in Calls : \/ KeepForBackoff(c) \/ TimeOut(c) \/ Deliver(c)
                            \/ GiveUp(c) \/ Retry(c)

-----------------------------------------------------------------------------
(* The main loop (module TickLoop).                                         *)

Held == refused \cup queue \cup batch \cup remaining

NextMs ==
  /\ pc = "select" /\ tick = "done"
  /\ pc' = "ms" /\ tick' = "drain"
  /\ age' = [c \in Calls |-> IF c \in Held THEN age[c] + 1 ELSE age[c]]
  /\ wait' = [c \in Calls |-> IF wait[c] > 0 THEN wait[c] - 1 ELSE 0]
  /\ UNCHANGED <<begun, todo, refused, queue, batch, remaining, down, attempt,
                 outcomes>>

ONext == Runner \/ Tick \/ NextMs

OSafety == OInit /\ [][ONext]_ovars

\* Go runs whoever can run, and the loop goes on for as long as we look at it.
OSpec == OSafety /\ WF_ovars(Runner) /\ WF_ovars(Tick) /\ WF_ovars(NextMs)

-----------------------------------------------------------------------------
(* What the outbound queue must guarantee.                                  *)

OTypeOK ==
  /\ pc \in {"select", "ms", "working", "refused", "charge"}
  /\ tick \in {"drain", "process", "update", "clean", "done"}
  /\ begun \subseteq Calls /\ todo \subseteq Calls /\ refused \subseteq Calls
  /\ queue \subseteq Calls /\ batch \subseteq Calls /\ remaining \subseteq Calls
  /\ down \in BOOLEAN
  /\ age \in [Calls -> Nat] /\ wait \in [Calls -> Nat]
  /\ attempt \in [Calls -> Nat]
  /\ \A c \in Calls : attempt[c] <= PolicyOf(c).maxRetries + 1
  /\ accepted \in [Calls -> Nat] /\ errors \in [Calls -> Nat]

\* However the runner's queueing and the tick's draining interleave, a call is
\* delivered or refused with an error at most once, and not both; and while it
\* is held neither has happened.
AtMostOneOutcome ==
  \A c \in Calls : accepted[c] + errors[c] + (IF c \in Held THEN 1 ELSE 0) <= 1

\* The timeout is only looked at once the backoff has run out.  So a call can
\* outstay its timeout, but by no more than the longest delay.
LongestDelay(c) ==
  LET p == PolicyOf(c) IN RoundUp(p.maxDelay * (Hundred + p.jitter))

LeavesByTimeout ==
  TimeoutMs > 0 =>
    \A c \in Held : \/ age[c] <= TimeoutMs + 1
                   \/ age[c] <= TimeoutMs + LongestDelay(c)

\* Where the first delay is longer than the timeout, as it is with the default
\* policy and the timeout of MakeCall, no retry is ever made: the call is tried
\* by sendCall and by one drain.
ShortestFirstDelay(c) ==
  LET p == PolicyOf(c) IN RoundUp(Capped(p, 1) * (Hundred - p.jitter))

TimeoutOutrunsRetry ==
  \A c \in Calls :
    TimeoutMs > 0 /\ ShortestFirstDelay(c) > TimeoutMs => attempt[c] <= 1

\* A call that is queued does not stay queued for ever.
QueuedIsDecided == \A c \in Calls : c \in Held ~> c \notin Held

\* The sender keeps the promise of module Delivery.
Outcome(c) == IF accepted[c] > 0  THEN "delivered"
              ELSE IF errors[c] > 0  THEN "failed"
              ELSE IF c \in Held     THEN "pending"
              ELSE IF c \in begun \ todo THEN "lost" ELSE "new"

Abstract == INSTANCE Delivery WITH outcome <- [c \in Calls |-> Outcome(c)],
                                   restarting <- tick = "clean"

ImplementsDelivery == Abstract!Spec

\* resources.go:171: "While the node is down, no new work is processed from
\* queues."  But nextMillisecond drains the outbound queue whatever the state
\* of the node: a node that is down delivers calls.
DownNodeSendsNothing ==
  [][\A c \in batch : down => accepted'[c] = accepted[c]]_ovars
=============================================================================
