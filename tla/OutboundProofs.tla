--------------------------- MODULE OutboundProofs ---------------------------
(***************************************************************************)
(* Proofs about Outbound, for every set of calls, timeout and policy, with *)
(* or without crashes of the sender.                                       *)
(*                                                                         *)
(* Places says where a call can be: the runner and the tick goroutine hold *)
(* it in one place at a time, and no call that is held has an outcome.     *)
(* The bounds on time rest on Punctual: whatever was handled in this       *)
(* millisecond, and need not wait, has not reached its timeout.            *)
(***************************************************************************)
EXTENDS Outbound, TLAPS

Undecided(c) == accepted[c] = 0 /\ errors[c] = 0

Disjoint(s, t) == \A c \in s : c \notin t

Places ==
  /\ Disjoint(todo, Held)
  /\ Disjoint(refused, queue \cup batch \cup remaining)
  /\ Disjoint(queue, batch \cup remaining) /\ Disjoint(batch, remaining)
  /\ Held \subseteq begun /\ todo \subseteq begun
  /\ pc # "refused" => refused = {}
  /\ tick # "process" => batch = {} /\ remaining = {}
  /\ \A c \in Calls : c \notin begun \/ c \in todo \cup Held => Undecided(c)
  /\ \A c \in Calls : accepted[c] + errors[c] <= 1
  /\ \A c \in Held : attempt[c] <= PolicyOf(c).maxRetries

OInv == OTypeOK /\ Places

\* Each call has a retry policy, its own or the default.
LEMMA PolicyType == \A c \in Calls : PolicyOf(c) \in Policy
BY OutboundAssumption DEF PolicyOf, DefaultRetryPolicy, Policy

\* A delay is a number of milliseconds, and no longer than the longest.
LEMMA DelayBounds ==
  ASSUME NEW c \in Calls, NEW n \in 1 .. PolicyOf(c).maxRetries,
         NEW w \in DelayForAttempt(PolicyOf(c), n)
  PROVE  w \in Nat /\ w <= LongestDelay(c) /\ LongestDelay(c) \in Nat
<1> DEFINE p == PolicyOf(c)
<1>1. p \in Policy
  BY PolicyType
<1>2. Capped(p, n) \in Nat /\ Capped(p, n) <= p.maxDelay
  BY <1>1, BackoffAssumption DEF Capped, Policy
<1>3. /\ Capped(p, n) * (Hundred + p.jitter) \in Nat
      /\ Capped(p, n) * (Hundred - p.jitter) \in Nat
      /\ p.maxDelay * (Hundred + p.jitter) \in Nat
  BY <1>1, <1>2 DEF Policy, Hundred
<1>4. Capped(p, n) * (Hundred + p.jitter) <= p.maxDelay * (Hundred + p.jitter)
  BY <1>1, <1>2 DEF Policy, Hundred
<1> HIDE DEF p
<1>5. RoundUp(Capped(p, n) * (Hundred - p.jitter)) \in Nat
  BY <1>3 DEF RoundUp, Hundred
<1>6. RoundUp(p.maxDelay * (Hundred + p.jitter)) \in Nat
  BY <1>3 DEF RoundUp, Hundred
<1>7. /\ RoundUp(Capped(p, n) * (Hundred + p.jitter)) \in Nat
      /\ RoundUp(Capped(p, n) * (Hundred + p.jitter))
           <= RoundUp(p.maxDelay * (Hundred + p.jitter))
  BY <1>3, <1>4 DEF RoundUp, Hundred
<1> QED
  BY <1>5, <1>6, <1>7 DEF DelayForAttempt, LongestDelay, p

-----------------------------------------------------------------------------
(* Places.                                                                  *)

\* Initially nothing is held, and each call is still to be sent.
LEMMA InitOInv == OInit => OInv
<1> SUFFICES ASSUME OInit PROVE OInv
  OBVIOUS
<1>1. Zero \in [Calls -> Nat] /\ \A c \in Calls : Zero[c] = 0
  BY DEF Zero
<1>2. \A c \in Calls : PolicyOf(c).maxRetries \in Nat
  BY PolicyType DEF Policy
<1>3. OTypeOK
  <2>1. ASSUME NEW c \in Calls PROVE attempt[c] <= PolicyOf(c).maxRetries + 1
    <3>1. attempt[c] = 0 /\ PolicyOf(c).maxRetries \in Nat
      BY <1>1, <1>2 DEF OInit
    <3> QED
      BY <3>1
  <2>2. /\ age \in [Calls -> Nat] /\ wait \in [Calls -> Nat]
        /\ attempt \in [Calls -> Nat]
        /\ accepted \in [Calls -> Nat] /\ errors \in [Calls -> Nat]
    BY <1>1 DEF OInit
  <2>3. down \in BOOLEAN
    BY DEF OInit
  <2> QED
    BY <2>1, <2>2, <2>3 DEF OInit, OTypeOK
<1>4. Places
  BY <1>1 DEF OInit, Places, Disjoint, Held, Undecided
<1> QED
  BY <1>3, <1>4 DEF OInv

\* The runner's steps keep each held call in one place.
LEMMA RunnerOInv == OInv /\ Runner => OInv'
<1> SUFFICES ASSUME OInv, Runner PROVE OInv'
  OBVIOUS
<1> USE DEF OInv, OTypeOK, Places, Disjoint, Held, Undecided, runnerFrame,
        tickVars, outcomes, callVars
<1>1. CASE TakeMs \/ EndMs
  BY <1>1 DEF TakeMs, EndMs
<1>2. CASE BeginClosure
  BY <1>2 DEF BeginClosure
<1>3. ASSUME NEW c \in Calls, SendCall(c) PROVE OInv'
  <2>1. CASE accepted' = Bump(accepted, c) /\ UNCHANGED <<pc, refused, callVars>>
    BY <1>3, <2>1 DEF SendCall, Bump
  <2>2. CASE /\ refused' = {c} /\ pc' = "refused"
             /\ age' = [age EXCEPT ![c] = 0] /\ wait' = [wait EXCEPT ![c] = 0]
             /\ attempt' = [attempt EXCEPT ![c] = 0]
             /\ UNCHANGED accepted
    BY <1>3, <2>2, PolicyType DEF SendCall, Policy
  <2> QED
    BY <1>3, <2>1, <2>2 DEF SendCall
<1>4. CASE QueueOutbound
  BY <1>4 DEF QueueOutbound
<1>5. CASE ChargeQueued \/ OtherWorkKills
  BY <1>5 DEF ChargeQueued, OtherWorkKills, Kill, runnerVars
<1> QED
  BY <1>1, <1>2, <1>3, <1>4, <1>5 DEF Runner

\* The tick goroutine's steps keep each held call in one place.
LEMMA TickOInv == OInv /\ Tick => OInv'
<1> SUFFICES ASSUME OInv, Tick PROVE OInv'
  OBVIOUS
<1> USE DEF OInv, OTypeOK, Places, Disjoint, Held, Undecided, tickFrame,
        processFrame, runnerVars, callVars, outcomes, Keep
<1>1. CASE TakeQueue
  BY <1>1 DEF TakeQueue
<1>2. CASE Return
  BY <1>2 DEF Return
<1>3. CASE Update \/ Clean
  BY <1>3 DEF Update, Clean
<1>4. ASSUME NEW c \in Calls, KeepForBackoff(c) PROVE OInv'
  BY <1>4 DEF KeepForBackoff
<1>5. ASSUME NEW c \in Calls, TimeOut(c) PROVE OInv'
  BY <1>5 DEF TimeOut, Bump
<1>6. ASSUME NEW c \in Calls, Deliver(c) PROVE OInv'
  BY <1>6 DEF Deliver, Due, Bump
<1>7. ASSUME NEW c \in Calls, GiveUp(c) PROVE OInv'
  BY <1>7, PolicyType DEF GiveUp, Due, Bump, Policy
<1>8. ASSUME NEW c \in Calls, Retry(c) PROVE OInv'
  <2>1. /\ attempt[c] + 1 \in 1 .. PolicyOf(c).maxRetries
        /\ attempt' = [attempt EXCEPT ![c] = attempt[c] + 1]
    BY <1>8, PolicyType DEF Retry, Due, Exhausted, Bump, Policy
  <2>2. wait' \in [Calls -> Nat]
    BY <1>8, <2>1, DelayBounds DEF Retry
  <2> QED
    BY <1>8, <2>1, <2>2, PolicyType DEF Retry, Due, Policy
<1> QED
  BY <1>1, <1>2, <1>3, <1>4, <1>5, <1>6, <1>7, <1>8 DEF Tick

\* Each step preserves the invariant.
LEMMA NextOInv == OInv /\ [ONext]_ovars => OInv'
<1>1. OInv /\ NextMs => OInv'
  BY DEF OInv, OTypeOK, Places, Disjoint, Held, Undecided, NextMs, outcomes
<1>2. OInv /\ UNCHANGED ovars => OInv'
  BY DEF OInv, OTypeOK, Places, Disjoint, Held, Undecided, ovars, runnerVars,
     tickVars, callVars, outcomes
<1> QED
  BY <1>1, <1>2, RunnerOInv, TickOInv DEF ONext

\* The inductive invariant of the outbound queue.
THEOREM OutboundInvariance == OSafety => []OInv
BY InitOInv, NextOInv, PTL DEF OSafety

\* The variables of the outbound queue keep their types, and no call is tried
\* more often than its policy allows.
THEOREM OutboundTypeCorrect == OSafety => []OTypeOK
<1>1. OInv => OTypeOK
  BY DEF OInv
<1> QED
  BY <1>1, OutboundInvariance, PTL

\* However queueing and draining interleave, a call has at most one outcome.
THEOREM OneOutcome == OSafety => []AtMostOneOutcome
<1>1. ASSUME OInv, NEW c \in Calls
      PROVE  accepted[c] + errors[c] + (IF c \in Held THEN 1 ELSE 0) <= 1
  <2>1. /\ accepted[c] \in Nat /\ errors[c] \in Nat /\ accepted[c] + errors[c] <= 1
        /\ c \in Held => accepted[c] = 0 /\ errors[c] = 0
    BY <1>1 DEF OInv, OTypeOK, Places, Undecided
  <2> QED
    BY <2>1
<1>2. OInv => AtMostOneOutcome
  BY <1>1 DEF AtMostOneOutcome
<1> QED
  BY <1>2, OutboundInvariance, PTL

-----------------------------------------------------------------------------
(* How long a call stays.                                                   *)

\* The calls the tick goroutine has handled in this millisecond, or need not.
Handled == refused \cup remaining \cup (IF tick = "drain" THEN {} ELSE queue)

WithinTimeout(c, t) == t <= TimeoutMs + 1 \/ t <= TimeoutMs + LongestDelay(c)

Punctual ==
  TimeoutMs > 0 =>
    /\ \A c \in Held : WithinTimeout(c, age[c] + wait[c])
    /\ \A c \in Handled : wait[c] = 0 => age[c] <= TimeoutMs

\* Once it has failed a first time, such a call waits beyond its timeout.
Outrun(c) == TimeoutMs > 0 /\ ShortestFirstDelay(c) > TimeoutMs

NoSecondTry ==
  \A c \in Calls : Outrun(c) =>
    /\ attempt[c] <= 1
    /\ c \in Held /\ attempt[c] = 1 => age[c] + wait[c] > TimeoutMs

TInv == OInv /\ Punctual /\ NoSecondTry

\* Initially no call is held.
LEMMA InitTInv == OInit => TInv
<1> SUFFICES ASSUME OInit PROVE TInv
  OBVIOUS
<1>1. Held = {} /\ Handled = {} /\ \A c \in Calls : attempt[c] = 0
  BY DEF OInit, Held, Handled, Zero
<1> QED
  BY <1>1, InitOInv DEF TInv, Punctual, NoSecondTry

\* A step that touches neither times nor attempts and moves a call at most to
\* where it is held, or handled, already.
LEMMA TimesUntouched ==
  ASSUME TInv, OInv', UNCHANGED callVars, Held' \subseteq Held,
         \A c \in Handled' : c \in Handled \/ wait[c] > 0
  PROVE  TInv'
BY DEF TInv, OInv, OTypeOK, Punctual, NoSecondTry, WithinTimeout, callVars, Outrun,
   ShortestFirstDelay, LongestDelay, PolicyOf

\* The runner queues calls that have not waited yet.
LEMMA RunnerTInv == TInv /\ Runner => TInv'
<1> SUFFICES ASSUME TInv, Runner PROVE TInv'
  OBVIOUS
<1>0. OInv'
  BY RunnerOInv DEF TInv
<1>1. CASE TakeMs \/ BeginClosure \/ EndMs \/ ChargeQueued \/ OtherWorkKills
  <2>1. UNCHANGED <<callVars, refused, queue, tickVars>>
    BY <1>1 DEF TakeMs, BeginClosure, EndMs, ChargeQueued, OtherWorkKills, runnerFrame,
       runnerVars
  <2> QED
    BY <1>0, <2>1, TimesUntouched DEF Held, Handled, tickVars
<1>2. CASE QueueOutbound
  BY <1>0, <1>2, TimesUntouched DEF QueueOutbound, runnerFrame, tickVars, Held, Handled
<1>3. ASSUME NEW c \in Calls, SendCall(c) PROVE TInv'
  <2>1. CASE accepted' = Bump(accepted, c) /\ UNCHANGED <<pc, refused, callVars>>
    BY <1>0, <1>3, <2>1, TimesUntouched DEF SendCall, tickVars, Held, Handled
  <2>2. CASE /\ refused' = {c} /\ pc' = "refused"
             /\ age' = [age EXCEPT ![c] = 0] /\ wait' = [wait EXCEPT ![c] = 0]
             /\ attempt' = [attempt EXCEPT ![c] = 0]
    <3>1. /\ age'[c] = 0 /\ wait'[c] = 0 /\ attempt'[c] = 0
          /\ \A d \in Calls \ {c} : /\ age'[d] = age[d] /\ wait'[d] = wait[d]
                                   /\ attempt'[d] = attempt[d]
      BY <2>2 DEF TInv, OInv, OTypeOK
    <3>2. /\ Held' \subseteq Held \cup {c} /\ Handled' \subseteq Handled \cup {c}
          /\ Held' \subseteq Calls /\ Handled' \subseteq Calls
      BY <1>0, <1>3, <2>2 DEF SendCall, tickVars, Held, Handled, OInv, OTypeOK
    <3>3. Punctual'
      BY <3>1, <3>2, OutboundAssumption DEF TInv, Punctual, WithinTimeout
    <3>4. NoSecondTry'
      BY <3>1, <3>2 DEF TInv, NoSecondTry, Outrun
    <3> QED
      BY <1>0, <3>3, <3>4 DEF TInv
  <2> QED
    BY <1>3, <2>1, <2>2 DEF SendCall
<1> QED
  BY <1>1, <1>2, <1>3 DEF Runner

\* The drain keeps no call beyond its timeout.
LEMMA TickTInv == TInv /\ Tick => TInv'
<1> SUFFICES ASSUME TInv, Tick PROVE TInv'
  OBVIOUS
<1>0. OInv' /\ OInv /\ tick \in {"drain", "process", "update", "clean", "done"}
  BY TickOInv DEF TInv, OInv, OTypeOK
<1> USE DEF tickFrame, processFrame, runnerVars
<1>1. CASE TakeQueue
  BY <1>0, <1>1, TimesUntouched DEF TakeQueue, Held, Handled
<1>2. CASE Return
  BY <1>0, <1>2, TimesUntouched DEF Return, Held, Handled
<1>3. CASE Update \/ Clean
  BY <1>0, <1>3, TimesUntouched DEF Update, Clean, Held, Handled
<1>4. ASSUME NEW c \in Calls, KeepForBackoff(c) PROVE TInv'
  BY <1>0, <1>4, TimesUntouched DEF KeepForBackoff, Keep, Held, Handled
<1>5. ASSUME NEW c \in Calls, TimeOut(c) \/ Deliver(c) PROVE TInv'
  BY <1>0, <1>5, TimesUntouched DEF TimeOut, Deliver, Due, Held, Handled
<1>6. ASSUME NEW c \in Calls, GiveUp(c) \/ Retry(c) PROVE TInv'
  <2>1. /\ c \in batch /\ wait[c] = 0 /\ ~TimedOut(c) /\ UNCHANGED age
        /\ attempt' = [attempt EXCEPT ![c] = attempt[c] + 1]
    BY <1>6 DEF GiveUp, Retry, Due, Bump
  <2>2. /\ age[c] \in Nat /\ attempt[c] \in Nat /\ attempt'[c] = attempt[c] + 1
        /\ \A d \in Calls \ {c} : attempt'[d] = attempt[d]
    BY <1>0, <2>1 DEF OInv, OTypeOK
  <2>3. Outrun(c) => attempt[c] = 0
    BY <1>0, <2>1, <2>2 DEF TInv, NoSecondTry, Outrun, TimedOut, Held
  <2>4. CASE GiveUp(c)
    <3>1. /\ c \notin Held' /\ Held' \subseteq Held /\ Handled' \subseteq Handled
          /\ UNCHANGED wait
      BY <1>0, <2>4 DEF GiveUp, Due, Held, Handled, OInv, Places, Disjoint
    <3>2. Punctual'
      BY <2>1, <3>1 DEF TInv, Punctual, WithinTimeout
    <3>3. NoSecondTry'
      BY <2>1, <2>2, <2>3, <3>1 DEF TInv, NoSecondTry, Outrun
    <3> QED
      BY <1>0, <3>2, <3>3 DEF TInv
  <2>5. CASE Retry(c)
    <3>1. attempt[c] + 1 \in 1 .. PolicyOf(c).maxRetries
      BY <2>2, <2>5, PolicyType DEF Retry, Exhausted, Policy
    <3>2. PICK w \in DelayForAttempt(PolicyOf(c), attempt[c] + 1) :
            wait' = [wait EXCEPT ![c] = w]
      BY <2>2, <2>5 DEF Retry
    <3>3. w \in Nat /\ w <= LongestDelay(c) /\ LongestDelay(c) \in Nat
      BY <3>1, <3>2, DelayBounds
    <3>4. wait'[c] = w /\ \A d \in Calls \ {c} : wait'[d] = wait[d]
      BY <1>0, <3>2 DEF OInv, OTypeOK
    <3>5. Held' = Held /\ Handled' \subseteq Handled \cup {c} /\ Held \subseteq Calls
      BY <1>0, <2>5 DEF Retry, Due, Keep, Held, Handled, OInv, OTypeOK
    <3>6. TimeoutMs > 0 => age[c] <= TimeoutMs
      BY <2>1, <2>2, OutboundAssumption DEF TimedOut
    <3>7. Punctual'
      <4>1. TimeoutMs > 0 => WithinTimeout(c, age'[c] + wait'[c])
        BY <2>1, <2>2, <3>3, <3>4, <3>6, OutboundAssumption DEF WithinTimeout
      <4>2. \A d \in Held : TimeoutMs > 0 => WithinTimeout(d, age'[d] + wait'[d])
        BY <2>1, <3>4, <3>5, <4>1 DEF TInv, Punctual, WithinTimeout
      <4>3. \A d \in Handled' : TimeoutMs > 0 /\ wait'[d] = 0 => age'[d] <= TimeoutMs
        BY <2>1, <3>4, <3>5, <3>6, <1>0 DEF TInv, Punctual, Handled, OInv, OTypeOK
      <4> QED
        BY <3>5, <4>2, <4>3 DEF Punctual
    <3>8. NoSecondTry'
      <4>1. Outrun(c) => w > TimeoutMs
        <5> SUFFICES ASSUME Outrun(c) PROVE w > TimeoutMs
          OBVIOUS
        <5>1. w \in DelayForAttempt(PolicyOf(c), 1)
          BY <2>3, <3>2
        <5>2. w >= ShortestFirstDelay(c)
          BY <5>1 DEF DelayForAttempt, ShortestFirstDelay
        <5>3. /\ PolicyOf(c) \in Policy /\ Capped(PolicyOf(c), 1) \in Nat
          BY <2>3, <3>1, PolicyType, BackoffAssumption DEF Capped, Policy
        <5>4. ShortestFirstDelay(c) \in Int
          <6>1. Capped(PolicyOf(c), 1) * (Hundred - PolicyOf(c).jitter) \in Int
            BY <5>3 DEF Policy, Hundred
          <6> QED
            BY <6>1 DEF ShortestFirstDelay, RoundUp, Hundred
        <5> QED
          BY <3>3, <5>2, <5>4, OutboundAssumption DEF Outrun
      <4>2. Outrun(c) => attempt'[c] <= 1 /\ age'[c] + wait'[c] > TimeoutMs
        BY <2>1, <2>2, <2>3, <3>3, <3>4, <4>1, OutboundAssumption
      <4> QED
        BY <2>1, <2>2, <3>4, <3>5, <4>2 DEF TInv, NoSecondTry, Outrun
    <3> QED
      BY <1>0, <3>7, <3>8 DEF TInv
  <2> QED
    BY <1>6, <2>4, <2>5
<1> QED
  BY <1>1, <1>2, <1>3, <1>4, <1>5, <1>6 DEF Tick

\* A millisecond passes for calls that were within their timeout by one.
LEMMA NextMsTInv == TInv /\ NextMs => TInv'
<1> SUFFICES ASSUME TInv, NextMs PROVE TInv'
  OBVIOUS
<1>0. OInv /\ OInv'
  BY NextOInv DEF TInv, ONext
<1>1. Held' = Held /\ Held = queue /\ Handled = queue /\ Handled' = {}
  BY <1>0 DEF NextMs, OInv, Places, Held, Handled
<1>2. \A c \in Held : /\ c \in Calls /\ age[c] \in Nat /\ wait[c] \in Nat
                      /\ age'[c] = age[c] + 1
                      /\ wait'[c] = IF wait[c] > 0 THEN wait[c] - 1 ELSE 0
  BY <1>0 DEF NextMs, OInv, OTypeOK, Held
<1>3. Punctual'
  <2>1. ASSUME NEW c \in Held, TimeoutMs > 0
        PROVE  WithinTimeout(c, age'[c] + wait'[c])
    <3>1. CASE wait[c] > 0
      <4>1. age'[c] + wait'[c] = age[c] + wait[c]
        BY <1>2, <3>1
      <4> QED
        BY <2>1, <4>1 DEF TInv, Punctual, WithinTimeout
    <3>2. CASE ~(wait[c] > 0)
      <4>1. wait[c] = 0 /\ age[c] <= TimeoutMs
        BY <1>1, <1>2, <2>1, <3>2 DEF TInv, Punctual
      <4>2. age'[c] + wait'[c] <= TimeoutMs + 1
        BY <1>2, <4>1, OutboundAssumption
      <4> QED
        BY <4>2 DEF WithinTimeout
    <3> QED
      BY <3>1, <3>2
  <2> QED
    BY <1>1, <2>1 DEF Punctual
<1>4. NoSecondTry'
  <2>1. ASSUME NEW c \in Calls, Outrun(c)
        PROVE  /\ attempt'[c] <= 1
               /\ c \in Held' /\ attempt'[c] = 1 => age'[c] + wait'[c] > TimeoutMs
    <3>1. attempt' = attempt /\ attempt[c] <= 1
      BY <2>1 DEF TInv, NoSecondTry, NextMs
    <3>2. ASSUME c \in Held, attempt[c] = 1 PROVE age'[c] + wait'[c] > TimeoutMs
      <4>1. age[c] + wait[c] > TimeoutMs
        BY <2>1, <3>2 DEF TInv, NoSecondTry
      <4> QED
        BY <1>2, <3>2, <4>1, OutboundAssumption
    <3> QED
      BY <1>1, <3>1, <3>2
  <2> QED
    BY <2>1 DEF NoSecondTry, Outrun
<1> QED
  BY <1>0, <1>3, <1>4 DEF TInv

\* Each step preserves the invariant.
LEMMA NextTInv == TInv /\ [ONext]_ovars => TInv'
<1>1. TInv /\ UNCHANGED ovars => TInv'
  BY NextOInv, TimesUntouched DEF TInv, ovars, runnerVars, tickVars, Held, Handled
<1> QED
  BY <1>1, RunnerTInv, TickTInv, NextMsTInv DEF ONext

\* The inductive invariant of the waits, attempts and ages.
THEOREM OutboundPunctuality == OSafety => []TInv
BY InitTInv, NextTInv, PTL DEF OSafety

\* No call outstays its timeout by more than its policy's longest delay.
THEOREM NoCallOutstays == OSafety => []LeavesByTimeout
<1>1. ASSUME TInv, NEW c \in Held, TimeoutMs > 0
      PROVE  age[c] <= TimeoutMs + 1 \/ age[c] <= TimeoutMs + LongestDelay(c)
  <2>1. c \in Calls /\ age[c] \in Nat /\ wait[c] \in Nat
    BY <1>1 DEF TInv, OInv, OTypeOK, Held
  <2>2. LongestDelay(c) \in Int
    <3>1. PolicyOf(c) \in Policy
      BY <2>1, PolicyType
    <3>2. PolicyOf(c).maxDelay * (Hundred + PolicyOf(c).jitter) \in Int
      BY <3>1 DEF Policy, Hundred
    <3> QED
      BY <3>2 DEF LongestDelay, RoundUp, Hundred
  <2> QED
    BY <1>1, <2>1, <2>2, OutboundAssumption DEF TInv, Punctual, WithinTimeout
<1>2. TInv => LeavesByTimeout
  BY <1>1 DEF LeavesByTimeout
<1> QED
  BY <1>2, OutboundPunctuality, PTL

\* A first delay above the timeout makes every retry unreachable.
THEOREM TimeoutBeatsRetry == OSafety => []TimeoutOutrunsRetry
<1>1. TInv => TimeoutOutrunsRetry
  BY DEF TInv, NoSecondTry, Outrun, TimeoutOutrunsRetry
<1> QED
  BY <1>1, OutboundPunctuality, PTL

-----------------------------------------------------------------------------
(* Refinement of Delivery.                                                  *)

outcomeOf == [c \in Calls |-> Outcome(c)]

absVars == <<outcomeOf, tick = "clean">>

\* A step that changes no call's outcome changes nothing abstractly.
LEMMA SameOutcomes ==
  ASSUME \A c \in Calls : Outcome(c)' = Outcome(c)  PROVE outcomeOf' = outcomeOf
BY DEF outcomeOf

\* A step that changes one call's outcome changes that one abstractly.
LEMMA OneNewOutcome ==
  ASSUME NEW c \in Calls, NEW o, Outcome(c)' = o,
         \A d \in Calls \ {c} : Outcome(d)' = Outcome(d)
  PROVE  outcomeOf' = [outcomeOf EXCEPT ![c] = o] /\ outcomeOf[c] = Outcome(c)
BY DEF outcomeOf

\* The four counts and sets that make up an outcome.
LEMMA OutcomeIs ==
  ASSUME OInv, NEW c \in Calls
  PROVE  /\ c \in Held => Outcome(c) = "pending"
         /\ c \in todo \/ c \notin begun => Outcome(c) = "new"
BY DEF OInv, OTypeOK, Places, Disjoint, Undecided, Outcome

\* The runner begins, queues and charges calls as Delivery allows.
LEMMA RunnerStepRefines == OInv /\ OInv' /\ Runner => [Abstract!Next]_absVars
<1> SUFFICES ASSUME OInv, OInv', Runner PROVE [Abstract!Next]_absVars
  OBVIOUS
<1>0. UNCHANGED tick
  BY DEF Runner, TakeMs, BeginClosure, SendCall, QueueOutbound, ChargeQueued,
     OtherWorkKills, EndMs, runnerFrame, tickVars
<1>1. CASE TakeMs \/ QueueOutbound \/ ChargeQueued \/ OtherWorkKills \/ EndMs
  <2>1. Held' = Held /\ UNCHANGED <<accepted, errors, begun, todo>>
    BY <1>1 DEF TakeMs, QueueOutbound, ChargeQueued, OtherWorkKills, EndMs, runnerFrame,
       tickVars, runnerVars, outcomes, Held
  <2>2. \A c \in Calls : Outcome(c)' = Outcome(c)
    BY <2>1 DEF Outcome
  <2> QED
    BY <1>0, <2>2, SameOutcomes DEF absVars
<1>2. CASE BeginClosure
  <2>1. /\ UNCHANGED <<accepted, errors, Held>> /\ todo = {}
        /\ begun' = begun \cup todo' /\ todo' \subseteq Calls \ begun
    BY <1>2 DEF BeginClosure, runnerFrame, tickVars, outcomes, Held
  <2>2. ASSUME NEW c \in Calls PROVE Outcome(c)' = Outcome(c)
    BY <2>1 DEF Outcome
  <2> QED
    BY <1>0, <2>2, SameOutcomes DEF absVars
<1>3. ASSUME NEW c \in Calls, SendCall(c) PROVE [Abstract!Next]_absVars
  <2>1. Outcome(c) = "new" /\ c \in begun /\ c \notin Held /\ Undecided(c)
    BY <1>3, OutcomeIs DEF SendCall, OInv, Places, Disjoint
  <2>2. UNCHANGED <<begun, errors, queue, batch, remaining>> /\ todo' = todo \ {c}
    BY <1>3 DEF SendCall, tickVars
  <2>3. \A d \in Calls \ {c} :
          /\ accepted'[d] = accepted[d] /\ (d \in Held' <=> d \in Held)
    <3>1. CASE accepted' = Bump(accepted, c) /\ UNCHANGED refused
      BY <2>2, <3>1 DEF Bump, OInv, OTypeOK, Held
    <3>2. CASE refused' = {c} /\ pc = "working" /\ UNCHANGED accepted
      BY <2>2, <3>2 DEF OInv, Places, Held
    <3> QED
      BY <1>3, <3>1, <3>2 DEF SendCall
  <2>4. \A d \in Calls \ {c} : Outcome(d)' = Outcome(d)
    BY <2>2, <2>3 DEF Outcome
  <2>5. Outcome(c)' \in {"pending", "delivered"}
    <3>1. CASE accepted' = Bump(accepted, c)
      <4>1. accepted'[c] > 0
        BY <2>1, <3>1 DEF Bump, OInv, OTypeOK, Undecided
      <4> QED
        BY <4>1 DEF Outcome
    <3>2. CASE refused' = {c}
      <4>1. c \in Held'
        BY <3>2 DEF Held
      <4>2. \A x \in Calls : x \in Held' => Outcome(x)' = "pending"
        BY DEF OInv, OTypeOK, Places, Undecided, Outcome
      <4> QED
        BY <4>1, <4>2
    <3> QED
      BY <1>3, <3>1, <3>2 DEF SendCall
  <2>6. /\ outcomeOf' = [outcomeOf EXCEPT ![c] = Outcome(c)']
        /\ outcomeOf[c] = Outcome(c)
    BY <2>4, OneNewOutcome
  <2>7. Abstract!Attempt(c)
    BY <1>0, <2>1, <2>5, <2>6 DEF Abstract!Attempt, outcomeOf
  <2> QED
    BY <2>7 DEF Abstract!Next
<1> QED
  BY <1>1, <1>2, <1>3 DEF Runner

\* The tick goroutine decides calls as Delivery allows.
LEMMA TickStepRefines == OInv /\ OInv' /\ Tick => [Abstract!Next]_absVars
<1> SUFFICES ASSUME OInv, OInv', Tick PROVE [Abstract!Next]_absVars
  OBVIOUS
<1> USE DEF tickFrame, processFrame, runnerVars, outcomes
<1>1. CASE \/ TakeQueue \/ Return
           \/ \E c \in Calls : KeepForBackoff(c) \/ Retry(c)
  <2>1. UNCHANGED <<accepted, errors, begun, todo>>
    BY <1>1 DEF TakeQueue, Return, KeepForBackoff, Retry
  <2>2. Held' = Held
    BY <1>1 DEF TakeQueue, Return, KeepForBackoff, Retry, Due, Keep, Held, OInv, Places
  <2>3. \A c \in Calls : Outcome(c)' = Outcome(c)
    BY <2>1, <2>2 DEF Outcome
  <2>4. tick # "clean" /\ tick' # "clean"
    BY <1>1 DEF TakeQueue, Return, KeepForBackoff, Retry, Due, OInv, Places
  <2> QED
    BY <2>3, <2>4, SameOutcomes DEF absVars
<1>2. ASSUME NEW c \in Calls, TimeOut(c) \/ Deliver(c) \/ GiveUp(c)
      PROVE  [Abstract!Next]_absVars
  <2>1. /\ UNCHANGED <<begun, todo, refused, queue, remaining, tick>>
        /\ batch' = batch \ {c} /\ c \in batch
        /\ \/ accepted' = Bump(accepted, c) /\ UNCHANGED errors
           \/ errors' = Bump(errors, c) /\ UNCHANGED accepted
    BY <1>2 DEF TimeOut, Deliver, GiveUp, Due
  <2>2. Outcome(c) = "pending" /\ Undecided(c)
    BY <2>1, OutcomeIs DEF Held, OInv, Places
  <2>3. \A d \in Calls \ {c} : /\ accepted'[d] = accepted[d] /\ errors'[d] = errors[d]
                               /\ (d \in Held' <=> d \in Held)
    BY <2>1 DEF Bump, OInv, OTypeOK, Held
  <2>4. \A d \in Calls \ {c} : Outcome(d)' = Outcome(d)
    BY <2>1, <2>3 DEF Outcome
  <2>5. Outcome(c)' \in {"delivered", "failed"}
    <3>1. accepted'[c] > 0 \/ errors'[c] > 0
      BY <2>1, <2>2 DEF Bump, OInv, OTypeOK, Undecided
    <3> QED
      BY <3>1 DEF Outcome
  <2>6. /\ outcomeOf' = [outcomeOf EXCEPT ![c] = Outcome(c)']
        /\ outcomeOf[c] = Outcome(c)
    BY <2>4, OneNewOutcome
  <2>7. Abstract!Decide(c)
    BY <2>1, <2>2, <2>5, <2>6 DEF Abstract!Decide, outcomeOf
  <2> QED
    BY <2>7 DEF Abstract!Next
<1>3. CASE Update
  <2>1. UNCHANGED <<accepted, errors, begun, todo, Held>>
    BY <1>3 DEF Update, Held
  <2>2. outcomeOf' = outcomeOf
    <3>1. \A c \in Calls : Outcome(c)' = Outcome(c)
      BY <2>1 DEF Outcome
    <3> QED
      BY <3>1, SameOutcomes
  <2>3. CASE tick' = "clean"
    <3>1. Abstract!Restart
      BY <1>3, <2>2, <2>3 DEF Update, Abstract!Restart, outcomeOf
    <3> QED
      BY <3>1 DEF Abstract!Next
  <2>4. CASE tick' # "clean"
    BY <1>3, <2>2, <2>4 DEF Update, absVars
  <2> QED
    BY <2>3, <2>4
<1>4. CASE Clean
  <2>1. /\ UNCHANGED <<accepted, errors, begun, todo>>
        /\ tick = "clean" /\ tick' = "done" /\ Held' \subseteq Held
    BY <1>4 DEF Clean, Held
  <2> DEFINE lost == {c \in Held : c \notin Held'}
  <2>2. \A c \in Held : c \in Calls /\ c \in begun \ todo
    BY DEF OInv, OTypeOK, Places, Disjoint, Held
  <2>3. \A c \in lost : Outcome(c) = "pending" /\ Outcome(c)' = "lost"
    <3>1. \A c \in lost : Undecided(c)
      BY <2>2 DEF OInv, Places
    <3> QED
      BY <2>1, <2>2, <3>1 DEF Outcome, Undecided
  <2>4. \A c \in Calls \ lost : Outcome(c)' = Outcome(c)
    BY <2>1 DEF Outcome
  <2>5. lost \in SUBSET {c \in Calls : outcomeOf[c] = "pending"}
    BY <2>2, <2>3 DEF outcomeOf
  <2>6. outcomeOf' = [c \in Calls |-> IF c \in lost THEN "lost" ELSE outcomeOf[c]]
    BY <2>3, <2>4 DEF outcomeOf
  <2>7. Abstract!Lose
    BY <2>1, <2>5, <2>6 DEF Abstract!Lose, outcomeOf
  <2> QED
    BY <2>7 DEF Abstract!Next
<1> QED
  BY <1>1, <1>2, <1>3, <1>4 DEF Tick

\* Each step is a step of Delivery, or changes no outcome.
LEMMA StepRefines == OInv /\ OInv' /\ [ONext]_ovars => [Abstract!Next]_absVars
<1>1. ASSUME OInv, NextMs \/ UNCHANGED ovars PROVE UNCHANGED absVars
  <2>1. UNCHANGED <<accepted, errors, begun, todo, Held>>
    BY <1>1 DEF NextMs, ovars, runnerVars, tickVars, outcomes, Held
  <2>2. \A c \in Calls : Outcome(c)' = Outcome(c)
    BY <2>1 DEF Outcome
  <2>3. (tick = "clean")' = (tick = "clean")
    BY <1>1 DEF NextMs, ovars, tickVars
  <2> QED
    BY <2>2, <2>3, SameOutcomes DEF absVars
<1> QED
  BY <1>1, RunnerStepRefines, TickStepRefines DEF ONext

\* The sender keeps its promise: every call has one outcome, and only the
\* cleanup after an outage loses one.
THEOREM OutboundImplementsDelivery == OSafety => ImplementsDelivery
<1>1. OInit => Abstract!Init
  BY DEF OInit, Abstract!Init, Outcome, Held, Zero
<1>2. OInv /\ OInv' /\ [ONext]_ovars
        => [Abstract!Next]_<<[c \in Calls |-> Outcome(c)], tick = "clean">>
  BY StepRefines DEF absVars, outcomeOf
<1> QED
  BY <1>1, <1>2, OutboundInvariance, PTL DEF OSafety, ImplementsDelivery, Abstract!Spec
=============================================================================
