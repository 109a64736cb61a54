--------------------------- MODULE TickLoopProofs ---------------------------
(***************************************************************************)
(* Proofs about TickLoop, for every set of members, every length of the    *)
(* run and every channel capacity.  The heart is the inductive invariant   *)
(* WorkIsCounted: the WaitGroup of the current millisecond counts exactly  *)
(* the goroutines and runners that still owe it a Done, so it is zero only *)
(* when the millisecond is complete.                                       *)
(***************************************************************************)
EXTENDS TickLoop, FiniteSetTheorems, TLAPS

\* The phases of Run, and what can be under way in each.
Phases ==
  /\ pc # "start" => subscribers = Members
  /\ pc = "tick" => time < EndTime
  /\ pc \in {"finish", "exit"} => time = EndTime
  /\ signalled # {} => pc \in {"finish", "exit"}
  /\ pc # "tick" => spawned = {} /\ notified = {}
  /\ notified # {} => spawned = Members

\* A tick goroutine works for the current millisecond.
TicksAreCurrent ==
  /\ IsFiniteSet(running)
  /\ \A g \in running : pc = "tick" /\ g[1] \in spawned /\ g[2] = time

\* A runner has nothing to do, or one broadcast to receive, or works for it.
Resting(x)  == msCh[x] = <<>> /\ holding[x] = Idle
Notified(x) == x \in notified /\ msCh[x] = <<time>> /\ holding[x] = Idle
Working(x)  == x \in notified /\ msCh[x] = <<>> /\ holding[x] = time

RunnersAreCurrent == \A x \in Members : Resting(x) \/ Notified(x) \/ Working(x)

\* The WaitGroup of the current millisecond counts the work under way.
WorkIsCounted ==
  \A t \in Ticks :
    wg[t] = IF t = time THEN Cardinality(running) + Cardinality(Owing) ELSE 0

\* A done value is in the channel, or received, exactly when it was sent.
DoneOnce ==
  \A x \in Members : \/ x \notin signalled /\ x \notin stopped /\ done[x] = 0
                     \/ x \in signalled /\ x \notin stopped /\ done[x] = 1
                     \/ x \in signalled /\ x \in stopped /\ done[x] = 0

IInv == /\ TypeOK
        /\ Phases
        /\ TicksAreCurrent
        /\ RunnersAreCurrent
        /\ WorkIsCounted
        /\ DoneOnce

-----------------------------------------------------------------------------
(* The constants and the sizes of the sets the WaitGroup counts.            *)

\* What follows from the assumptions on the sizes.
LEMMA ConstantFacts ==
  /\ Length \in Nat /\ SmallChannelSize \in Nat /\ SmallChannelSize > 0
  /\ StartTime \in Nat /\ EndTime \in Nat /\ StartTime <= EndTime
  /\ Ticks \subseteq Nat /\ Idle \notin Ticks
  /\ \A t \in Ticks : t \in Nat /\ t < EndTime /\ StartTime <= t
BY SizesAssumption DEF StartTime, EndTime, Ticks, Idle

\* The runners that owe the barrier an EndMs can be counted.
LEMMA OwingFinite == IsFiniteSet(Owing) /\ Cardinality(Owing) \in Nat
<1>1. Owing \in SUBSET Members
  BY DEF Owing
<1> QED
  BY <1>1, MembersAssumption, FS_Subset, FS_CardinalityType

\* An empty counter means that no goroutine and no runner is at work.
LEMMA ZeroMeansIdle ==
  ASSUME IInv, pc = "tick", wg[time] = 0
  PROVE  running = {} /\ Owing = {}
<1>1. time \in Ticks
  BY ConstantFacts DEF IInv, TypeOK, Phases, Ticks
<1>2. Cardinality(running) + Cardinality(Owing) = 0
  BY <1>1 DEF IInv, WorkIsCounted
<1>3. Cardinality(running) \in Nat
  BY FS_CardinalityType DEF IInv, TicksAreCurrent
<1>4. Cardinality(running) = 0 /\ Cardinality(Owing) = 0
  BY <1>2, <1>3, OwingFinite
<1> QED
  BY <1>4, OwingFinite, FS_EmptySet DEF IInv, TicksAreCurrent

-----------------------------------------------------------------------------
\* Before the loop nobody runs and nobody owes.
LEMMA InitIInv == Init => IInv
<1> SUFFICES ASSUME Init PROVE IInv
  OBVIOUS
<1>1. Owing = {}
  BY DEF Init, Owing
<1>2. TypeOK
  BY ConstantFacts DEF Init, AlreadyRun, TypeOK, Members, Nodes
<1>3. Phases /\ TicksAreCurrent /\ RunnersAreCurrent /\ DoneOnce
  BY FS_EmptySet DEF Init, Phases, TicksAreCurrent, RunnersAreCurrent,
     Resting, DoneOnce
<1>4. WorkIsCounted
  BY <1>1, FS_EmptySet DEF Init, WorkIsCounted
<1> QED
  BY <1>2, <1>3, <1>4 DEF IInv

-----------------------------------------------------------------------------
(* How the steps of a runner change what it owes.                           *)

\* Notifying a member makes it owe the barrier.
LEMMA NotifyOwes ==
  ASSUME IInv, NEW x \in Members, Notify(x)
  PROVE  /\ time \in Ticks /\ Resting(x)
         /\ msCh' = [msCh EXCEPT ![x] = <<time>>]
         /\ wg' = [wg EXCEPT ![time] = @ + 1]
         /\ Owing' = Owing \cup {x} /\ x \notin Owing
<1>1. /\ Resting(x) /\ Len(msCh[x]) < SmallChannelSize
      /\ time \in Ticks
  BY ConstantFacts DEF IInv, TypeOK, Phases, RunnersAreCurrent, Resting,
     Notified, Working, Notify, Ticks
<1>2. /\ msCh' = [msCh EXCEPT ![x] = <<time>>]
      /\ wg' = [wg EXCEPT ![time] = @ + 1]
  BY <1>1 DEF Notify, Resting
<1>3. Owing' = Owing \cup {x} /\ x \notin Owing
  BY <1>1, <1>2 DEF IInv, TypeOK, Notify, Resting, Owing
<1> QED
  BY <1>1, <1>2, <1>3

\* A member that takes its millisecond owes it still.
LEMMA TakeMsOwes ==
  ASSUME IInv, NEW x \in Members, TakeMs(x)
  PROVE  /\ time \in Ticks /\ Notified(x)
         /\ holding' = [holding EXCEPT ![x] = time]
         /\ msCh' = [msCh EXCEPT ![x] = <<>>]
         /\ Owing' = Owing
<1>1. Notified(x) /\ time \in Ticks
  BY ConstantFacts DEF IInv, TypeOK, RunnersAreCurrent, Resting, Notified,
     Working, TakeMs
<1>2. /\ holding' = [holding EXCEPT ![x] = time]
      /\ msCh' = [msCh EXCEPT ![x] = <<>>]
  BY <1>1 DEF TakeMs, Notified
<1>3. msCh[x] # <<>> /\ holding'[x] # Idle
  BY <1>1, <1>2, ConstantFacts DEF IInv, TypeOK, Notified
<1>4. \A y \in Members \ {x} : msCh'[y] = msCh[y] /\ holding'[y] = holding[y]
  BY <1>2 DEF IInv, TypeOK
<1>5. Owing' = Owing
  BY <1>3, <1>4 DEF Owing
<1> QED
  BY <1>1, <1>2, <1>5

\* A member that ends its millisecond owes nothing more.
LEMMA EndMsOwes ==
  ASSUME IInv, NEW x \in Members, EndMs(x)
  PROVE  /\ time \in Ticks /\ Working(x)
         /\ Owing' = Owing \ {x} /\ x \in Owing
<1>1. Working(x) /\ time \in Ticks
  BY ConstantFacts DEF IInv, TypeOK, RunnersAreCurrent, Resting, Notified,
     Working, EndMs
<1>2. Owing' = Owing \ {x} /\ x \in Owing
  BY <1>1, ConstantFacts DEF IInv, TypeOK, EndMs, Working, Owing
<1> QED
  BY <1>1, <1>2

-----------------------------------------------------------------------------
\* Each step preserves the invariant.
LEMMA NextIInv == IInv /\ [Next]_vars => IInv'
<1> SUFFICES ASSUME IInv, [Next]_vars PROVE IInv'
  OBVIOUS
<1> USE ConstantFacts
<1>1. CASE LoopTest
  <2>1. Owing' = Owing
    BY <1>1 DEF LoopTest, Branch, runnerVars, Owing
  <2>2. TypeOK' /\ Phases'
    BY <1>1 DEF IInv, TypeOK, Phases, LoopTest, Branch, runnerVars
  <2>3. TicksAreCurrent' /\ RunnersAreCurrent' /\ DoneOnce'
    BY <1>1 DEF IInv, Phases, TicksAreCurrent, RunnersAreCurrent, DoneOnce,
       Resting, Notified, Working, LoopTest, Branch, runnerVars
  <2>4. WorkIsCounted'
    BY <1>1, <2>1 DEF IInv, WorkIsCounted, LoopTest, Branch
  <2> QED
    BY <2>2, <2>3, <2>4 DEF IInv
<1>2. CASE WaitAndAdvance
  <2>1. running = {} /\ Owing = {}
    BY <1>2, ZeroMeansIdle DEF WaitAndAdvance
  <2>2. running' = {} /\ Owing' = {}
    BY <1>2, <2>1 DEF WaitAndAdvance, EndIteration, runnerVars, Owing
  <2>3. TypeOK' /\ Phases'
    BY <1>2 DEF IInv, TypeOK, Phases, WaitAndAdvance, EndIteration, runnerVars
  <2>4. TicksAreCurrent'
    BY <2>2, FS_EmptySet DEF TicksAreCurrent
  <2>5. RunnersAreCurrent'
    BY <2>2 DEF RunnersAreCurrent, Resting, Owing
  <2>6. DoneOnce'
    BY <1>2 DEF IInv, DoneOnce, WaitAndAdvance, EndIteration, runnerVars
  <2>7. WorkIsCounted'
    <3>1. \A t \in Ticks : wg[t] = 0
      BY <1>2 DEF IInv, WorkIsCounted, WaitAndAdvance
    <3> QED
      BY <1>2, <2>2, <3>1, FS_EmptySet
         DEF WorkIsCounted, WaitAndAdvance, EndIteration
  <2> QED
    BY <2>3, <2>4, <2>5, <2>6, <2>7 DEF IInv
<1>3. CASE Exit
  <2>1. Owing' = Owing
    BY <1>3 DEF Exit, runnerVars, Owing
  <2>2. TypeOK' /\ Phases'
    BY <1>3 DEF IInv, TypeOK, Phases, Exit, runnerVars
  <2>3. TicksAreCurrent' /\ RunnersAreCurrent' /\ DoneOnce'
    BY <1>3 DEF IInv, Phases, TicksAreCurrent, RunnersAreCurrent, DoneOnce,
       Resting, Notified, Working, Exit, runnerVars
  <2>4. WorkIsCounted'
    BY <1>3, <2>1 DEF IInv, WorkIsCounted, Exit
  <2> QED
    BY <2>2, <2>3, <2>4 DEF IInv
<1>4. ASSUME NEW x \in Members, StartNode(x) PROVE IInv'
  <2>1. Owing' = Owing
    BY <1>4 DEF StartNode, runnerVars, Owing
  <2>2. TypeOK' /\ Phases'
    BY <1>4 DEF IInv, TypeOK, Phases, StartNode, runnerVars
  <2>3. TicksAreCurrent' /\ RunnersAreCurrent' /\ DoneOnce'
    BY <1>4 DEF IInv, Phases, TicksAreCurrent, RunnersAreCurrent, DoneOnce,
       Resting, Notified, Working, StartNode, runnerVars
  <2>4. WorkIsCounted'
    BY <1>4, <2>1 DEF IInv, WorkIsCounted, StartNode
  <2> QED
    BY <2>2, <2>3, <2>4 DEF IInv
<1>5. ASSUME NEW x \in Members, Spawn(x) PROVE IInv'
  <2>1. Owing' = Owing /\ time \in Ticks
    BY <1>5 DEF IInv, TypeOK, Phases, Ticks, Spawn, runnerVars, Owing
  <2>2. <<x, time>> \notin running
    BY <1>5 DEF IInv, TicksAreCurrent, Spawn
  <2>3. TypeOK'
    BY <1>5, <2>1 DEF IInv, TypeOK, Spawn, runnerVars
  <2>4. Phases'
    BY <1>5 DEF IInv, TypeOK, Phases, Spawn
  <2>5. TicksAreCurrent'
    <3>1. IsFiniteSet(running')
      BY <1>5, FS_AddElement DEF IInv, TicksAreCurrent, Spawn
    <3>2. \A g \in running' : pc' = "tick" /\ g[1] \in spawned' /\ g[2] = time'
      BY <1>5 DEF IInv, TicksAreCurrent, Spawn
    <3> QED
      BY <3>1, <3>2 DEF TicksAreCurrent
  <2>6. RunnersAreCurrent' /\ DoneOnce'
    BY <1>5 DEF IInv, RunnersAreCurrent, DoneOnce,
       Resting, Notified, Working, Spawn, runnerVars
  <2>7. WorkIsCounted'
    <3>1. Cardinality(running') = Cardinality(running) + 1
      BY <1>5, <2>2, FS_AddElement DEF IInv, TicksAreCurrent, Spawn
    <3>2. Cardinality(running) \in Nat
      BY FS_CardinalityType DEF IInv, TicksAreCurrent
    <3> QED
      BY <1>5, <2>1, <3>1, <3>2, OwingFinite
         DEF IInv, TypeOK, WorkIsCounted, Spawn
  <2> QED
    BY <2>3, <2>4, <2>5, <2>6, <2>7 DEF IInv
<1>6. ASSUME NEW x \in Members, Notify(x) PROVE IInv'
  <2>1. /\ time \in Ticks /\ Resting(x)
        /\ msCh' = [msCh EXCEPT ![x] = <<time>>]
        /\ wg' = [wg EXCEPT ![time] = @ + 1]
        /\ Owing' = Owing \cup {x} /\ x \notin Owing
    BY <1>6, NotifyOwes
  <2>2. TypeOK'
    BY <1>6, <2>1 DEF IInv, TypeOK, Notify
  <2>3. Phases' /\ TicksAreCurrent' /\ DoneOnce'
    BY <1>6 DEF IInv, Phases, TicksAreCurrent, DoneOnce, Notify
  <2>4. RunnersAreCurrent'
    BY <1>6, <2>1 DEF IInv, TypeOK, RunnersAreCurrent, Resting, Notified,
       Working, Notify
  <2>5. WorkIsCounted'
    <3>1. Cardinality(Owing') = Cardinality(Owing) + 1
      BY <2>1, OwingFinite, FS_AddElement
    <3>2. Cardinality(running) \in Nat
      BY FS_CardinalityType DEF IInv, TicksAreCurrent
    <3> QED
      BY <1>6, <2>1, <3>1, <3>2, OwingFinite
         DEF IInv, TypeOK, WorkIsCounted, Notify
  <2> QED
    BY <2>2, <2>3, <2>4, <2>5 DEF IInv
<1>7. ASSUME NEW x \in Nodes, SignalDone(x) PROVE IInv'
  <2>1. Owing' = Owing /\ x \in Members
    BY <1>7 DEF SignalDone, Owing, Members
  <2>2. TypeOK'
    BY <1>7, <2>1 DEF IInv, TypeOK, SignalDone
  <2>3. Phases' /\ TicksAreCurrent' /\ RunnersAreCurrent'
    BY <1>7 DEF IInv, Phases, TicksAreCurrent, RunnersAreCurrent,
       Resting, Notified, Working, SignalDone
  <2>4. DoneOnce'
    BY <1>7, <2>1 DEF IInv, TypeOK, DoneOnce, SignalDone
  <2>5. WorkIsCounted'
    BY <1>7, <2>1 DEF IInv, WorkIsCounted, SignalDone
  <2> QED
    BY <2>2, <2>3, <2>4, <2>5 DEF IInv
<1>8. ASSUME NEW g \in running, FinishTick(g) PROVE IInv'
  <2>1. Owing' = Owing /\ g[2] = time /\ time \in Ticks
    BY <1>8 DEF IInv, TypeOK, TicksAreCurrent, FinishTick, runnerVars, Owing
  <2>2. TypeOK' /\ Phases'
    BY <1>8, <2>1 DEF IInv, TypeOK, Phases, FinishTick, mainVars, runnerVars
  <2>3. TicksAreCurrent'
    BY <1>8, FS_RemoveElement DEF IInv, TicksAreCurrent, FinishTick, mainVars
  <2>4. RunnersAreCurrent' /\ DoneOnce'
    BY <1>8 DEF IInv, RunnersAreCurrent, DoneOnce,
       Resting, Notified, Working, FinishTick, mainVars, runnerVars
  <2>5. WorkIsCounted'
    <3>1. Cardinality(running') = Cardinality(running) - 1
      BY <1>8, FS_RemoveElement DEF IInv, TicksAreCurrent, FinishTick
    <3>2. Cardinality(running) \in Nat
      BY FS_CardinalityType DEF IInv, TicksAreCurrent
    <3>3. wg' = [wg EXCEPT ![time] = @ - 1] /\ time' = time
      BY <1>8, <2>1 DEF FinishTick, mainVars
    <3>4. wg[time] = Cardinality(running) + Cardinality(Owing)
      BY <2>1 DEF IInv, WorkIsCounted
    <3>5. wg'[time] = Cardinality(running') + Cardinality(Owing')
      BY <2>1, <3>1, <3>2, <3>3, <3>4, OwingFinite DEF IInv, TypeOK
    <3>6. \A t \in Ticks \ {time} : wg'[t] = 0
      BY <3>3 DEF IInv, TypeOK, WorkIsCounted
    <3> QED
      BY <3>3, <3>5, <3>6 DEF WorkIsCounted
  <2> QED
    BY <2>2, <2>3, <2>4, <2>5 DEF IInv
<1>9. ASSUME NEW x \in Members, TakeMs(x) PROVE IInv'
  <2>1. /\ time \in Ticks /\ Notified(x)
        /\ holding' = [holding EXCEPT ![x] = time]
        /\ msCh' = [msCh EXCEPT ![x] = <<>>]
        /\ Owing' = Owing
    BY <1>9, TakeMsOwes
  <2>2. TypeOK' /\ Phases'
    BY <1>9, <2>1 DEF IInv, TypeOK, Phases, TakeMs, mainVars
  <2>3. TicksAreCurrent' /\ DoneOnce'
    BY <1>9 DEF IInv, TicksAreCurrent, DoneOnce, TakeMs, mainVars
  <2>4. RunnersAreCurrent'
    BY <1>9, <2>1 DEF IInv, TypeOK, RunnersAreCurrent, Resting, Notified,
       Working, TakeMs, mainVars
  <2>5. WorkIsCounted'
    BY <1>9, <2>1 DEF IInv, WorkIsCounted, TakeMs, mainVars
  <2> QED
    BY <2>2, <2>3, <2>4, <2>5 DEF IInv
<1>10. ASSUME NEW x \in Members, EndMs(x) PROVE IInv'
  <2>1. Working(x) /\ time \in Ticks
    BY <1>10, EndMsOwes
  <2>2. Owing' = Owing \ {x} /\ x \in Owing
    BY <1>10, EndMsOwes
  <2>3. TypeOK' /\ Phases'
    BY <1>10, <2>1 DEF IInv, TypeOK, Phases, Working, EndMs, mainVars
  <2>4. TicksAreCurrent' /\ DoneOnce'
    BY <1>10 DEF IInv, TicksAreCurrent, DoneOnce, EndMs, mainVars
  <2>5. RunnersAreCurrent'
    BY <1>10, <2>1 DEF IInv, TypeOK, RunnersAreCurrent, Resting, Notified,
       Working, EndMs, mainVars
  <2>6. WorkIsCounted'
    <3>1. Cardinality(Owing') = Cardinality(Owing) - 1
      BY <2>2, OwingFinite, FS_RemoveElement
    <3>2. Cardinality(running) \in Nat
      BY FS_CardinalityType DEF IInv, TicksAreCurrent
    <3> QED
      BY <1>10, <2>1, <3>1, <3>2, OwingFinite
         DEF IInv, TypeOK, WorkIsCounted, Working, EndMs, mainVars
  <2> QED
    BY <2>3, <2>4, <2>5, <2>6 DEF IInv
<1>11. ASSUME NEW x \in Members, Stop(x) PROVE IInv'
  <2>1. Owing' = Owing /\ x \in signalled /\ done[x] = 1
    BY <1>11 DEF IInv, TypeOK, DoneOnce, Stop, Owing
  <2>2. TypeOK' /\ Phases'
    BY <1>11, <2>1 DEF IInv, TypeOK, Phases, Stop, mainVars
  <2>3. TicksAreCurrent' /\ RunnersAreCurrent'
    BY <1>11 DEF IInv, TicksAreCurrent, RunnersAreCurrent,
       Resting, Notified, Working, Stop, mainVars
  <2>4. DoneOnce'
    BY <1>11, <2>1 DEF IInv, TypeOK, DoneOnce, Stop, mainVars
  <2>5. WorkIsCounted'
    BY <1>11, <2>1 DEF IInv, WorkIsCounted, Stop, mainVars
  <2> QED
    BY <2>2, <2>3, <2>4, <2>5 DEF IInv
<1>12. CASE UNCHANGED vars
  BY <1>12 DEF IInv, TypeOK, Phases, TicksAreCurrent, RunnersAreCurrent,
     WorkIsCounted, DoneOnce, Resting, Notified, Working, Owing, vars
<1> QED
  BY <1>1, <1>2, <1>3, <1>4, <1>5, <1>6, <1>7, <1>8, <1>9, <1>10, <1>11, <1>12
     DEF Next, Main, Runner, Returned

\* The inductive invariant holds throughout every run.
THEOREM Invariance == Spec => []IInv
BY InitIInv, NextIInv, PTL DEF Spec

\* The variables of the barrier keep their types.
THEOREM TypeCorrect == Spec => []TypeOK
<1>1. IInv => TypeOK
  BY DEF IInv
<1> QED
  BY <1>1, Invariance, PTL

\* Broadcast never drops a subscriber: whatever the interleaving and however
\* long the run, the default branch of its select is dead code.
THEOREM BroadcastNeverDrops == Spec => []NoDrop
<1>1. IInv => NoDrop
  BY ConstantFacts DEF IInv, TypeOK, Phases, RunnersAreCurrent, Resting,
     Notified, Working, NoDrop
<1> QED
  BY <1>1, Invariance, PTL

\* No goroutine and no runner ever works outside of its millisecond.
THEOREM WorkStaysInItsMs == Spec => []AllWorkInCurrentMs
<1> SUFFICES IInv => AllWorkInCurrentMs
  BY Invariance, PTL
<1> SUFFICES ASSUME IInv PROVE AllWorkInCurrentMs
  OBVIOUS
<1>1. \A x \in Members : /\ holding[x] \in {Idle, time}
                        /\ \A i \in DOMAIN msCh[x] : msCh[x][i] = time
  BY DEF IInv, RunnersAreCurrent, Resting, Notified, Working
<1>2. pc # "tick" => Owing = {}
  BY DEF IInv, Phases, RunnersAreCurrent, Resting, Notified, Working, Owing
<1> QED
  BY <1>1, <1>2 DEF IInv, TicksAreCurrent, AllWorkInCurrentMs

\* No WaitGroup gets more Dones than Adds: none ever panics.
THEOREM WaitGroupNeverNegative == Spec => []NoNegativeWaitGroup
<1>1. ASSUME IInv PROVE NoNegativeWaitGroup
  <2>1. Cardinality(running) \in Nat /\ Cardinality(Owing) \in Nat
    BY <1>1, OwingFinite, FS_CardinalityType DEF IInv, TicksAreCurrent
  <2> QED
    BY <1>1, <2>1 DEF IInv, WorkIsCounted, NoNegativeWaitGroup
<1> QED
  BY <1>1, Invariance, PTL

\* The done signals come after the last millisecond is complete, and a runner
\* that has returned leaves nothing in its channels.
THEOREM RunnersStopClean == Spec => []StopIsClean
<1>1. ASSUME IInv PROVE StopIsClean
  <2>1. signalled # {} => time >= EndTime /\ running = {} /\ Owing = {}
    BY <1>1, ConstantFacts DEF IInv, Phases, TicksAreCurrent, RunnersAreCurrent,
       Resting, Notified, Working, Owing
  <2>2. \A x \in stopped : msCh[x] = <<>> /\ done[x] = 0
    BY <1>1, <2>1 DEF IInv, TypeOK, DoneOnce, Members, Owing
  <2> QED
    BY <2>1, <2>2 DEF StopIsClean
<1> QED
  BY <1>1, Invariance, PTL

-----------------------------------------------------------------------------
(* TickLoop implements Lockstep: a Done is a worker's Finish, the increment *)
(* of the time is Advance, and every other step is invisible.               *)

\* The initial states are those of Lockstep.
LEMMA InitIsAbstract == Init => Abstract!Init
BY DEF Init, Abstract!Init, FinishedWork

\* Each step is a step of Lockstep, or changes no finished work.
LEMMA StepIsAbstract ==
  IInv /\ IInv' /\ [Next]_vars => [Abstract!Next]_(Abstract!lvars)
<1> SUFFICES ASSUME IInv, IInv', [Next]_vars
             PROVE  Abstract!Next \/ UNCHANGED <<time, FinishedWork>>
  BY DEF Abstract!lvars
<1> USE ConstantFacts
<1>1. CASE LoopTest
  BY <1>1 DEF LoopTest, Branch, runnerVars, FinishedWork, Owing
<1>2. CASE WaitAndAdvance
  <2>1. running = {} /\ Owing = {}
    BY <1>2, ZeroMeansIdle DEF WaitAndAdvance
  <2>2. spawned = Members /\ notified = Members
    BY <1>2 DEF IInv, Phases, WaitAndAdvance
  <2>3. FinishedWork = Work
    BY <2>1, <2>2 DEF FinishedWork, Work
  <2>4. FinishedWork' = {}
    BY <1>2 DEF WaitAndAdvance, EndIteration, FinishedWork
  <2>5. time < EndTime /\ time' = time + 1
    BY <1>2 DEF IInv, Phases, WaitAndAdvance, EndIteration
  <2> QED
    BY <2>3, <2>4, <2>5 DEF Abstract!Next, Abstract!Advance
<1>3. CASE Exit
  BY <1>3 DEF Exit, runnerVars, FinishedWork, Owing
<1>4. ASSUME NEW x \in Members, StartNode(x)
      PROVE  UNCHANGED <<time, FinishedWork>>
  BY <1>4 DEF StartNode, runnerVars, FinishedWork, Owing
<1>5. ASSUME NEW x \in Members, Spawn(x)
      PROVE  UNCHANGED <<time, FinishedWork>>
  <2>1. {y \in spawned' : <<y, time>> \notin running'}
          = {y \in spawned : <<y, time>> \notin running}
    BY <1>5 DEF Spawn
  <2> QED
    BY <1>5, <2>1 DEF Spawn, runnerVars, FinishedWork, Owing
<1>6. ASSUME NEW x \in Members, Notify(x)
      PROVE  UNCHANGED <<time, FinishedWork>>
  <2>1. notified' \ Owing' = notified \ Owing
    BY <1>6, NotifyOwes DEF Notify
  <2> QED
    BY <1>6, <2>1 DEF Notify, FinishedWork
<1>7. ASSUME NEW x \in Nodes, SignalDone(x)
      PROVE  UNCHANGED <<time, FinishedWork>>
  BY <1>7 DEF SignalDone, FinishedWork, Owing
<1>8. ASSUME NEW g \in running, FinishTick(g) PROVE Abstract!Next
  <2> DEFINE w == <<"tick", g[1]>>
  <2>1. g[2] = time /\ g[1] \in spawned /\ g = <<g[1], time>> /\ time < EndTime
    BY DEF IInv, TypeOK, Phases, TicksAreCurrent
  <2>2. w \in Work /\ w \notin FinishedWork
    <3>1. \A y \in spawned : <<"tick", y>> = w => y = g[1]
      OBVIOUS
    <3>2. w \notin {<<"ms", x>> : x \in notified \ Owing}
      OBVIOUS
    <3>3. w \in Work
      BY <2>1 DEF IInv, TypeOK, Work
    <3> QED
      BY <2>1, <3>1, <3>2, <3>3 DEF FinishedWork
  <2>3. {y \in spawned' : <<y, time'>> \notin running'}
          = {y \in spawned : <<y, time>> \notin running} \cup {g[1]}
    BY <1>8, <2>1 DEF FinishTick, mainVars
  <2>4. FinishedWork' = FinishedWork \cup {w}
    BY <1>8, <2>3 DEF FinishTick, mainVars, runnerVars, FinishedWork, Owing
  <2>5. Abstract!Finish(w)
    BY <1>8, <2>1, <2>2, <2>4 DEF Abstract!Finish, FinishTick, mainVars
  <2> QED
    BY <2>2, <2>5 DEF Abstract!Next
<1>9. ASSUME NEW x \in Members, TakeMs(x)
      PROVE  UNCHANGED <<time, FinishedWork>>
  BY <1>9, TakeMsOwes DEF TakeMs, mainVars, FinishedWork
<1>10. ASSUME NEW x \in Members, EndMs(x) PROVE Abstract!Next
  <2> DEFINE w == <<"ms", x>>
  <2>1. Working(x) /\ time < EndTime
    BY <1>10, EndMsOwes DEF IInv, Phases, Working
  <2>2. Owing' = Owing \ {x} /\ x \in Owing
    BY <1>10, EndMsOwes
  <2>3. w \in Work /\ w \notin FinishedWork
    BY <2>2 DEF Work, FinishedWork
  <2>4. notified' \ Owing' = (notified \ Owing) \cup {x}
    BY <1>10, <2>1, <2>2 DEF EndMs, mainVars, Working
  <2>5. FinishedWork' = FinishedWork \cup {w}
    BY <1>10, <2>4 DEF EndMs, mainVars, FinishedWork
  <2>6. Abstract!Finish(w)
    BY <1>10, <2>1, <2>3, <2>5 DEF Abstract!Finish, EndMs, mainVars
  <2> QED
    BY <2>3, <2>6 DEF Abstract!Next
<1>11. ASSUME NEW x \in Members, Stop(x)
       PROVE  UNCHANGED <<time, FinishedWork>>
  BY <1>11 DEF Stop, mainVars, FinishedWork, Owing
<1>12. CASE UNCHANGED vars
  BY <1>12 DEF vars, FinishedWork, Owing
<1> QED
  BY <1>1, <1>2, <1>3, <1>4, <1>5, <1>6, <1>7, <1>8, <1>9, <1>10, <1>11, <1>12
     DEF Next, Main, Runner, Returned

\* Run, the Broadcaster and the runners implement the lockstep barrier: the
\* clock moves only when each tick goroutine and each runner has finished the
\* current millisecond, and none of them finishes it twice.
THEOREM TickLoopImplementsLockstep == Spec => Abstract!Safety
BY Invariance, InitIsAbstract, StepIsAbstract, PTL DEF Spec, Abstract!Safety
=============================================================================
