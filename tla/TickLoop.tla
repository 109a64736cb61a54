------------------------------ MODULE TickLoop ------------------------------
(***************************************************************************)
(* Loop.Run (loop.go), the Broadcaster (broadcaster.go) and the part of    *)
(* node.runner (node.go) that answers it: the barrier that makes every     *)
(* goroutine of the simulation agree on the current millisecond.           *)
(*                                                                         *)
(* In each millisecond the main goroutine starts one goroutine per source  *)
(* and per node (NextMillisecond), then sends the millisecond's WaitGroup  *)
(* to every subscriber's msCh; a runner takes it, does the millisecond's   *)
(* calls and tasks, and calls Done.  The loop waits for the WaitGroup and  *)
(* only then increments the time.  The work itself (the calls, tasks and   *)
(* resources a millisecond changes) is the subject of module Node.         *)
(*                                                                         *)
(* A WaitGroup is declared anew in each iteration: it is named here by the *)
(* millisecond it belongs to.                                              *)
(***************************************************************************)
EXTENDS Integers, Sequences, FiniteSets

CONSTANTS Sources,           \* loop.sources
          LBs,               \* loop.lbs; their nodes are in loop.nodes too
          Apps,              \* the other members of loop.nodes
          Length,            \* the length argument of Run, in ms
          SmallChannelSize   \* smallChannelSize, the capacity of msCh and done

Nodes   == LBs \cup Apps         \* loop.nodes
Members == Sources \cup Nodes    \* everything that has a node and a runner

ASSUME MembersAssumption ==
  /\ IsFiniteSet(Members)
  /\ Sources \cap Nodes = {}
ASSUME SizesAssumption ==
  /\ Length \in Nat
  /\ SmallChannelSize \in Nat \ {0}

StartTime == 1000                \* Run's "instead of 1 or 0"
EndTime   == Length + StartTime
Ticks     == StartTime .. (EndTime - 1)
Idle      == 0                   \* no WaitGroup in hand; not a tick

VARIABLES
  time,        \* loop.time
  pc,          \* where Run is
  subscribers, \* the members whose run() has subscribed to the broadcaster
  spawned,     \* the members whose tick goroutine was started this ms
  notified,    \* the subscribers Broadcast has passed this ms
  running,     \* the tick goroutines still at work, with their WaitGroup
  msCh,        \* each member's msCh: WaitGroups sent, not yet received
  holding,     \* the WaitGroup each runner is working for, or Idle
  wg,          \* the counter of each WaitGroup
  done,        \* how many values each member's done channel holds
  signalled,   \* the nodes that Run has sent done
  stopped      \* the runners that have returned

vars == <<time, pc, subscribers, spawned, notified, running, msCh, holding,
          wg, done, signalled, stopped>>

mainVars   == <<time, pc, subscribers, spawned, notified, signalled>>
runnerVars == <<msCh, holding, done, stopped>>

-----------------------------------------------------------------------------
(* The main goroutine.  The order of the members within loop.sources,       *)
(* loop.nodes and the subscribers is left open.  A definition marked mutant *)
(* is a plausible bug in the one that follows: no action of Next uses it.   *)

\* Before Run: makeApp runs each app node as it builds it, MakeLB and MakeSource
\* do not.
AlreadyRun == Apps

\* Nothing is started; the clock is what Run sets it to first.
Init ==
  /\ time = StartTime
  /\ pc = "start"
  /\ subscribers = AlreadyRun
  /\ spawned = {} /\ notified = {} /\ running = {}
  /\ msCh = [x \in Members |-> <<>>]
  /\ holding = [x \in Members |-> Idle]
  /\ wg = [t \in Ticks |-> 0]
  /\ done = [x \in Members |-> 0]
  /\ signalled = {} /\ stopped = {}

\* Run starts the sources, then the LBs: each creates its channels,
\* subscribes, and starts its runner.
StartNode(x) ==
  /\ pc = "start"
  /\ x \notin subscribers
  /\ x \in Sources \/ Sources \subseteq subscribers
  /\ subscribers' = subscribers \cup {x}
  /\ UNCHANGED <<time, pc, spawned, notified, running, signalled, wg>>
  /\ UNCHANGED runnerVars

\* The loop condition: one more millisecond, or the end of the run.
Branch(more) ==
  /\ \/ pc = "start" /\ subscribers = Members
     \/ pc = "loop"
  /\ pc' = IF more THEN "tick" ELSE "finish"
  /\ UNCHANGED <<time, subscribers, spawned, notified, running, signalled, wg>>
  /\ UNCHANGED runnerVars

LoopTestOneTooMany == Branch(time <= EndTime)   \* mutant

LoopTest == Branch(time < EndTime)

\* wg.Add(1) and go func() { defer wg.Done(); ...NextMillisecond() }:
\* first for every source, then for every node.
Spawn(x) ==
  /\ pc = "tick"
  /\ x \notin spawned
  /\ x \in Sources \/ Sources \subseteq spawned
  /\ spawned' = spawned \cup {x}
  /\ running' = running \cup {<<x, time>>}
  /\ wg' = [wg EXCEPT ![time] = @ + 1]
  /\ UNCHANGED <<time, pc, subscribers, notified, signalled>>
  /\ UNCHANGED runnerVars

\* One round of Broadcast's loop: Add(1), then a send that never blocks; when
\* the channel is full the subscriber is dropped and Done undoes the Add.
NotifyWithoutAdd(x) ==                            \* mutant
  /\ pc = "tick"
  /\ spawned = Members
  /\ x \in subscribers \ notified
  /\ notified' = notified \cup {x}
  /\ Len(msCh[x]) < SmallChannelSize
  /\ msCh' = [msCh EXCEPT ![x] = Append(@, time)]
  /\ UNCHANGED <<time, pc, subscribers, spawned, running, signalled, wg>>
  /\ UNCHANGED <<holding, done, stopped>>

Notify(x) ==
  /\ pc = "tick"
  /\ spawned = Members
  /\ x \in subscribers \ notified
  /\ notified' = notified \cup {x}
  /\ IF Len(msCh[x]) < SmallChannelSize
       THEN /\ msCh' = [msCh EXCEPT ![x] = Append(@, time)]
            /\ wg' = [wg EXCEPT ![time] = @ + 1]
       ELSE UNCHANGED <<msCh, wg>>
  /\ UNCHANGED <<time, pc, subscribers, spawned, running, signalled>>
  /\ UNCHANGED <<holding, done, stopped>>

\* wg.Wait() returns and IncrementTime ends the iteration.
EndIteration ==
  /\ time' = time + 1
  /\ pc' = "loop"
  /\ spawned' = {} /\ notified' = {}
  /\ UNCHANGED <<subscribers, running, signalled, wg>>
  /\ UNCHANGED runnerVars

AdvanceWithoutWait ==                             \* mutant
  pc = "tick" /\ spawned = Members /\ notified = subscribers /\ EndIteration

AdvanceWithoutBroadcast ==                        \* mutant
  pc = "tick" /\ spawned = Members /\ wg[time] = 0 /\ EndIteration

WaitAndAdvance ==
  /\ pc = "tick"
  /\ spawned = Members
  /\ notified = subscribers
  /\ wg[time] = 0
  /\ EndIteration

\* After the last millisecond: n.done <- true for every node of loop.nodes
\* (not for the sources), blocking while the channel is full.
SignalDone(x) ==
  /\ pc = "finish"
  /\ x \in Nodes \ signalled
  /\ done[x] < SmallChannelSize
  /\ done' = [done EXCEPT ![x] = @ + 1]
  /\ signalled' = signalled \cup {x}
  /\ UNCHANGED <<time, pc, subscribers, spawned, notified, running, wg>>
  /\ UNCHANGED <<msCh, holding, stopped>>

Exit ==
  /\ pc = "finish"
  /\ signalled = Nodes
  /\ pc' = "exit"
  /\ UNCHANGED <<time, subscribers, spawned, notified, running, signalled, wg>>
  /\ UNCHANGED runnerVars

-----------------------------------------------------------------------------
(* The other goroutines.                                                    *)

\* A tick goroutine finishes NextMillisecond and calls Done.
FinishTick(g) ==
  /\ g \in running
  /\ running' = running \ {g}
  /\ wg' = [wg EXCEPT ![g[2]] = @ - 1]
  /\ UNCHANGED mainVars
  /\ UNCHANGED runnerVars

\* A runner's select takes the millisecond from msCh.
TakeMs(x) ==
  /\ x \in subscribers \ stopped
  /\ holding[x] = Idle
  /\ msCh[x] # <<>>
  /\ holding' = [holding EXCEPT ![x] = Head(msCh[x])]
  /\ msCh' = [msCh EXCEPT ![x] = Tail(@)]
  /\ UNCHANGED <<running, wg, done, stopped>>
  /\ UNCHANGED mainVars

EndMsWithoutDone(x) ==                            \* mutant
  /\ holding[x] # Idle
  /\ holding' = [holding EXCEPT ![x] = Idle]
  /\ UNCHANGED <<running, wg, msCh, done, stopped>>
  /\ UNCHANGED mainVars

\* The runner has handled the millisecond's calls and tasks: msWg.Done().
EndMs(x) ==
  /\ holding[x] # Idle
  /\ wg' = [wg EXCEPT ![holding[x]] = @ - 1]
  /\ holding' = [holding EXCEPT ![x] = Idle]
  /\ UNCHANGED <<running, msCh, done, stopped>>
  /\ UNCHANGED mainVars

\* A runner's select takes the done signal and returns.
Stop(x) ==
  /\ x \in subscribers \ stopped
  /\ holding[x] = Idle
  /\ done[x] > 0
  /\ done' = [done EXCEPT ![x] = @ - 1]
  /\ stopped' = stopped \cup {x}
  /\ UNCHANGED <<running, msCh, holding, wg>>
  /\ UNCHANGED mainVars

\* Run has returned; what is left running waits on its channels for ever.
Returned == pc = "exit" /\ UNCHANGED vars

-----------------------------------------------------------------------------
Main == \/ LoopTest \/ WaitAndAdvance \/ Exit
        \/ \E x \in Members : StartNode(x) \/ Spawn(x) \/ Notify(x)
        \/ \E x \in Nodes : SignalDone(x)

Runner(x) == TakeMs(x) \/ EndMs(x) \/ Stop(x)

Next == \/ Main
        \/ \E g \in running : FinishTick(g)
        \/ \E x \in Members : Runner(x)
        \/ Returned

\* The Go scheduler runs every goroutine that can run; none can be made to
\* wait by another one while its own step stays enabled.
Fairness == /\ WF_vars(Main)
            /\ \A x \in Members : WF_vars(Runner(x))
            /\ WF_vars(\E g \in running : FinishTick(g))

Spec == Init /\ [][Next]_vars /\ Fairness

-----------------------------------------------------------------------------
(* What the barrier must guarantee.                                         *)

TypeOK ==
  /\ time \in StartTime .. EndTime
  /\ pc \in {"start", "tick", "loop", "finish", "exit"}
  /\ subscribers \subseteq Members
  /\ spawned \subseteq Members
  /\ notified \subseteq Members
  /\ running \subseteq Members \X Ticks
  /\ msCh \in [Members -> Seq(Ticks)]
  /\ holding \in [Members -> Ticks \cup {Idle}]
  /\ wg \in [Ticks -> Int]
  /\ done \in [Members -> Nat]
  /\ signalled \subseteq Nodes
  /\ stopped \subseteq Nodes

\* Whoever still owes a Done to the WaitGroup of a broadcast.
Owing == {x \in Members : msCh[x] # <<>> \/ holding[x] # Idle}

\* Broadcast never takes its default branch: when it gets to a subscriber, the
\* channel has room, so no runner ever skips a millisecond (broadcaster.go's
\* "Dropped subscriber select" is unreachable under Run).
NoDrop ==
  pc = "tick" /\ spawned = Members =>
    \A x \in subscribers \ notified : Len(msCh[x]) < SmallChannelSize

\* Nothing outlives its millisecond: a tick goroutine, a WaitGroup under way
\* to a runner and the one a runner works for all belong to the current time,
\* and between two iterations there is none (loop.go's wg.Wait).
AllWorkInCurrentMs ==
  /\ \A g \in running : g[2] = time
  /\ \A x \in Members : /\ holding[x] \in {Idle, time}
                        /\ \A i \in DOMAIN msCh[x] : msCh[x][i] = time
  /\ pc # "tick" => running = {} /\ Owing = {}

\* No Done without its Add: the counter of a WaitGroup never becomes negative,
\* which would make sync.WaitGroup panic.
NoNegativeWaitGroup == \A t \in Ticks : wg[t] >= 0

\* A node is told to stop only when its last millisecond is complete, and a
\* runner that has returned has left nothing behind in its channels.
StopIsClean ==
  /\ signalled # {} => time >= EndTime /\ running = {} /\ Owing = {}
  /\ \A x \in stopped : msCh[x] = <<>> /\ done[x] = 0

\* The work of a millisecond: for each member, what its tick goroutine does
\* and what its runner does.
Work == ({"tick"} \X Members) \cup ({"ms"} \X Members)

FinishedWork ==
  {<<"tick", x>> : x \in {y \in spawned : <<y, time>> \notin running}}
    \cup {<<"ms", x>> : x \in notified \ Owing}

Abstract == INSTANCE Lockstep
              WITH Workers <- Work, finished <- FinishedWork

\* The main loop is a lockstep barrier: every piece of work of a millisecond
\* is finished exactly once before time moves on, and the run gets to its end.
ImplementsLockstep == Abstract!Spec

\* Run returns and every node's runner stops.  (The runners of the sources
\* are not in loop.nodes: they are never told to stop.)
Terminates == <>[](pc = "exit" /\ stopped = Nodes)
=============================================================================
