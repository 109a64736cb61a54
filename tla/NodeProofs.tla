----------------------------- MODULE NodeProofs -----------------------------
(***************************************************************************)
(* Proofs about Node, for every set of calls, number of stages, limit and  *)
(* cost.  NodeImplementsResources carries the theorems about Resources     *)
(* over to the node, whatever its goroutines do.                           *)
(***************************************************************************)
EXTENDS Node, ResourcesProofs

\* What the runner has at hand when it needs a task.
CurIsTask ==
  pc \in {"add", "park", "cpu", "limits", "delay", "fanout", "outboundMemory"} =>
    cur \in Task

PCOK == pc \in {"select", "calls", "handle", "add", "tasks", "park", "cpu", "limits",
                "delay", "queuedMemory", "fanout", "outboundMemory"}

NInv == NTypeOK /\ RInv /\ CurIsTask /\ PCOK /\ WorkOnlyWhenUp

\* A task with another wakeup is a task.
LEMMA RescheduledTask ==
  ASSUME NEW t \in Task, NEW w \in Int
  PROVE  [t EXCEPT !.wakeup = w] \in Task
BY DEF Task

\* Only the node's own consumption of memory takes it down.
LEMMA OnlyMemoryKills ==
  /\ \A a \in CPUPerLocalWork : RInv /\ ConsumeCPU(a) => status' = status
  /\ \A a \in NetworkPerCall \cup NetworkPerReply :
       RInv /\ ConsumeNetwork(a) => status' = status
  /\ UpdateResources /\ ~isDown => status' = status
BY DEF RInv, DownIffMemoryExhausted, ConsumeCPU, UseCPU, ConsumeNetwork, UseNetwork,
   NetworkAvailable, OOMCheck, rvars, UpdateResources, Recovering, isDown

\* Each step of the node is a step of its resources, or leaves them alone.
LEMMA StepIsResourceStep == NInv /\ [NNext]_nvars => [RNext]_rvars
<1> SUFFICES ASSUME NInv, [NNext]_nvars PROVE [RNext]_rvars
  OBVIOUS
<1>1. ASSUME NEW c \in Calls, Sender(c) PROVE [RNext]_rvars
  BY <1>1 DEF Sender, TryCheck, TryCharge, TryPush, RNext
<1>2. CASE RecvCall \/ TakeMs
  BY <1>2 DEF RecvCall, TakeMs
<1>3. CASE HandleCalls
  BY <1>3 DEF HandleCalls, PopCalls, EndCalls, AddTask, RefuseCall, AcceptCall,
     RNext
<1>4. CASE HandleTasks
  <2>1. CASE ParkTask
    <3>1. cur.call \in Calls
      BY <2>1 DEF NInv, CurIsTask, ParkTask, Task
    <3> QED
      BY <2>1, <3>1 DEF ParkTask, RNext
  <2>2. CASE Reply
    BY <2>2 DEF Reply, RNext
  <2>3. CASE ConsumeWork \/ ConsumeQueuedMemory \/ ConsumeOutboundMemory
    BY <2>3 DEF ConsumeWork, ConsumeQueuedMemory, ConsumeOutboundMemory, RNext
  <2>4. CASE \/ \E t \in tasks : PopTask(t)
             \/ RejectTask \/ PassLimits \/ DelayTask \/ RunClosure \/ SendRemote
             \/ EndMs
    BY <2>4 DEF PopTask, RejectTask, PassLimits, DelayTask, RunClosure, SendRemote,
       EndMs
  <2> QED
    BY <1>4, <2>1, <2>2, <2>3, <2>4 DEF HandleTasks
<1>5. CASE Tick
  BY <1>5 DEF Tick, DrainOutbound, TickUpdate, CleanOutbound, CleanTasks,
     CleanCalls, RNext
<1>6. CASE NextMs
  BY <1>6 DEF NextMs, RNext
<1>7. CASE UNCHANGED nvars
  BY <1>7 DEF nvars
<1> QED
  BY <1>1, <1>2, <1>3, <1>4, <1>5, <1>6, <1>7 DEF NNext, RunnerMs

-----------------------------------------------------------------------------
(* The inductive invariant of the node.                                     *)

\* A node starts idle, up and empty.
LEMMA InitNInv == NInit => NInv
<1> SUFFICES ASSUME NInit PROVE NInv
  OBVIOUS
<1>1. RInv
  BY InitRInv DEF NInit
<1>2. NTypeOK
  <2>1. callCh \in Seq(Calls) /\ Len(callCh) <= BufferSize
    BY NodeAssumption DEF NInit
  <2>2. /\ sender \in [Calls -> {"new", "queued", "checked", "charged", "sent"}]
        /\ due \in [Calls -> -1 .. NetworkDelay]
        /\ replies \in [Calls -> Seq({"ok", "error"})]
    BY NodeAssumption DEF NInit
  <2>3. /\ calls = {} /\ batch = {} /\ tasks = {} /\ outbound = {} /\ ran = {}
        /\ cur = Nothing /\ remote = 1
    BY DEF NInit
  <2>4. msPending \in BOOLEAN
    BY DEF NInit
  <2> QED
    BY <1>1, <2>1, <2>2, <2>3, <2>4 DEF NTypeOK, RInv
<1>3. CurIsTask /\ PCOK /\ WorkOnlyWhenUp
  BY DEF NInit, CurIsTask, PCOK, WorkOnlyWhenUp
<1> QED
  BY <1>1, <1>2, <1>3 DEF NInv

\* Each step of the node preserves the invariant.
LEMMA NextNInv == NInv /\ [NNext]_nvars => NInv'
<1> SUFFICES ASSUME NInv, [NNext]_nvars PROVE NInv'
  OBVIOUS
<1> USE NodeAssumption
<1>0. RInv' /\ RTypeOK'
  BY StepIsResourceStep, NextRInv DEF NInv, RInv
<1>1. ASSUME NEW c \in Calls, TryCheck(c) PROVE NInv'
  <2>1. NTypeOK'
    BY <1>0, <1>1 DEF NInv, NTypeOK, TryCheck, senderFrame, runnerVars
  <2>2. CurIsTask' /\ PCOK' /\ WorkOnlyWhenUp'
    BY <1>1 DEF NInv, CurIsTask, PCOK, WorkOnlyWhenUp, TryCheck, senderFrame,
       runnerVars, rvars, isDown
  <2> QED
    BY <1>0, <2>1, <2>2 DEF NInv
<1>2. ASSUME NEW c \in Calls, TryCharge(c) PROVE NInv'
  <2>1. NTypeOK'
    BY <1>0, <1>2 DEF NInv, NTypeOK, TryCharge, senderFrame, runnerVars
  <2>2. status' = status
    BY <1>2, OnlyMemoryKills DEF NInv, TryCharge
  <2>3. CurIsTask' /\ PCOK' /\ WorkOnlyWhenUp'
    BY <1>2, <2>2 DEF NInv, CurIsTask, PCOK, WorkOnlyWhenUp, TryCharge,
       senderFrame, runnerVars, isDown
  <2> QED
    BY <1>0, <2>1, <2>3 DEF NInv
<1>3. ASSUME NEW c \in Calls, TryPush(c) PROVE NInv'
  <2>1. callCh' \in Seq(Calls) /\ Len(callCh') <= BufferSize
    <3>1. CASE Len(callCh) < BufferSize
      <4>1. callCh' = Append(callCh, c) /\ callCh \in Seq(Calls)
        BY <1>3, <3>1 DEF NInv, NTypeOK, TryPush
      <4>2. callCh' \in Seq(Calls) /\ Len(callCh') = Len(callCh) + 1
        BY <4>1
      <4>3. Len(callCh) \in Nat
        BY <4>1
      <4> QED
        BY <3>1, <4>2, <4>3
    <3>2. CASE ~(Len(callCh) < BufferSize)
      BY <1>3, <3>2 DEF NInv, NTypeOK, TryPush
    <3> QED
      BY <3>1, <3>2
  <2>2. NTypeOK'
    BY <1>0, <1>3, <2>1 DEF NInv, NTypeOK, TryPush, senderFrame, runnerVars
  <2>3. CurIsTask' /\ PCOK' /\ WorkOnlyWhenUp'
    BY <1>3 DEF NInv, CurIsTask, PCOK, WorkOnlyWhenUp, TryPush, senderFrame,
       runnerVars, rvars, isDown
  <2> QED
    BY <1>0, <2>2, <2>3 DEF NInv
<1>4. CASE RecvCall
  <2>1. /\ Head(callCh) \in Calls /\ callCh' \in Seq(Calls)
        /\ Len(callCh') <= BufferSize
    BY <1>4 DEF NInv, NTypeOK, RecvCall
  <2>2. NTypeOK'
    BY <1>0, <1>4, <2>1 DEF NInv, NTypeOK, RecvCall, loadVars, runnerVars
  <2>3. CurIsTask' /\ PCOK' /\ WorkOnlyWhenUp'
    BY <1>4 DEF NInv, CurIsTask, PCOK, WorkOnlyWhenUp, RecvCall, runnerVars,
       rvars, isDown
  <2> QED
    BY <1>0, <2>2, <2>3 DEF NInv
<1>5. CASE TakeMs
  BY <1>0, <1>5 DEF NInv, NTypeOK, CurIsTask, PCOK, WorkOnlyWhenUp, TakeMs, loadVars
<1>6. CASE HandleCalls
  <2>1. CASE PopCalls
    BY <1>0, <2>1 DEF NInv, NTypeOK, CurIsTask, PCOK, WorkOnlyWhenUp, PopCalls,
       workFrame, loadVars
  <2>2. CASE EndCalls
    BY <1>0, <2>2 DEF NInv, NTypeOK, CurIsTask, PCOK, WorkOnlyWhenUp, EndCalls,
       workFrame, loadVars
  <2>3. CASE AddTask
    <3>1. cur \in Task /\ ~isDown
      BY <2>3 DEF NInv, CurIsTask, WorkOnlyWhenUp, AddTask
    <3>2. tasks' \subseteq Task
      <4>1. PICK w \in LocalWork : tasks' = tasks \cup {[cur EXCEPT !.wakeup = w]}
        BY <2>3 DEF AddTask
      <4>2. [cur EXCEPT !.wakeup = w] \in Task
        BY <3>1, RescheduledTask
      <4> QED
        BY <4>1, <4>2 DEF NInv, NTypeOK
    <3>3. \/ cur' \in Task /\ pc' = "add"
          \/ cur' = Nothing /\ pc' = "handle"
      BY <2>3, <3>1 DEF AddTask, Task, Stages
    <3> QED
      BY <1>0, <2>3, <3>1, <3>2, <3>3 DEF NInv, NTypeOK, CurIsTask, PCOK,
         WorkOnlyWhenUp, AddTask, workFrame, loadVars, rvars, isDown
  <2>4. ASSUME NEW c \in Calls, RefuseCall(c) PROVE NInv'
    BY <1>0, <2>4 DEF NInv, NTypeOK, CurIsTask, PCOK, WorkOnlyWhenUp, RefuseCall,
       SendReply, workFrame, loadVars
  <2>5. ASSUME NEW c \in Calls, AcceptCall(c) PROVE NInv'
    <3>1. \/ UNCHANGED <<pc, cur>> /\ pc = "handle"
          \/ pc' = "add" /\ cur' \in Task /\ ~isDown'
      <4>1. [call |-> c, stage |-> 1, wakeup |-> 0] \in Task
        BY NodeAssumption DEF Task, Stages
      <4> QED
        BY <2>5, <4>1 DEF AcceptCall
    <3> QED
      BY <1>0, <2>5, <3>1 DEF NInv, NTypeOK, CurIsTask, PCOK, WorkOnlyWhenUp,
         AcceptCall, workFrame, loadVars
  <2> QED
    BY <1>6, <2>1, <2>2, <2>3, <2>4, <2>5 DEF HandleCalls
<1>7. CASE HandleTasks
  <2>1. ASSUME NEW t \in tasks, PopTask(t) PROVE NInv'
    <3>1. t \in Task
      BY DEF NInv, NTypeOK
    <3> QED
      BY <1>0, <2>1, <3>1 DEF NInv, NTypeOK, CurIsTask, PCOK, WorkOnlyWhenUp,
         PopTask, taskFrame, closureFrame, loadVars, rvars, isDown
  <2>2. CASE ParkTask
    BY <1>0, <2>2 DEF NInv, NTypeOK, CurIsTask, PCOK, WorkOnlyWhenUp, ParkTask,
       taskFrame, closureFrame, loadVars
  <2>3. CASE ConsumeWork
    <3>1. status' = status
      BY <2>3, OnlyMemoryKills DEF NInv, ConsumeWork
    <3> QED
      BY <1>0, <2>3, <3>1 DEF NInv, NTypeOK, CurIsTask, PCOK, WorkOnlyWhenUp,
         ConsumeWork, taskFrame, closureFrame, loadVars, isDown
  <2>4. CASE RejectTask
    <3>1. cur.call \in Calls
      BY <2>4 DEF NInv, CurIsTask, RejectTask, Task
    <3> QED
      BY <1>0, <2>4, <3>1 DEF NInv, NTypeOK, CurIsTask, PCOK, WorkOnlyWhenUp,
         RejectTask, SendReply, taskFrame, closureFrame, loadVars
  <2>5. CASE PassLimits
    BY <1>0, <2>5 DEF NInv, NTypeOK, CurIsTask, PCOK, WorkOnlyWhenUp, PassLimits,
       taskFrame, closureFrame, loadVars, rvars, isDown
  <2>6. CASE DelayTask
    <3>1. cur \in Task /\ CPUDelay \in Int
      BY <2>6, ResourceAssumption DEF NInv, CurIsTask, DelayTask, CPUDelay, RInv, RTypeOK
    <3>2. tasks' \subseteq Task
      <4>1. cur.wakeup + CPUDelay \in Int
        BY <3>1 DEF Task
      <4>2. [cur EXCEPT !.wakeup = @ + CPUDelay] \in Task
        BY <3>1, <4>1, RescheduledTask
      <4> QED
        BY <2>6, <4>2 DEF NInv, NTypeOK, DelayTask
    <3> QED
      BY <1>0, <2>6, <3>2 DEF NInv, NTypeOK, CurIsTask, PCOK, WorkOnlyWhenUp,
         DelayTask, taskFrame, closureFrame, loadVars, rvars, isDown
  <2>7. CASE ConsumeQueuedMemory
    BY <1>0, <2>7 DEF NInv, NTypeOK, CurIsTask, PCOK, WorkOnlyWhenUp,
       ConsumeQueuedMemory, taskFrame, closureFrame, loadVars
  <2>8. CASE RunClosure
    <3>1. cur \in Task /\ <<cur.call, cur.stage>> \in Calls \X Stages
      BY <2>8 DEF NInv, CurIsTask, RunClosure, Task
    <3>2. ran' \subseteq Calls \X Stages
      BY <2>8, <3>1 DEF NInv, NTypeOK, RunClosure
    <3> QED
      BY <1>0, <2>8, <3>1, <3>2 DEF NInv, NTypeOK, CurIsTask, PCOK, WorkOnlyWhenUp,
         RunClosure, taskFrame, closureFrame, loadVars, rvars, isDown
  <2>9. CASE ConsumeOutboundMemory
    BY <1>0, <2>9 DEF NInv, NTypeOK, CurIsTask, PCOK, WorkOnlyWhenUp,
       ConsumeOutboundMemory, closureFrame, loadVars
  <2>10. CASE SendRemote
    <3>1. cur \in Task /\ <<cur.call, cur.stage, remote>> \in Calls \X Stages \X Nat
      BY <2>10 DEF NInv, NTypeOK, CurIsTask, SendRemote, FanOutDone, Task
    <3>2. outbound' \subseteq Calls \X Stages \X Nat
      BY <2>10, <3>1 DEF NInv, NTypeOK, SendRemote
    <3>3. pc' \in {"fanout", "outboundMemory"} /\ remote \in Nat \ {0} /\ remote' \in Nat \ {0}
      BY <2>10 DEF NInv, NTypeOK, SendRemote
    <3>4. UNCHANGED <<sender, due, callCh, calls, batch, tasks, cur, ran, replies, msPending>>
      BY <2>10 DEF SendRemote, closureFrame, loadVars
    <3> QED
      BY <1>0, <3>1, <3>2, <3>3, <3>4 DEF NInv, NTypeOK, CurIsTask, PCOK, WorkOnlyWhenUp
  <2>11. CASE Reply
    <3>1. cur.call \in Calls
      BY <2>11 DEF NInv, CurIsTask, Reply, FanOutDone, Task
    <3>2. replies' \in [Calls -> Seq({"ok", "error"})]
      <4>1. replies' = replies \/ SendReply(cur.call, "ok")
        BY <2>11 DEF Reply
      <4>2. Append(replies[cur.call], "ok") \in Seq({"ok", "error"})
        BY <3>1 DEF NInv, NTypeOK
      <4> QED
        BY <3>1, <4>1, <4>2 DEF NInv, NTypeOK, SendReply
    <3>3. pc' = "tasks" /\ cur' = Nothing /\ remote' = 1
      BY <2>11 DEF Reply
    <3>4. UNCHANGED <<sender, due, callCh, calls, batch, tasks, outbound, ran, msPending>>
      BY <2>11 DEF Reply, closureFrame, loadVars
    <3> QED
      BY <1>0, <3>2, <3>3, <3>4 DEF NInv, NTypeOK, CurIsTask, PCOK, WorkOnlyWhenUp
  <2>12. CASE EndMs
    BY <1>0, <2>12 DEF NInv, NTypeOK, CurIsTask, PCOK, WorkOnlyWhenUp, EndMs,
       taskFrame, closureFrame, loadVars
  <2> QED
    BY <1>7, <2>1, <2>2, <2>3, <2>4, <2>5, <2>6, <2>7, <2>8, <2>9, <2>10, <2>11,
       <2>12
       DEF HandleTasks
<1>8. CASE Tick
  <2>1. outbound' \subseteq Calls \X Stages \X Nat
    BY <1>8 DEF NInv, NTypeOK, Tick, DrainOutbound, TickUpdate, CleanOutbound,
       CleanTasks, CleanCalls
  <2>2. /\ tasks' \subseteq Task /\ calls' \subseteq Calls
        /\ UNCHANGED <<sender, due, callCh, pc, batch, cur, remote, msPending, ran,
                       replies>>
    BY <1>8 DEF NInv, NTypeOK, Tick, DrainOutbound, TickUpdate, CleanOutbound,
       CleanTasks, CleanCalls, goFrame, loadVars, runnerVars
  <2>3. ~isDown => ~isDown'
    BY <1>8, OnlyMemoryKills DEF NInv, Tick, DrainOutbound, TickUpdate,
       CleanOutbound, CleanTasks, CleanCalls, rvars, isDown
  <2>4. NTypeOK'
    BY <1>0, <2>1, <2>2 DEF NInv, NTypeOK
  <2>5. CurIsTask' /\ PCOK' /\ WorkOnlyWhenUp'
    BY <2>2, <2>3 DEF NInv, CurIsTask, PCOK, WorkOnlyWhenUp
  <2> QED
    BY <1>0, <2>4, <2>5 DEF NInv
<1>9. CASE NextMs
  <2>1. tasks' \subseteq Task
    <3>1. \A t \in tasks : t \in Task /\ t.wakeup - MsUnits \in Int
      BY DEF NInv, NTypeOK, Task
    <3>2. \A t \in tasks : [t EXCEPT !.wakeup = @ - MsUnits] \in Task
      BY <3>1, RescheduledTask
    <3> QED
      BY <1>9, <3>2 DEF NextMs
  <2>2. due' \in [Calls -> -1 .. NetworkDelay]
    BY <1>9 DEF NInv, NTypeOK, NextMs
  <2> QED
    BY <1>0, <1>9, <2>1, <2>2 DEF NInv, NTypeOK, CurIsTask, PCOK, WorkOnlyWhenUp,
       NextMs, TickComplete
<1>10. CASE UNCHANGED nvars
  BY <1>0, <1>10 DEF NInv, NTypeOK, CurIsTask, PCOK, WorkOnlyWhenUp, nvars, rvars,
     loadVars, runnerVars, isDown
<1> QED
  BY <1>1, <1>2, <1>3, <1>4, <1>5, <1>6, <1>7, <1>8, <1>9, <1>10
     DEF NNext, Sender, RunnerMs

\* The inductive invariant holds throughout every behaviour of the node.
THEOREM NodeInvariance == NSafety => []NInv
BY InitNInv, NextNInv, PTL DEF NSafety

\* The variables of the node keep their types, and callCh its capacity.
THEOREM NodeTypeCorrect == NSafety => []NTypeOK
<1>1. NInv => NTypeOK
  BY DEF NInv
<1> QED
  BY <1>1, NodeInvariance, PTL

\* The runner works only while the node is up: its check of isDown at the start
\* of a call or a task still holds at every later step of it.
THEOREM NodeWorksOnlyWhenUp == NSafety => []WorkOnlyWhenUp
<1>1. NInv => WorkOnlyWhenUp
  BY DEF NInv
<1> QED
  BY <1>1, NodeInvariance, PTL

\* Senders, runner and tick goroutine together never do to the resources what
\* a single legal operation of NodeResources could not.
THEOREM NodeImplementsResources == NSafety => ImplementsResources
<1>1. NInit => RInit
  BY DEF NInit
<1> QED
  BY <1>1, StepIsResourceStep, NodeInvariance, PTL
     DEF NSafety, ImplementsResources, RSpec

\* A node, with all its goroutines, is down exactly while its memory is
\* exhausted: what was proved of its resources alone.
THEOREM NodeDownExactlyWhenExhausted == NSafety => []DownIffMemoryExhausted
BY NodeImplementsResources, DownExactlyWhenExhausted, PTL DEF ImplementsResources

\* However senders and the runner compete for it, the network stays within its
\* limit.
THEOREM NodeNetworkWithinLimit == NSafety => []NetworkWithinLimit
BY NodeImplementsResources, NetworkStaysWithinLimit, PTL DEF ImplementsResources

\* No goroutine of the node, nor a sender, breaks into an outage.
THEOREM NodeOutagesAreSealed == NSafety => OutageIsSealed
BY NodeImplementsResources, OutagesAreSealed, PTL DEF ImplementsResources
=============================================================================
