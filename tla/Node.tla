-------------------------------- MODULE Node --------------------------------
(***************************************************************************)
(* One app node: node (node.go), its tasks (task.go) and its resources     *)
(* (module Resources), driven by the milliseconds of module TickLoop.      *)
(*                                                                         *)
(* Three kinds of goroutine touch the node: its senders (the runner and    *)
(* the tick goroutine of its load balancer), which admit a call with       *)
(* tryAcceptCall; its runner, which receives calls and, once in a          *)
(* millisecond, handles the calls and tasks that are due; and its own tick *)
(* goroutine, which drains the outbound queue, updates the resources and   *)
(* cleans up after an out-of-memory kill.  An action is one critical       *)
(* section (a mutex, or a channel operation) with the local steps around   *)
(* it.  A read of isDown is joined to the runner's next use of it: only    *)
(* the runner itself takes the node down, so "up" cannot become stale.     *)
(*                                                                         *)
(* Times are relative to the clock: a call's Wakeup in whole milliseconds, *)
(* a task's in Units of which MsUnits make a millisecond, because the code *)
(* truncates a task's wakeup to an int to order it.                        *)
(*                                                                         *)
(* A definition marked mutant is a plausible bug in the one that follows:  *)
(* no action of NNext uses it.                                             *)
(***************************************************************************)
EXTENDS Resources, Sequences, FiniteSets

CONSTANTS
  NumStages,         \* len(App.Stages)
  RemoteCalls,       \* the number of remote calls of each stage
  LocalWork,         \* the possible durations of a stage, in Units
  MsUnits,           \* Units in a millisecond
  NetworkDelay,      \* networkDelayConst
  BufferSize,        \* bufferSizes
  CPULimit,
  CPURejectLimit,    \* 0 means that the node never rejects
  CPUDelayFactor     \* Units of delay for each part of CPU over the limit

Stages == 1 .. NumStages

ASSUME NodeAssumption ==
  /\ NumStages \in Nat \ {0} /\ RemoteCalls \in [Stages -> Nat]
  /\ LocalWork \subseteq Nat /\ MsUnits \in Nat \ {0}
  /\ NetworkDelay \in Nat /\ BufferSize \in Nat \ {0}
  /\ CPULimit \in 0 .. Full /\ CPURejectLimit \in 0 .. Full
  /\ CPUDelayFactor \in Nat \ {0}

ASSUME NoneAssumption == "none" \notin Calls     \* it stands for no call, below

VARIABLES
  sender,     \* how far the sender of each call has got
  due,        \* Wakeup of each call, minus the time (-1 when it is past)
  callCh,     \* the channel of admitted calls
  calls,      \* the heap of received calls
  tasks,      \* the heap of tasks
  outbound,   \* outboundQueue: the remote calls not yet delivered
  pc,         \* where the runner is
  batch,      \* its callsToProcess
  cur,        \* the task or call it is at work on
  remote,     \* the next remote call of its closure
  msPending,  \* this millisecond's broadcast waits in msCh
  goPC,       \* where the tick goroutine is
  ran,        \* the <<call, stage>> whose closures were run
  replies     \* what was sent to the caller of each call

loadVars   == <<sender, due>>
runnerVars == <<pc, batch, cur, remote, msPending>>
nvars == <<rvars, loadVars, callCh, calls, tasks, outbound, runnerVars, goPC,
           ran, replies>>

Nothing == [call |-> "none", stage |-> 0, wakeup |-> 0]

NInit ==
  /\ RInit
  /\ sender = [c \in Calls |-> "new"] /\ due = [c \in Calls |-> 0]
  /\ callCh = <<>> /\ calls = {} /\ tasks = {} /\ outbound = {}
  /\ pc = "select" /\ batch = {} /\ cur = Nothing /\ remote = 1
  /\ msPending = FALSE /\ goPC = "done"
  /\ ran = {} /\ replies = [c \in Calls |-> <<>>]

-----------------------------------------------------------------------------
(* Senders: Call.sendCall and later drainOutbound at the load balancer call *)
(* tryAcceptCall.  A call that is refused is queued there, to be tried      *)
(* again, or given up: nothing obliges a sender to try again.               *)

senderFrame == UNCHANGED <<calls, tasks, outbound, runnerVars, goPC, ran, replies>>

\* The first step reads isDown.
TryCheck(c) ==
  /\ sender[c] \in {"new", "queued"}
  /\ sender' = [sender EXCEPT ![c] = IF isDown THEN "queued" ELSE "checked"]
  /\ due' = IF sender[c] = "new" THEN [due EXCEPT ![c] = NetworkDelay] ELSE due
  /\ UNCHANGED <<rvars, callCh>>
  /\ senderFrame

\* The second takes the network capacity.
TryCharge(c) ==
  /\ sender[c] = "checked"
  /\ \E a \in NetworkPerCall :
       /\ ConsumeNetwork(a)
       /\ sender' = [sender EXCEPT ![c] =
                       IF NetworkAvailable(a) THEN "charged" ELSE "queued"]
  /\ UNCHANGED <<due, callCh>>
  /\ senderFrame

TryPushUnbounded(c) ==                            \* mutant
  /\ sender[c] = "charged"
  /\ callCh' = Append(callCh, c)
  /\ sender' = [sender EXCEPT ![c] = "sent"]
  /\ UNCHANGED <<rvars, due>>
  /\ senderFrame

\* The third sends on callCh, unless it is full; the network stays taken.
TryPush(c) ==
  /\ sender[c] = "charged"
  /\ IF Len(callCh) < BufferSize
       THEN /\ callCh' = Append(callCh, c)
            /\ sender' = [sender EXCEPT ![c] = "sent"]
       ELSE /\ sender' = [sender EXCEPT ![c] = "queued"]
            /\ UNCHANGED callCh
  /\ UNCHANGED <<rvars, due>>
  /\ senderFrame

-----------------------------------------------------------------------------
(* The runner: receiving.                                                   *)

\* The select takes a call: addCall.
RecvCall ==
  /\ pc = "select" /\ callCh # <<>>
  /\ calls' = calls \cup {Head(callCh)}
  /\ callCh' = Tail(callCh)
  /\ UNCHANGED <<rvars, loadVars, tasks, outbound, runnerVars, goPC, ran, replies>>

\* The select takes the millisecond.
TakeMs ==
  /\ pc = "select" /\ msPending
  /\ msPending' = FALSE
  /\ pc' = "calls"
  /\ UNCHANGED <<rvars, loadVars, callCh, calls, tasks, outbound, batch, cur,
                 remote, goPC, ran, replies>>

workFrame == UNCHANGED <<loadVars, callCh, remote, msPending, goPC>>

PeekCalls ==                                      \* mutant
  /\ pc = "calls"
  /\ batch' = {c \in calls : due[c] < 0}
  /\ pc' = "handle"
  /\ UNCHANGED <<rvars, calls, tasks, outbound, cur, ran, replies>>
  /\ workFrame

\* handleCalls first pops every call whose Wakeup is past.
PopCalls ==
  /\ pc = "calls"
  /\ batch' = {c \in calls : due[c] < 0}
  /\ calls' = calls \ batch'
  /\ pc' = "handle"
  /\ UNCHANGED <<rvars, tasks, outbound, cur, ran, replies>>
  /\ workFrame

\* sendErrorReply, and the final reply of HandleTask.
SendReply(c, status_) == replies' = [replies EXCEPT ![c] = Append(@, status_)]

\* handleCall, while down: a 503.
RefuseCall(c) ==
  /\ pc = "handle" /\ c \in batch /\ isDown
  /\ SendReply(c, "error")
  /\ batch' = batch \ {c}
  /\ UNCHANGED <<rvars, calls, tasks, outbound, pc, cur, ran>>
  /\ workFrame

\* handleCall, while up: memory for the call; if that kills the node, the call
\* is dropped without an answer.
AcceptCall(c) ==
  /\ pc = "handle" /\ c \in batch /\ ~isDown
  /\ \E a \in MemoryPerCall : ConsumeMemory(a)
  /\ batch' = batch \ {c}
  /\ IF isDown' THEN UNCHANGED <<pc, cur>>
                ELSE /\ pc' = "add"
                     /\ cur' = [call |-> c, stage |-> 1, wakeup |-> 0]
  /\ UNCHANGED <<calls, tasks, outbound, ran, replies>>
  /\ workFrame

AddTaskButLast ==                                 \* mutant
  /\ pc = "add"
  /\ IF cur.stage < NumStages
       THEN /\ \E w \in LocalWork : tasks' = tasks \cup {[cur EXCEPT !.wakeup = w]}
            /\ cur' = [cur EXCEPT !.stage = @ + 1] /\ pc' = pc
       ELSE cur' = Nothing /\ pc' = "handle" /\ UNCHANGED tasks
  /\ UNCHANGED <<rvars, calls, outbound, batch, ran, replies>>
  /\ workFrame

\* addTask for each stage in turn, every stage with a wakeup of its own.
AddTask ==
  /\ pc = "add"
  /\ \E w \in LocalWork : tasks' = tasks \cup {[cur EXCEPT !.wakeup = w]}
  /\ IF cur.stage < NumStages
       THEN cur' = [cur EXCEPT !.stage = @ + 1] /\ pc' = pc
       ELSE cur' = Nothing /\ pc' = "handle"
  /\ UNCHANGED <<rvars, calls, outbound, batch, ran, replies>>
  /\ workFrame

\* The batch is handled: on to handleTasks.
EndCalls ==
  /\ pc = "handle" /\ batch = {}
  /\ pc' = "tasks"
  /\ UNCHANGED <<rvars, calls, tasks, outbound, batch, cur, ran, replies>>
  /\ workFrame

-----------------------------------------------------------------------------
(* The runner: handleTasks and HandleTask.                                  *)

ReadyOnlyWhenPast(t) == t.wakeup < 0              \* mutant

\* int(wakeup) <= now.
Ready(t) == t.wakeup < MsUnits

\* Peak: a task whose wakeup, in whole milliseconds, is the least.
IsNext(t) ==
  /\ t \in tasks /\ Ready(t)
  /\ \A u \in tasks : t.wakeup \div MsUnits <= u.wakeup \div MsUnits

closureFrame == UNCHANGED <<loadVars, callCh, msPending, goPC, calls, batch>>

taskFrame == UNCHANGED remote /\ closureFrame

PopTaskUnchecked(t) ==                            \* mutant
  /\ pc = "tasks" /\ IsNext(t)
  /\ tasks' = tasks \ {t}
  /\ cur' = t
  /\ pc' = "cpu"
  /\ UNCHANGED <<rvars, outbound, ran, replies>>
  /\ taskFrame

PopTaskOnlyWhenUp(t) ==                           \* mutant
  /\ pc = "tasks" /\ IsNext(t)
  /\ IF isDown THEN UNCHANGED <<tasks, cur, pc>>
               ELSE tasks' = tasks \ {t} /\ cur' = t /\ pc' = "cpu"
  /\ UNCHANGED <<rvars, outbound, ran, replies>>
  /\ taskFrame

\* The task is popped, and set aside if the node is down.
PopTask(t) ==
  /\ pc = "tasks" /\ IsNext(t)
  /\ tasks' = tasks \ {t}
  /\ cur' = t
  /\ pc' = IF isDown THEN "park" ELSE "cpu"
  /\ UNCHANGED <<rvars, outbound, ran, replies>>
  /\ taskFrame

ParkTask ==
  /\ pc = "park"
  /\ KeepPending(cur.call)
  /\ pc' = "tasks" /\ cur' = Nothing
  /\ UNCHANGED <<tasks, outbound, ran, replies>>
  /\ taskFrame

\* handleTaskCPU: the CPU of the work is consumed first...
ConsumeWork ==
  /\ pc = "cpu"
  /\ \E a \in CPUPerLocalWork : ConsumeCPU(a)
  /\ pc' = "limits"
  /\ UNCHANGED <<tasks, outbound, cur, ran, replies>>
  /\ taskFrame

\* ...then a CPU at the reject limit turns the call away with a 503...
MustReject == CPURejectLimit > 0 /\ cpu >= CPURejectLimit

RejectTaskAndGoOn ==                              \* mutant
  /\ pc = "limits" /\ MustReject
  /\ SendReply(cur.call, "error")
  /\ pc' = "delay"
  /\ UNCHANGED <<rvars, tasks, outbound, cur, ran>>
  /\ taskFrame

RejectTaskSilently ==                             \* mutant
  /\ pc = "limits" /\ MustReject
  /\ pc' = "tasks" /\ cur' = Nothing
  /\ UNCHANGED <<rvars, tasks, outbound, ran, replies>>
  /\ taskFrame

RejectTask ==
  /\ pc = "limits" /\ MustReject
  /\ SendReply(cur.call, "error")
  /\ pc' = "tasks" /\ cur' = Nothing
  /\ UNCHANGED <<rvars, tasks, outbound, ran>>
  /\ taskFrame

PassLimits ==
  /\ pc = "limits" /\ ~MustReject
  /\ pc' = "delay"
  /\ UNCHANGED <<rvars, tasks, outbound, cur, ran, replies>>
  /\ taskFrame

\* ...and a CPU over its limit (read anew) puts the task back for later...
CPUDelay == (cpu - CPULimit) * CPUDelayFactor

DelayTaskAndRun ==                                \* mutant
  /\ pc = "delay" /\ CPUDelay > 0
  /\ tasks' = tasks \cup {[cur EXCEPT !.wakeup = @ + CPUDelay]}
  /\ ran' = ran \cup {<<cur.call, cur.stage>>}
  /\ pc' = "queuedMemory" /\ cur' = Nothing
  /\ UNCHANGED <<rvars, outbound, replies>>
  /\ taskFrame

DelayTask ==
  /\ pc = "delay" /\ CPUDelay > 0
  /\ tasks' = tasks \cup {[cur EXCEPT !.wakeup = @ + CPUDelay]}
  /\ pc' = "queuedMemory" /\ cur' = Nothing
  /\ UNCHANGED <<rvars, outbound, ran, replies>>
  /\ taskFrame

\* ...at a cost in memory, which may kill the node.
ConsumeQueuedMemory ==
  /\ pc = "queuedMemory"
  /\ \E a \in MemoryPerQueuedCall : ConsumeMemory(a)
  /\ pc' = "tasks"
  /\ UNCHANGED <<tasks, outbound, cur, ran, replies>>
  /\ taskFrame

\* t.later(): the closure goes through the stage's remote calls.
RunClosure ==
  /\ pc = "delay" /\ CPUDelay <= 0
  /\ ran' = ran \cup {<<cur.call, cur.stage>>}
  /\ pc' = "fanout"
  /\ UNCHANGED <<rvars, tasks, outbound, cur, replies>>
  /\ taskFrame

FanOutDone == pc = "fanout" /\ remote > RemoteCalls[cur.stage]

\* Each is left out by the filter, or sent to the load balancer of its
\* endpoint; when the balancer's callCh is full it goes to the outbound queue.
SendRemote ==
  /\ pc = "fanout" /\ ~FanOutDone
  /\ \/ remote' = remote + 1 /\ UNCHANGED <<pc, outbound>>
     \/ /\ outbound' = outbound \cup {<<cur.call, cur.stage, remote>>}
        /\ pc' = "outboundMemory" /\ UNCHANGED remote
  /\ UNCHANGED <<rvars, tasks, cur, ran, replies>>
  /\ closureFrame

\* queueOutbound charges the memory of a queued call.  If that kills the node
\* the closure goes on to the stage's other calls nevertheless.
ConsumeOutboundMemory ==
  /\ pc = "outboundMemory"
  /\ \E a \in MemoryPerCall : ConsumeMemory(a)
  /\ pc' = "fanout" /\ remote' = remote + 1
  /\ UNCHANGED <<tasks, outbound, cur, ran, replies>>
  /\ closureFrame

ReplyEvenDown ==                                  \* mutant
  /\ FanOutDone
  /\ IF cur.stage < NumStages
       THEN UNCHANGED <<rvars, replies>>
       ELSE \E a \in NetworkPerReply : UseNetwork(a) /\ SendReply(cur.call, "ok")
  /\ pc' = "tasks" /\ cur' = Nothing /\ remote' = 1
  /\ UNCHANGED <<tasks, outbound, ran>>
  /\ closureFrame

\* The task of the last stage sends the reply, if the network allows it;
\* otherwise the call is never answered.
Reply ==
  /\ FanOutDone
  /\ IF cur.stage < NumStages
       THEN UNCHANGED <<rvars, replies>>
       ELSE \E a \in NetworkPerReply :
              /\ ConsumeNetwork(a)
              /\ IF NetworkAvailable(a) THEN SendReply(cur.call, "ok")
                                        ELSE UNCHANGED replies
  /\ pc' = "tasks" /\ cur' = Nothing /\ remote' = 1
  /\ UNCHANGED <<tasks, outbound, ran>>
  /\ closureFrame

\* No task is due any more: msWg.Done(), back to the select.
EndMs ==
  /\ pc = "tasks" /\ ~\E t \in tasks : Ready(t)
  /\ pc' = "select"
  /\ UNCHANGED <<rvars, tasks, outbound, cur, ran, replies>>
  /\ taskFrame

-----------------------------------------------------------------------------
(* The tick goroutine: nextMillisecond.                                     *)

goFrame == UNCHANGED <<loadVars, callCh, runnerVars, ran, replies>>

\* drainOutbound: each queued call is delivered, given up or kept.
DrainOutbound ==
  /\ goPC = "drain"
  /\ \E kept \in SUBSET outbound : outbound' = kept
  /\ goPC' = "update"
  /\ UNCHANGED <<rvars, calls, tasks>>
  /\ goFrame

TickUpdateOnlyWhenUp ==                           \* mutant
  /\ goPC = "update"
  /\ IF isDown THEN UNCHANGED rvars ELSE UpdateResources
  /\ goPC' = "done"
  /\ UNCHANGED <<calls, tasks, outbound>>
  /\ goFrame

\* updateResources; after a recovery comes fullOOMCleanup, queue by queue.
TickUpdate ==
  /\ goPC = "update"
  /\ UpdateResources
  /\ goPC' = IF Recovering THEN "cleanOutbound" ELSE "done"
  /\ UNCHANGED <<calls, tasks, outbound>>
  /\ goFrame

CleanOutbound ==
  /\ goPC = "cleanOutbound"
  /\ outbound' = {}
  /\ goPC' = "cleanTasks"
  /\ UNCHANGED <<rvars, calls, tasks>>
  /\ goFrame

CleanTasks ==
  /\ goPC = "cleanTasks"
  /\ tasks' = {}
  /\ goPC' = "cleanCalls"
  /\ UNCHANGED <<rvars, calls, outbound>>
  /\ goFrame

CleanCalls ==
  /\ goPC = "cleanCalls"
  /\ calls' = {}
  /\ goPC' = "done"
  /\ UNCHANGED <<rvars, tasks, outbound>>
  /\ goFrame

-----------------------------------------------------------------------------
(* The main loop, as module TickLoop has it: the time moves on when the     *)
(* runner and the tick goroutine are done, and the senders', too.           *)

TickComplete ==
  /\ pc = "select" /\ ~msPending /\ goPC = "done"
  /\ \A c \in Calls : sender[c] \notin {"checked", "charged"}

NextMs ==
  /\ TickComplete
  /\ PassMs
  /\ due' = [c \in Calls |-> IF due[c] > -1 /\ sender[c] # "new"
                               THEN due[c] - 1 ELSE due[c]]
  /\ tasks' = {[t EXCEPT !.wakeup = @ - MsUnits] : t \in tasks}
  /\ msPending' = TRUE /\ goPC' = "drain"
  /\ UNCHANGED <<sender, callCh, calls, outbound, pc, batch, cur, remote, ran,
                 replies>>

Sender(c) == TryCheck(c) \/ TryCharge(c) \/ TryPush(c)

HandleCalls == PopCalls \/ EndCalls \/ AddTask
                 \/ \E c \in Calls : RefuseCall(c) \/ AcceptCall(c)

HandleTasks == \/ \E t \in tasks : PopTask(t)
               \/ ParkTask \/ ConsumeWork \/ RejectTask \/ PassLimits \/ DelayTask
               \/ ConsumeQueuedMemory \/ RunClosure \/ SendRemote
               \/ ConsumeOutboundMemory \/ Reply \/ EndMs

RunnerMs == TakeMs \/ HandleCalls \/ HandleTasks

Tick == DrainOutbound \/ TickUpdate \/ CleanOutbound \/ CleanTasks \/ CleanCalls

NNext == \/ \E c \in Calls : Sender(c)
         \/ RecvCall \/ RunnerMs \/ Tick \/ NextMs

\* The Go scheduler runs whoever can run.  The select of the runner chooses at
\* random among the channels that are ready: it cannot pass over callCh for
\* ever, hence SF.  The model lets a refused sender try again any number of
\* times in a millisecond, the code twice at most (sendCall, then one
\* drainOutbound): it cannot hold up the time for ever, hence SF for NextMs.
\* The loop goes on for as long as we look at it.
NFairness ==
  /\ WF_nvars(RunnerMs) /\ SF_nvars(RecvCall) /\ WF_nvars(Tick) /\ SF_nvars(NextMs)
  /\ \A c \in Calls : WF_nvars(TryCharge(c)) /\ WF_nvars(TryPush(c))

NSafety == NInit /\ [][NNext]_nvars

NSpec == NSafety /\ NFairness

-----------------------------------------------------------------------------
(* What the node must guarantee.                                            *)

Task == [call : Calls, stage : Stages, wakeup : Int]

NTypeOK ==
  /\ RTypeOK
  /\ sender \in [Calls -> {"new", "queued", "checked", "charged", "sent"}]
  /\ due \in [Calls -> -1 .. NetworkDelay]
  /\ callCh \in Seq(Calls) /\ Len(callCh) <= BufferSize
  /\ calls \subseteq Calls /\ batch \subseteq Calls
  /\ tasks \subseteq Task
  /\ cur \in Task \cup {Nothing}
  /\ outbound \subseteq Calls \X Stages \X Nat
  /\ remote \in Nat \ {0}
  /\ ran \subseteq Calls \X Stages
  /\ msPending \in BOOLEAN
  /\ replies \in [Calls -> Seq({"ok", "error"})]

\* Whatever the senders, the runner and the tick goroutine do, and in whatever
\* order, each step is a legal step of the resource bookkeeping.
ImplementsResources == RSpec

\* Work is done only on a node that is up: once the runner has found the node
\* available, nothing but its own consumption of memory takes it down, so CPU
\* is really charged, and a rejection, a delay or the start of a closure is
\* decided on a live node.  (A closure may kill its node and go on.)
WorkOnlyWhenUp ==
  pc \in {"add", "cpu", "limits", "delay", "queuedMemory"} => ~isDown

\* A millisecond that is over has left nothing undone: when the tick is
\* complete no task is due, also not one that was delayed, or added by a call
\* that was handled, in the same millisecond.
NothingDueAtTickEnd == TickComplete => \A t \in tasks : t.wakeup >= MsUnits

\* Where a call is held by the node.
Holders(c) ==
  {h \in {"callCh", "calls", "batch", "tasks"} :
     \/ h = "callCh" /\ \E i \in DOMAIN callCh : callCh[i] = c
     \/ h = "calls" /\ c \in calls
     \/ h = "batch" /\ c \in batch
     \/ h = "tasks" /\ (cur.call = c \/ \E t \in tasks : t.call = c)}

\* A call is never in two places at once, and never in any before its sender's
\* push went through: a refused or delayed delivery leaves no copy behind.
CallInOnePlace ==
  \A c \in Calls : IF sender[c] = "sent" THEN Cardinality(Holders(c)) <= 1
                                         ELSE Holders(c) = {}

\* The closure of a stage runs at most once: rejections, delays and requeues
\* never leave a task behind whose stage has already run.
StageRunsOnce ==
  \A t \in tasks \cup (IF pc \in {"cpu", "limits", "delay"} THEN {cur} ELSE {}) :
    <<t.call, t.stage>> \notin ran

\* A call that no task has been made of waits: at its sender, in callCh, in
\* calls or in the runner's batch.
InCh(c) == \E i \in DOMAIN callCh : callCh[i] = c

Waiting(c) == sender[c] # "sent" \/ InCh(c) \/ c \in calls \/ c \in batch

\* The runner is at work on the stage, or will add its task next.
InHand(c, s) == cur.call = c /\ IF pc = "add" THEN s >= cur.stage ELSE s = cur.stage

\* The stages of a call that the node has still to finish.
Ahead(c) ==
  {s \in Stages : \/ Waiting(c) \/ InHand(c, s)
                  \/ \E t \in tasks : t.call = c /\ t.stage = s}

Promise == INSTANCE Service
             WITH ahead     <- [c \in Calls |-> Ahead(c)],
                  failing   <- \/ isDown \/ pc = "park"
                               \/ goPC \in {"cleanTasks", "cleanCalls"},
                  saturated <- \E a \in NetworkPerReply : ~NetworkAvailable(a)

\* The node keeps the promise of module Service: nothing it was sent vanishes
\* without an answer, but for want of network or in a failure, and a task that
\* is rejected, delayed or taken up again is finished once.
ImplementsService == Promise!Spec

\* A call gets no more replies than it has stages, though a 503 for one stage
\* does not stop the others, and at most one of them is a success.
OneReplyPerStage ==
  \A c \in Calls :
    /\ Len(replies[c]) <= NumStages
    /\ \A i, j \in DOMAIN replies[c] :
         replies[c][i] = "ok" /\ replies[c][j] = "ok" => i = j

\* An out-of-memory kill is not for ever.
DownEventuallyUp == isDown ~> ~isDown

\* A call that was sent does not stay in the node for ever.
SentEventuallyLeaves ==
  \A c \in Calls : sender[c] = "sent" ~> Holders(c) = {}

\* A node whose memory cannot be exhausted and whose replies cost no network is
\* never done with a call that it has not answered, however the stages are
\* delayed, rejected or run, and in whatever order.
DoneIsAnswered == \A c \in Calls : Ahead(c) = {} => replies[c] # <<>>

\* On such a node every call that was sent is answered.
SentIsAnswered ==
  \A c \in Calls : sender[c] = "sent" ~> replies[c] # <<>>
=============================================================================
