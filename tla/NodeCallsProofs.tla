--------------------------- MODULE NodeCallsProofs ---------------------------
(***************************************************************************)
(* Proofs about what becomes of the calls of a node (module Node): a call  *)
(* is in one place, each of its stages runs once, no task is left over at  *)
(* the end of a millisecond, and the node implements module Service: what  *)
(* it was sent is finished, refused or lost in a failure, and answered     *)
(* once for each stage at most.                                            *)
(*                                                                         *)
(* A call first waits: at its sender, in callCh, in calls and in batch, in *)
(* one of them at a time.  From there it only goes on, to the tasks, and   *)
(* never comes back.                                                       *)
(***************************************************************************)
EXTENDS NodeProofs, FiniteSetTheorems

NoCopies == \A i, j \in DOMAIN callCh : callCh[i] = callCh[j] => i = j

\* A call waits in one place.
WInv ==
  /\ NoCopies
  /\ \A c \in Calls :
       /\ sender[c] # "sent" => ~InCh(c) /\ c \notin calls /\ c \notin batch
       /\ InCh(c) => c \notin calls /\ c \notin batch
       /\ c \in calls => c \notin batch

\* The batch is empty but for the time in which handleCalls goes through it.
NoBatch == pc \notin {"handle", "add"} => batch = {}

\* The runner empties its batch before it goes on to the tasks.
LEMMA BatchStep == NoBatch /\ [NNext]_nvars => NoBatch'
<1> SUFFICES ASSUME NoBatch, [NNext]_nvars PROVE NoBatch'
  OBVIOUS
<1>1. ASSUME NEW c \in Calls, Sender(c) PROVE NoBatch'
  BY <1>1 DEF NoBatch, Sender, TryCheck, TryCharge, TryPush, senderFrame, runnerVars
<1>2. CASE RecvCall \/ TakeMs \/ NextMs \/ UNCHANGED nvars
  BY <1>2 DEF NoBatch, RecvCall, TakeMs, NextMs, TickComplete, nvars, runnerVars
<1>3. CASE HandleCalls
  BY <1>3 DEF NoBatch, HandleCalls, PopCalls, EndCalls, AddTask, RefuseCall, AcceptCall
<1>4. CASE HandleTasks
  <2>1. UNCHANGED batch /\ pc \notin {"handle", "add"}
    BY <1>4 DEF HandleTasks, PopTask, ParkTask, ConsumeWork, RejectTask, PassLimits,
       DelayTask, ConsumeQueuedMemory, RunClosure, SendRemote, ConsumeOutboundMemory,
       Reply, FanOutDone, EndMs, taskFrame, closureFrame
  <2> QED
    BY <2>1 DEF NoBatch
<1>5. CASE Tick
  BY <1>5 DEF NoBatch, Tick, DrainOutbound, TickUpdate, CleanOutbound, CleanTasks,
     CleanCalls, goFrame, runnerVars
<1> QED
  BY <1>1, <1>2, <1>3, <1>4, <1>5 DEF NNext, RunnerMs

\* What the queues and the senders are; the rest does not matter to WInv.
waitVars == <<sender, callCh, calls, batch>>

\* A step that leaves the channel alone leaves its calls where they are.
LEMMA SameChannel ==
  UNCHANGED callCh => (NoCopies' <=> NoCopies) /\ \A c : InCh(c)' <=> InCh(c)
BY DEF NoCopies, InCh

\* What the channel holds after a send.
LEMMA AppendedCall ==
  ASSUME NEW s \in Seq(Calls), NEW c \in Calls
  PROVE  /\ \A d : (\E i \in DOMAIN Append(s, c) : Append(s, c)[i] = d)
                     <=> d = c \/ \E i \in DOMAIN s : s[i] = d
         /\ /\ \A i, j \in DOMAIN s : s[i] = s[j] => i = j
            /\ \A i \in DOMAIN s : s[i] # c
            => \A i, j \in DOMAIN Append(s, c) :
                 Append(s, c)[i] = Append(s, c)[j] => i = j
<1>1. /\ DOMAIN s = 1 .. Len(s) /\ Len(s) \in Nat
      /\ DOMAIN Append(s, c) = 1 .. Len(s) + 1
      /\ \A i \in 1 .. Len(s) : Append(s, c)[i] = s[i]
      /\ Append(s, c)[Len(s) + 1] = c
  OBVIOUS
<1> QED
  BY <1>1

\* What the channel holds after a receive: the call received is gone.
LEMMA ReceivedCall ==
  ASSUME NEW s \in Seq(Calls), s # <<>>,
         \A i, j \in DOMAIN s : s[i] = s[j] => i = j
  PROVE  /\ Head(s) \in Calls
         /\ \E i \in DOMAIN s : s[i] = Head(s)
         /\ \A i \in DOMAIN Tail(s) : Tail(s)[i] # Head(s)
         /\ \A d : (\E i \in DOMAIN s : s[i] = d)
                   <=> d = Head(s) \/ \E i \in DOMAIN Tail(s) : Tail(s)[i] = d
         /\ \A i, j \in DOMAIN Tail(s) : Tail(s)[i] = Tail(s)[j] => i = j
<1>1. /\ DOMAIN s = 1 .. Len(s) /\ Len(s) \in Nat /\ Len(s) > 0
      /\ DOMAIN Tail(s) = 1 .. Len(s) - 1
      /\ \A i \in 1 .. Len(s) - 1 : Tail(s)[i] = s[i + 1]
      /\ Head(s) = s[1] /\ Head(s) \in Calls
  OBVIOUS
<1> DEFINE u == Tail(s)  n == Len(s)
<1>2. \A i \in 1 .. n - 1 : s[i + 1] = u[i] /\ i + 1 \in 1 .. n
  BY <1>1
<1>3. \A i \in 1 .. n : i = 1 \/ (i - 1 \in 1 .. n - 1 /\ u[i - 1] = s[i])
  <2>1. \A i \in 1 .. n : i = 1 \/ (i - 1 \in 1 .. n - 1 /\ (i - 1) + 1 = i)
    BY <1>1
  <2> QED
    BY <1>1, <2>1
<1>4. \A d : (\E i \in DOMAIN s : s[i] = d)
                <=> d = Head(s) \/ \E i \in DOMAIN u : u[i] = d
  <2>1. DOMAIN s = 1 .. n /\ DOMAIN u = 1 .. n - 1 /\ 1 \in 1 .. n /\ Head(s) = s[1]
    BY <1>1
  <2> HIDE DEF u, n
  <2> QED
    BY <1>2, <1>3, <2>1
<1> QED
  BY <1>1, <1>4

\* A step keeps WInv, and no call begins to wait again; a call that is refused
\* or accepted waits no more, and others leave only in a cleanup.
LEMMA WaitingStep ==
  NInv /\ NoBatch /\ WInv /\ [NNext]_nvars =>
    /\ WInv'
    /\ \A c \in Calls :
         /\ Waiting(c)' => Waiting(c)
         /\ Waiting(c) => Waiting(c)' \/ RefuseCall(c) \/ AcceptCall(c) \/ CleanCalls
         /\ RefuseCall(c) \/ AcceptCall(c) => Waiting(c) /\ ~Waiting(c)'
<1> SUFFICES ASSUME NInv, NoBatch, WInv, [NNext]_nvars
             PROVE  /\ WInv'
                    /\ \A c \in Calls :
                         /\ Waiting(c)' => Waiting(c)
                         /\ Waiting(c) => \/ Waiting(c)' \/ RefuseCall(c)
                                          \/ AcceptCall(c) \/ CleanCalls
                         /\ RefuseCall(c) \/ AcceptCall(c) => Waiting(c) /\ ~Waiting(c)'
  OBVIOUS
<1>0. /\ callCh \in Seq(Calls) /\ calls \subseteq Calls /\ batch \subseteq Calls
      /\ sender \in [Calls -> {"new", "queued", "checked", "charged", "sent"}]
  BY DEF NInv, NTypeOK
<1> DEFINE Shrinks == WInv' /\ \A c \in Calls : Waiting(c)' => Waiting(c)
           Stays == WInv' /\ \A c \in Calls : Waiting(c)' <=> Waiting(c)
<1>1. ASSUME UNCHANGED waitVars PROVE Stays
  BY <1>1, SameChannel DEF waitVars, WInv, Waiting
<1>2. ASSUME NEW c \in Calls, Sender(c) PROVE Stays
  <2>1. CASE TryPush(c) /\ Len(callCh) < BufferSize
    <3>1. /\ callCh' = Append(callCh, c) /\ sender[c] = "charged"
          /\ sender' = [sender EXCEPT ![c] = "sent"] /\ UNCHANGED <<calls, batch>>
      BY <2>1 DEF TryPush, senderFrame, runnerVars
    <3>2. ~InCh(c) /\ c \notin calls /\ c \notin batch
      BY <3>1 DEF WInv
    <3>3. \A d \in Calls : InCh(d)' <=> d = c \/ InCh(d)
      BY <1>0, <3>1, AppendedCall DEF InCh
    <3>4. NoCopies'
      BY <1>0, <3>1, <3>2, AppendedCall DEF InCh, WInv, NoCopies
    <3>5. \A d \in Calls : sender'[d] # "sent" <=> sender[d] # "sent" /\ d # c
      BY <1>0, <3>1
    <3> HIDE DEF Shrinks, Stays
    <3>6. WInv'
      BY <3>1, <3>2, <3>3, <3>4, <3>5 DEF WInv
    <3>7. \A d \in Calls : Waiting(d)' <=> Waiting(d)
      BY <3>1, <3>3, <3>5 DEF Waiting
    <3> QED
      BY <3>6, <3>7 DEF Stays
  <2>2. CASE ~(TryPush(c) /\ Len(callCh) < BufferSize)
    <3>1. /\ UNCHANGED <<callCh, calls, batch>> /\ sender[c] # "sent"
          /\ \E x \in {"new", "queued", "checked", "charged"} :
               sender' = [sender EXCEPT ![c] = x]
      BY <1>2, <2>2 DEF Sender, TryCheck, TryCharge, TryPush, senderFrame, runnerVars
    <3>2. \A d \in Calls : sender'[d] # "sent" <=> sender[d] # "sent"
      BY <1>0, <3>1
    <3> QED
      BY <3>1, <3>2, SameChannel DEF WInv, Waiting
  <2> QED
    BY <2>1, <2>2
<1>3. ASSUME RecvCall PROVE Stays
  <2>1. /\ callCh # <<>> /\ callCh' = Tail(callCh) /\ calls' = calls \cup {Head(callCh)}
        /\ UNCHANGED <<sender, batch>>
    BY <1>3 DEF RecvCall, loadVars, runnerVars
  <2> DEFINE c == Head(callCh)
  <2>2. \A i, j \in DOMAIN callCh : callCh[i] = callCh[j] => i = j
    BY DEF WInv, NoCopies
  <2>3. c \in Calls /\ InCh(c)
    BY <1>0, <2>1, <2>2, ReceivedCall DEF InCh
  <2>4. \A i \in DOMAIN callCh' : callCh'[i] # c
    BY <1>0, <2>1, <2>2, ReceivedCall
  <2>5. \A d \in Calls : InCh(d)' <=> InCh(d) /\ d # c
    <3>1. \A d : (\E i \in DOMAIN callCh : callCh[i] = d)
                   <=> d = c \/ \E i \in DOMAIN callCh' : callCh'[i] = d
      BY <1>0, <2>1, <2>2, ReceivedCall
    <3> QED
      BY <2>4, <3>1 DEF InCh
  <2>6. NoCopies'
    BY <1>0, <2>1, <2>2, ReceivedCall DEF NoCopies
  <2> HIDE DEF c
  <2>7. calls' = calls \cup {c}
    BY <2>1 DEF c
  <2> QED
    BY <2>1, <2>3, <2>5, <2>6, <2>7 DEF WInv, Waiting
<1>4. ASSUME PopCalls PROVE Stays
  <2>1. /\ UNCHANGED <<sender, callCh>> /\ batch' \subseteq calls
        /\ calls' = calls \ batch' /\ pc = "calls"
    BY <1>4 DEF PopCalls, workFrame, loadVars
  <2>2. batch = {}
    BY <2>1 DEF NoBatch
  <2> QED
    BY <2>1, <2>2, SameChannel DEF WInv, Waiting
<1>5. ASSUME NEW c \in Calls, RefuseCall(c) \/ AcceptCall(c)
      PROVE  /\ Shrinks /\ Waiting(c) /\ ~Waiting(c)'
             /\ \A d \in Calls : d # c /\ Waiting(d) => Waiting(d)'
  <2>1. UNCHANGED <<sender, callCh, calls>> /\ c \in batch /\ batch' = batch \ {c}
    BY <1>5 DEF RefuseCall, AcceptCall, workFrame, loadVars
  <2> QED
    BY <2>1, SameChannel DEF WInv, Waiting
<1>6. ASSUME Tick PROVE Shrinks /\ (Stays \/ CleanCalls)
  <2>1. CASE CleanCalls
    <3>1. UNCHANGED <<sender, callCh, batch>> /\ calls' \subseteq calls
      BY <2>1 DEF CleanCalls, goFrame, loadVars, runnerVars
    <3> QED
      BY <2>1, <3>1, SameChannel DEF WInv, Waiting
  <2>2. CASE DrainOutbound \/ TickUpdate \/ CleanOutbound \/ CleanTasks
    <3>1. UNCHANGED waitVars
      BY <2>2 DEF DrainOutbound, TickUpdate, CleanOutbound, CleanTasks, goFrame,
         loadVars, runnerVars, waitVars
    <3> QED
      BY <1>1, <3>1
  <2> QED
    BY <1>6, <2>1, <2>2 DEF Tick
<1>7. ASSUME TakeMs \/ EndCalls \/ AddTask \/ HandleTasks \/ NextMs \/ UNCHANGED nvars
      PROVE  Stays
  <2>1. UNCHANGED waitVars
    BY <1>7 DEF TakeMs, EndCalls, AddTask, workFrame, HandleTasks, PopTask, ParkTask,
       ConsumeWork, RejectTask, PassLimits, DelayTask, ConsumeQueuedMemory, RunClosure,
       SendRemote, ConsumeOutboundMemory, Reply, EndMs, taskFrame, closureFrame, NextMs,
       nvars, loadVars, runnerVars, waitVars
  <2> QED
    BY <1>1, <2>1
<1>8. Shrinks
  BY <1>2, <1>3, <1>4, <1>5, <1>6, <1>7 DEF NNext, RunnerMs, HandleCalls
<1>9. Stays \/ CleanCalls \/ \E c \in Calls : RefuseCall(c) \/ AcceptCall(c)
  BY <1>2, <1>3, <1>4, <1>6, <1>7 DEF NNext, RunnerMs, HandleCalls
<1> QED
  BY <1>5, <1>8, <1>9

-----------------------------------------------------------------------------
(* The tasks.                                                               *)

\* A call that is at work in the node no longer waits; no two tasks are for one
\* stage of one call, nor is one for a stage that has run, or that the runner
\* has in hand, or has not come to in adding the tasks of a call.
AtWork(c) == cur.call = c \/ \E t \in tasks : t.call = c

SameStage(t, u) == t.call = u.call /\ t.stage = u.stage

HandEmpty ==
  cur = Nothing <=> pc \in {"select", "calls", "handle", "tasks", "queuedMemory"}

OneTaskEach ==
  /\ \A t, u \in tasks : SameStage(t, u) => t = u
  /\ \A t \in tasks : <<t.call, t.stage>> \notin ran
  /\ pc \in {"park", "cpu", "limits", "delay", "fanout", "outboundMemory"} =>
       \A t \in tasks : ~SameStage(t, cur)
  /\ pc \in {"cpu", "limits", "delay"} => <<cur.call, cur.stage>> \notin ran
  /\ pc \in {"fanout", "outboundMemory"} => <<cur.call, cur.stage>> \in ran
  /\ pc = "add" => /\ \A t \in tasks : t.call = cur.call => t.stage < cur.stage
                   /\ \A s \in Stages : <<cur.call, s>> \notin ran

SInv ==
  /\ HandEmpty /\ OneTaskEach
  /\ \A c \in Calls : Waiting(c) => ~AtWork(c) /\ \A s \in Stages : <<c, s>> \notin ran

\* A step that adds no task, runs no closure and takes nothing in hand keeps
\* what SInv says of the calls that wait.
LEMMA TaskStep == NInv /\ NoBatch /\ WInv /\ SInv /\ [NNext]_nvars => SInv'
<1> SUFFICES ASSUME NInv, NoBatch, WInv, SInv, [NNext]_nvars PROVE SInv'
  OBVIOUS
<1>0. /\ tasks \subseteq Task /\ cur \in Task \cup {Nothing}
      /\ ran \subseteq Calls \X Stages /\ CurIsTask /\ PCOK
  BY DEF NInv, NTypeOK
<1>n. Nothing.call \notin Calls /\ Nothing \notin Task
  BY NoneAssumption DEF Nothing, Task
<1>t. \A t \in Task : t.call \in Calls /\ t.stage \in Stages
  BY DEF Task
<1>w. \A c \in Calls : Waiting(c)' => Waiting(c)
  BY WaitingStep
<1> DEFINE Fresh == \A c \in Calls :
             Waiting(c) => ~AtWork(c) /\ \A s \in Stages : <<c, s>> \notin ran
<1>1. ASSUME tasks' \subseteq tasks, cur' = cur \/ cur' = Nothing, ran' = ran PROVE Fresh'
  BY <1>n, <1>1, <1>w DEF SInv, AtWork
<1>2. ASSUME tasks' \subseteq tasks, UNCHANGED <<cur, pc, ran>> PROVE SInv'
  <2>1. HandEmpty' /\ OneTaskEach'
    BY <1>2 DEF SInv, HandEmpty, OneTaskEach, SameStage
  <2> QED
    BY <1>1, <1>2, <2>1 DEF SInv
<1>3. ASSUME UNCHANGED <<tasks, cur, ran>>,
             <<pc, pc'>> \in {<<"select", "calls">>, <<"calls", "handle">>,
                              <<"handle", "tasks">>, <<"cpu", "limits">>,
                              <<"limits", "delay">>, <<"queuedMemory", "tasks">>,
                              <<"fanout", "fanout">>, <<"fanout", "outboundMemory">>,
                              <<"outboundMemory", "fanout">>, <<"tasks", "select">>}
      PROVE  SInv'
  <2>1. HandEmpty' /\ OneTaskEach'
    BY <1>3 DEF SInv, HandEmpty, OneTaskEach, SameStage
  <2> QED
    BY <1>1, <1>3, <2>1 DEF SInv
<1>4. ASSUME cur' = Nothing, pc' = "tasks", UNCHANGED <<tasks, ran>> PROVE SInv'
  <2>1. HandEmpty' /\ OneTaskEach'
    BY <1>4 DEF SInv, HandEmpty, OneTaskEach, SameStage
  <2> QED
    BY <1>1, <1>4, <2>1 DEF SInv
<1>5. ASSUME NEW c \in Calls, Sender(c) PROVE SInv'
  BY <1>2, <1>5 DEF Sender, TryCheck, TryCharge, TryPush, senderFrame, runnerVars
<1>6. CASE RecvCall \/ Tick \/ UNCHANGED nvars
  BY <1>2, <1>6 DEF RecvCall, Tick, DrainOutbound, TickUpdate, CleanOutbound, CleanTasks,
     CleanCalls, goFrame, nvars, runnerVars
<1>7. CASE TakeMs \/ PopCalls \/ EndCalls
  BY <1>3, <1>7 DEF TakeMs, PopCalls, EndCalls
<1>8. ASSUME NEW c \in Calls, RefuseCall(c) PROVE SInv'
  BY <1>2, <1>8 DEF RefuseCall
<1>9. ASSUME NEW c \in Calls, AcceptCall(c) PROVE SInv'
  <2>1. CASE UNCHANGED <<pc, cur>>
    BY <1>2, <1>9, <2>1 DEF AcceptCall
  <2>2. CASE pc' = "add" /\ cur' = [call |-> c, stage |-> 1, wakeup |-> 0]
    <3>1. /\ Waiting(c) /\ ~Waiting(c)' /\ UNCHANGED <<tasks, ran>>
          /\ cur'.call = c /\ cur' # Nothing
      BY <1>9, <1>n, <2>2, WaitingStep DEF AcceptCall
    <3>2. (\A t \in tasks : t.call # c) /\ \A s \in Stages : <<c, s>> \notin ran
      BY <3>1 DEF SInv, AtWork
    <3>3. HandEmpty' /\ OneTaskEach'
      BY <2>2, <3>1, <3>2 DEF SInv, HandEmpty, OneTaskEach, SameStage
    <3>4. Fresh'
      BY <1>w, <3>1 DEF SInv, AtWork
    <3> QED
      BY <3>3, <3>4 DEF SInv
  <2> QED
    BY <1>9, <2>1, <2>2 DEF AcceptCall
<1>10. CASE AddTask
  <2>1. cur \in Task /\ ~Waiting(cur.call) /\ cur.call \in Calls /\ cur.stage \in Stages
    BY <1>0, <1>t, <1>10 DEF CurIsTask, AddTask, SInv, AtWork
  <2>2. PICK w \in LocalWork : tasks' = tasks \cup {[cur EXCEPT !.wakeup = w]}
    BY <1>10 DEF AddTask
  <2> DEFINE t == [cur EXCEPT !.wakeup = w]
  <2>3. t.call = cur.call /\ t.stage = cur.stage
    BY <2>1 DEF Task
  <2>4. /\ \A u \in tasks : u.call = cur.call => u.stage < cur.stage
        /\ \A s \in Stages : <<cur.call, s>> \notin ran
        /\ ran' = ran
    BY <1>10 DEF AddTask, SInv, OneTaskEach
  <2>5. \/ cur' = Nothing /\ pc' = "handle"
        \/ /\ cur'.call = cur.call /\ cur'.stage = cur.stage + 1
           /\ pc' = "add" /\ cur' # Nothing
    <3>1. CASE cur.stage < NumStages
      <4>1. cur' = [cur EXCEPT !.stage = @ + 1] /\ pc' = "add"
        BY <1>10, <3>1 DEF AddTask
      <4>2. cur'.call = cur.call /\ cur'.stage = cur.stage + 1
        BY <2>1, <4>1 DEF Task
      <4> QED
        BY <1>n, <2>1, <4>1, <4>2
    <3> QED
      BY <1>10, <3>1 DEF AddTask
  <2>6. cur.stage \in Nat /\ \A u \in tasks : u.stage \in Nat
    BY <1>0, <1>t, <2>1, NodeAssumption DEF Stages
  <2> HIDE DEF t
  <2>7. tasks' = tasks \cup {t}
    BY <2>2 DEF t
  <2>8. HandEmpty'
    BY <2>5 DEF HandEmpty
  <2>9. \A u, v \in tasks' : SameStage(u, v) => u = v
    BY <2>3, <2>4, <2>6, <2>7 DEF SInv, OneTaskEach, SameStage
  <2>10. \A u \in tasks' : <<u.call, u.stage>> \notin ran'
    BY <2>1, <2>3, <2>4, <2>7 DEF SInv, OneTaskEach
  <2>11. pc' = "add" => /\ \A u \in tasks' : u.call = cur'.call => u.stage < cur'.stage
                        /\ \A s \in Stages : <<cur'.call, s>> \notin ran'
    BY <2>3, <2>4, <2>5, <2>6, <2>7
  <2>12. OneTaskEach'
    BY <2>5, <2>9, <2>10, <2>11 DEF OneTaskEach, SameStage
  <2>13. Fresh'
    BY <1>w, <1>n, <2>1, <2>3, <2>4, <2>5, <2>7 DEF SInv, AtWork
  <2> QED
    BY <2>8, <2>12, <2>13 DEF SInv
<1>11. ASSUME NEW t \in tasks, PopTask(t) PROVE SInv'
  <2>1. /\ tasks' = tasks \ {t} /\ cur' = t /\ pc' \in {"park", "cpu"} /\ ran' = ran
        /\ t # Nothing
    BY <1>0, <1>n, <1>11 DEF PopTask
  <2>2. HandEmpty' /\ OneTaskEach'
    BY <2>1 DEF SInv, HandEmpty, OneTaskEach, SameStage
  <2>3. Fresh'
    BY <1>w, <2>1 DEF SInv, AtWork
  <2> QED
    BY <2>2, <2>3 DEF SInv
<1>12. CASE ParkTask \/ RejectTask \/ Reply
  BY <1>4, <1>12 DEF ParkTask, RejectTask, Reply
<1>13. CASE \/ ConsumeWork \/ PassLimits \/ ConsumeQueuedMemory \/ SendRemote
            \/ ConsumeOutboundMemory \/ EndMs
  BY <1>3, <1>13 DEF ConsumeWork, PassLimits, ConsumeQueuedMemory, SendRemote,
     ConsumeOutboundMemory, EndMs
<1>14. CASE DelayTask
  <2>1. cur \in Task /\ ~Waiting(cur.call) /\ cur.call \in Calls
    BY <1>0, <1>t, <1>14 DEF CurIsTask, DelayTask, SInv, AtWork
  <2> DEFINE t == [cur EXCEPT !.wakeup = @ + CPUDelay]
  <2>2. t.call = cur.call /\ t.stage = cur.stage
    BY <2>1 DEF Task
  <2> HIDE DEF t
  <2>3. /\ tasks' = tasks \cup {t} /\ pc' = "queuedMemory" /\ cur' = Nothing
        /\ ran' = ran /\ pc = "delay"
    BY <1>14 DEF DelayTask, t
  <2>4. HandEmpty' /\ OneTaskEach'
    BY <2>2, <2>3 DEF SInv, HandEmpty, OneTaskEach, SameStage
  <2>5. Fresh'
    BY <1>n, <1>w, <2>1, <2>2, <2>3 DEF SInv, AtWork
  <2> QED
    BY <2>4, <2>5 DEF SInv
<1>15. CASE RunClosure
  <2>1. cur \in Task /\ ~Waiting(cur.call) /\ cur.call \in Calls
    BY <1>0, <1>t, <1>15 DEF CurIsTask, RunClosure, SInv, AtWork
  <2>2. /\ ran' = ran \cup {<<cur.call, cur.stage>>} /\ pc = "delay" /\ pc' = "fanout"
        /\ UNCHANGED <<tasks, cur>>
    BY <1>15 DEF RunClosure
  <2>3. HandEmpty' /\ OneTaskEach'
    BY <2>2 DEF SInv, HandEmpty, OneTaskEach, SameStage
  <2>4. Fresh'
    BY <1>w, <2>1, <2>2 DEF SInv, AtWork
  <2> QED
    BY <2>3, <2>4 DEF SInv
<1>16. CASE NextMs
  <2>1. /\ tasks' = {[t EXCEPT !.wakeup = @ - MsUnits] : t \in tasks}
        /\ UNCHANGED <<cur, pc, ran>>
    BY <1>16 DEF NextMs
  <2>2. \A u \in tasks' : \E t \in tasks :
          SameStage(t, u) /\ u = [t EXCEPT !.wakeup = @ - MsUnits]
    BY <1>0, <2>1 DEF Task, SameStage
  <2>3. HandEmpty'
    BY <2>1 DEF SInv, HandEmpty
  <2>4. \A u, v \in tasks' : SameStage(u, v) => u = v
    BY <2>2 DEF SInv, OneTaskEach, SameStage
  <2>5. \A u \in tasks' : <<u.call, u.stage>> \notin ran'
    BY <2>1, <2>2 DEF SInv, OneTaskEach, SameStage
  <2>6. pc = "select"
    BY <1>16 DEF NextMs, TickComplete
  <2>7. OneTaskEach'
    BY <2>1, <2>4, <2>5, <2>6 DEF OneTaskEach, SameStage
  <2>8. Fresh'
    BY <1>w, <2>1, <2>2 DEF SInv, AtWork, SameStage
  <2> QED
    BY <2>3, <2>7, <2>8 DEF SInv
<1> QED
  BY <1>5, <1>6, <1>7, <1>8, <1>9, <1>10, <1>11, <1>12, <1>13, <1>14, <1>15, <1>16
     DEF NNext, RunnerMs, HandleCalls, HandleTasks

-----------------------------------------------------------------------------
(* The promise of module Service.                                           *)

InTasks(c, s) == \E t \in tasks : t.call = c /\ t.stage = s

Failing == isDown \/ pc = "park" \/ goPC \in {"cleanTasks", "cleanCalls"}

\* What is ahead of a call: all of it while it waits, and then what is in the
\* tasks or in the runner's hands.
LEMMA AheadIs ==
  \A c : /\ Ahead(c) \subseteq Stages
         /\ Waiting(c) => Ahead(c) = Stages
         /\ ~Waiting(c) => Ahead(c) = {s \in Stages : InHand(c, s) \/ InTasks(c, s)}
BY DEF Ahead, InTasks

\* A step that neither finishes a stage nor loses one leaves the promise alone.
LEMMA PromiseKept ==
  (\A c \in Calls : Ahead(c)' = Ahead(c)) /\ UNCHANGED <<ran, replies>>
    => UNCHANGED Promise!Promised
BY DEF Promise!Promised

\* Only a failing node loses stages.
LEMMA PromiseLost ==
  /\ Failing \/ Failing'
  /\ \A c \in Calls : Ahead(c)' \subseteq Ahead(c)
  /\ UNCHANGED <<ran, replies>>
  => Promise!Next
<1> SUFFICES ASSUME Failing \/ Failing', UNCHANGED <<ran, replies>>,
                    \A c \in Calls : Ahead(c)' \subseteq Ahead(c)
             PROVE  Promise!Lose
  BY DEF Promise!Next
<1>1. \A c \in Calls : Ahead(c)' \subseteq Stages
  BY AheadIs DEF Stages
<1> QED
  BY <1>1 DEF Promise!Lose, Promise!Stages, Stages, Failing

\* A step that moves no stage in or out of the tasks and the runner's hands, and
\* ends no wait, keeps what is ahead.
LEMMA AheadKept ==
  /\ \A c \in Calls : Waiting(c)' <=> Waiting(c)
  /\ \A c \in Calls, s \in Stages :
       InHand(c, s)' \/ InTasks(c, s)' <=> InHand(c, s) \/ InTasks(c, s)
  => \A c \in Calls : Ahead(c)' = Ahead(c)
BY DEF Ahead, InTasks, Stages

\* The same of a step that leaves the tasks and the task at hand as they are.
LEMMA NothingMoved ==
  /\ \A c \in Calls : Waiting(c)' <=> Waiting(c)
  /\ UNCHANGED <<tasks, cur>>
  /\ cur = Nothing \/ (pc' = "add" <=> pc = "add")
  => \A c \in Calls : Ahead(c)' = Ahead(c)
<1> SUFFICES ASSUME \A c \in Calls : Waiting(c)' <=> Waiting(c),
                    UNCHANGED <<tasks, cur>>,
                    cur = Nothing \/ (pc' = "add" <=> pc = "add")
             PROVE  \A c \in Calls : Ahead(c)' = Ahead(c)
  OBVIOUS
<1>1. \A c \in Calls : c # Nothing.call
  BY NoneAssumption DEF Nothing
<1>2. \A c \in Calls, s \in Stages :
        (InHand(c, s)' <=> InHand(c, s)) /\ (InTasks(c, s)' <=> InTasks(c, s))
  BY <1>1 DEF InHand, InTasks, Stages
<1> QED
  BY <1>2, AheadKept

\* A call's replies: one for each stage that is finished, at most, and no
\* success but for the last.
Rep(a, r) ==
  /\ Cardinality(a) + Len(r) <= NumStages
  /\ \A i \in DOMAIN r : r[i] = "ok" => NumStages \notin a
  /\ \A i, j \in DOMAIN r : r[i] = "ok" /\ r[j] = "ok" => i = j

RepInv == \A c \in Calls : Rep(Ahead(c), replies[c])

\* A stage is lost.
LEMMA FewerAhead ==
  ASSUME NEW a \in SUBSET Stages, NEW b \in SUBSET a, NEW r \in Seq({"ok", "error"}),
         Rep(a, r)
  PROVE  Rep(b, r)
<1>1. NumStages \in Nat /\ IsFiniteSet(Stages)
  BY NodeAssumption, FS_Interval DEF Stages
<1>2. IsFiniteSet(a) /\ IsFiniteSet(b) /\ Cardinality(b) <= Cardinality(a)
  BY <1>1, FS_Subset
<1>3. Cardinality(a) \in Nat /\ Cardinality(b) \in Nat /\ Len(r) \in Nat
  BY <1>2, FS_CardinalityType
<1> QED
  BY <1>1, <1>2, <1>3 DEF Rep

\* A stage is finished with a reply, a success only if it is the last.
LEMMA OneAnswered ==
  ASSUME NEW a \in SUBSET Stages, NEW s \in a, NEW r \in Seq({"ok", "error"}),
         NEW x \in {"ok", "error"}, x = "ok" => s = NumStages, Rep(a, r)
  PROVE  Rep(a \ {s}, Append(r, x))
<1>1. NumStages \in Nat /\ IsFiniteSet(Stages)
  BY NodeAssumption, FS_Interval DEF Stages
<1>2. IsFiniteSet(a)
  BY <1>1, FS_Subset
<1>3. Cardinality(a) \in Nat /\ Cardinality(a \ {s}) = Cardinality(a) - 1
  BY <1>2, FS_CardinalityType, FS_RemoveElement
<1>4. /\ Len(r) \in Nat /\ DOMAIN r = 1 .. Len(r) /\ Len(Append(r, x)) = Len(r) + 1
      /\ DOMAIN Append(r, x) = 1 .. Len(r) + 1
      /\ \A i \in 1 .. Len(r) : Append(r, x)[i] = r[i]
      /\ Append(r, x)[Len(r) + 1] = x
  OBVIOUS
<1>5. Cardinality(a \ {s}) + Len(Append(r, x)) <= NumStages
  BY <1>1, <1>3, <1>4 DEF Rep
<1>6. x = "ok" => \A i \in DOMAIN r : r[i] # "ok"
  BY DEF Rep
<1>7. \A i \in DOMAIN Append(r, x) : i \in DOMAIN r \/ i = Len(r) + 1
  BY <1>4
<1>8. \A i \in DOMAIN Append(r, x) : Append(r, x)[i] = "ok" => NumStages \notin a \ {s}
  BY <1>4, <1>7 DEF Rep
<1>9. \A i, j \in DOMAIN Append(r, x) :
        Append(r, x)[i] = "ok" /\ Append(r, x)[j] = "ok" => i = j
  BY <1>4, <1>6, <1>7 DEF Rep
<1> QED
  BY <1>5, <1>8, <1>9 DEF Rep

\* A call that waits has not been answered.
LEMMA WaitingIsUnanswered ==
  ASSUME NInv, RepInv, NEW c \in Calls, Waiting(c)
  PROVE  replies[c] = <<>>
<1>1. Ahead(c) = 1 .. NumStages /\ NumStages \in Nat
  BY AheadIs, NodeAssumption DEF Stages
<1>2. Cardinality(Ahead(c)) = NumStages
  BY <1>1, FS_Interval
<1>3. replies[c] \in Seq({"ok", "error"})
  BY DEF NInv, NTypeOK
<1>4. Len(replies[c]) = 0
  BY <1>1, <1>2, <1>3 DEF RepInv, Rep
<1> QED
  BY <1>3, <1>4

\* Each step of the node keeps the promise.
LEMMA PromiseStep ==
  NInv /\ NoBatch /\ WInv /\ SInv /\ RepInv /\ [NNext]_nvars
    => [Promise!Next]_(Promise!Promised)
<1> SUFFICES ASSUME NInv, NoBatch, WInv, SInv, RepInv, [NNext]_nvars
             PROVE  Promise!Next \/ UNCHANGED Promise!Promised
  OBVIOUS
<1>0. /\ tasks \subseteq Task /\ cur \in Task \cup {Nothing} /\ CurIsTask
      /\ replies \in [Calls -> Seq({"ok", "error"})] /\ HandEmpty
      /\ NumStages \in Nat \ {0} /\ Stages = 1 .. NumStages
  BY NodeAssumption DEF NInv, NTypeOK, SInv, Stages
<1>n. Nothing.call \notin Calls
  BY NoneAssumption DEF Nothing
<1>t. \A t \in Task : t.call \in Calls /\ t.stage \in Stages
  BY DEF Task
<1>w. \A c \in Calls :
        /\ Waiting(c)' => Waiting(c)
        /\ Waiting(c) => Waiting(c)' \/ RefuseCall(c) \/ AcceptCall(c) \/ CleanCalls
        /\ RefuseCall(c) \/ AcceptCall(c) => Waiting(c) /\ ~Waiting(c)'
  BY WaitingStep
<1> DEFINE Stay == \A c \in Calls : Waiting(c)' <=> Waiting(c)
           Held(c, s) == InHand(c, s) \/ InTasks(c, s)
           Goal == Promise!Next \/ UNCHANGED Promise!Promised
\* The runner has one stage in hand, which is nowhere else.
<1>h. ASSUME pc \in {"park", "cpu", "limits", "delay", "fanout", "outboundMemory"}
      PROVE  /\ cur \in Task /\ cur.call \in Calls /\ cur.stage \in Stages
             /\ ~Waiting(cur.call) /\ ~InTasks(cur.call, cur.stage)
             /\ \A c \in Calls, s \in Stages :
                  InHand(c, s) <=> c = cur.call /\ s = cur.stage
             /\ cur.stage \in Ahead(cur.call)
  <2>1. cur \in Task /\ cur.call \in Calls /\ cur.stage \in Stages
    BY <1>0, <1>h, <1>t DEF CurIsTask
  <2>2. ~Waiting(cur.call) /\ ~InTasks(cur.call, cur.stage)
    BY <1>h, <2>1 DEF SInv, AtWork, InTasks, OneTaskEach, SameStage
  <2>3. \A c \in Calls, s \in Stages : InHand(c, s) <=> c = cur.call /\ s = cur.stage
    BY <1>h DEF InHand
  <2> QED
    BY <2>1, <2>2, <2>3, AheadIs
\* A step that takes that stage out of hand, and moves nothing else.
<1>f. ASSUME pc \in {"park", "limits", "fanout"}, cur' = Nothing, UNCHANGED tasks, Stay,
             NEW c \in Calls
      PROVE  Ahead(c)' = IF c = cur.call THEN Ahead(c) \ {cur.stage} ELSE Ahead(c)
  <2>1. \A s \in Stages : ~InHand(c, s)' /\ (InTasks(c, s)' <=> InTasks(c, s))
    BY <1>f, <1>n DEF InHand, InTasks, Stages
  <2>2. /\ ~Waiting(cur.call) /\ ~InTasks(cur.call, cur.stage)
        /\ \A s \in Stages : InHand(c, s) <=> c = cur.call /\ s = cur.stage
    BY <1>f, <1>h
  <2>3. ~Waiting(c) => /\ Ahead(c) = {s \in Stages : InHand(c, s) \/ InTasks(c, s)}
                       /\ Ahead(c)' = {s \in Stages : InTasks(c, s)}
    BY <1>f, <2>1 DEF Ahead, InTasks, Stages
  <2>4. Waiting(c) => Ahead(c) = Stages /\ Ahead(c)' = Stages
    BY <1>f, AheadIs DEF Ahead, Stages
  <2> QED
    BY <2>2, <2>3, <2>4
<1>s. ASSUME UNCHANGED batch \/ pc # "handle", UNCHANGED goPC \/ goPC # "cleanCalls"
      PROVE  Stay
  <2>1. ~CleanCalls
    BY <1>s DEF CleanCalls
  <2>2. \A c \in Calls : ~RefuseCall(c) /\ ~AcceptCall(c)
    BY <1>s DEF RefuseCall, AcceptCall
  <2> QED
    BY <1>w, <2>1, <2>2
<1>1. ASSUME NEW c \in Calls, Sender(c) PROVE Goal
  <2>1. UNCHANGED <<tasks, cur, pc, batch, goPC, ran, replies>>
    BY <1>1 DEF Sender, TryCheck, TryCharge, TryPush, senderFrame, runnerVars
  <2> QED
    BY <1>s, <2>1, NothingMoved, PromiseKept
<1>2. CASE RecvCall \/ TakeMs \/ PopCalls \/ EndCalls \/ UNCHANGED nvars
  <2>1. /\ UNCHANGED <<tasks, cur, goPC, ran, replies>>
        /\ pc' = "add" <=> pc = "add"
        /\ UNCHANGED batch \/ pc # "handle"
    BY <1>2 DEF RecvCall, TakeMs, PopCalls, EndCalls, nvars, runnerVars, workFrame
  <2> QED
    BY <1>s, <2>1, NothingMoved, PromiseKept
<1>3. CASE \/ ConsumeWork \/ PassLimits \/ ConsumeQueuedMemory \/ SendRemote
           \/ ConsumeOutboundMemory \/ EndMs
  <2>1. /\ UNCHANGED <<tasks, cur, batch, goPC, ran, replies>>
        /\ pc' = "add" <=> pc = "add"
    BY <1>3 DEF ConsumeWork, PassLimits, ConsumeQueuedMemory, SendRemote,
       ConsumeOutboundMemory, EndMs, taskFrame, closureFrame, FanOutDone
  <2> QED
    BY <1>s, <2>1, NothingMoved, PromiseKept
<1>4. ASSUME NEW c \in Calls, RefuseCall(c) PROVE Goal
  <2>1. /\ UNCHANGED <<tasks, cur, pc, calls, goPC, ran>> /\ SendReply(c, "error")
        /\ pc = "handle"
    BY <1>4 DEF RefuseCall, workFrame
  <2>2. /\ Waiting(c) /\ ~Waiting(c)' /\ ~AtWork(c)
        /\ \A s \in Stages : <<c, s>> \notin ran
    BY <1>4, <1>w DEF SInv
  <2>3. Ahead(c) = Stages /\ Ahead(c)' = {} /\ replies[c] = <<>>
    <3>1. \A s \in Stages : ~InHand(c, s)' /\ ~InTasks(c, s)'
      BY <2>1, <2>2 DEF AtWork, InHand, InTasks, Stages
    <3> QED
      BY <2>2, <3>1, AheadIs, WaitingIsUnanswered DEF Ahead, InTasks, Stages
  <2>4. ASSUME NEW d \in Calls, d # c PROVE Ahead(d)' = Ahead(d)
    <3>1. Waiting(d)' <=> Waiting(d)
      <4>1. ~CleanCalls /\ ~RefuseCall(d) /\ ~AcceptCall(d)
        BY <1>4, <2>1, <2>4 DEF CleanCalls, RefuseCall, AcceptCall
      <4> QED
        BY <1>w, <4>1
    <3>2. \A s \in Stages : (InHand(d, s)' <=> InHand(d, s))
                            /\ (InTasks(d, s)' <=> InTasks(d, s))
      BY <2>1 DEF InHand, InTasks, Stages
    <3> QED
      BY <3>1, <3>2 DEF Ahead, InTasks, Stages
  <2>5. Promise!Refuse(c)
    BY <2>1, <2>2, <2>3, <2>4 DEF Promise!Refuse, Promise!Answer, Promise!Stages, Stages,
       SendReply
  <2> QED
    BY <2>5 DEF Promise!Next
<1>5. ASSUME NEW c \in Calls, AcceptCall(c) PROVE Goal
  <2>1. /\ UNCHANGED <<tasks, calls, goPC, ran, replies>> /\ pc = "handle"
        /\ cur = Nothing
    BY <1>0, <1>5 DEF AcceptCall, workFrame, HandEmpty
  <2>2. Waiting(c) /\ ~Waiting(c)' /\ ~AtWork(c) /\ Ahead(c) = Stages
    BY <1>5, <1>w, AheadIs DEF SInv
  <2>3. \A d \in Calls : d # c => (Waiting(d)' <=> Waiting(d))
    <3>1. ASSUME NEW d \in Calls, d # c
          PROVE  ~CleanCalls /\ ~RefuseCall(d) /\ ~AcceptCall(d)
      <4>1. batch' = batch \ {c} /\ c \in batch
        BY <1>5 DEF AcceptCall
      <4> QED
        BY <2>1, <3>1, <4>1 DEF CleanCalls, RefuseCall, AcceptCall
    <3> QED
      BY <1>w, <3>1
  <2>4. \A d \in Calls, s \in Stages : InTasks(d, s)' <=> InTasks(d, s)
    BY <2>1 DEF InTasks, Stages
  <2>5. CASE isDown'
    <3>1. UNCHANGED <<cur, pc>>
      BY <1>5, <2>5 DEF AcceptCall
    <3>2. \A d \in Calls : d # c => Ahead(d)' = Ahead(d)
      BY <1>n, <2>1, <2>3, <2>4, <3>1 DEF Ahead, InTasks, InHand, Stages
    <3>3. Ahead(c)' \subseteq Ahead(c)
      BY <2>2, AheadIs DEF Ahead, Stages
    <3> QED
      BY <2>1, <2>5, <3>2, <3>3, PromiseLost DEF Failing
  <2>6. CASE ~isDown'
    <3>1. pc' = "add" /\ cur' = [call |-> c, stage |-> 1, wakeup |-> 0]
      BY <1>5, <2>6 DEF AcceptCall
    <3>2. cur'.call = c /\ cur'.stage = 1
      BY <3>1
    <3>3. \A s \in Stages : s >= 1
      BY <1>0
    <3>4. \A s \in Stages : InHand(c, s)'
      BY <3>1, <3>2, <3>3 DEF InHand, Stages
    <3>5. Ahead(c)' = Stages
      BY <3>4 DEF Ahead, Stages
    <3>6. \A d \in Calls, s \in Stages : d # c => ~InHand(d, s)' /\ ~InHand(d, s)
      BY <1>n, <2>1, <3>2 DEF InHand, Stages
    <3>7. \A d \in Calls : d # c => Ahead(d)' = Ahead(d)
      BY <2>3, <2>4, <3>6 DEF Ahead, InTasks, Stages
    <3> QED
      BY <2>1, <2>2, <3>5, <3>7, PromiseKept
  <2> QED
    BY <2>5, <2>6
<1>6. CASE AddTask
  <2>1. /\ cur \in Task /\ cur.call \in Calls /\ cur.stage \in Stages
        /\ pc = "add" /\ UNCHANGED <<batch, goPC, ran, replies>>
    BY <1>0, <1>t, <1>6 DEF CurIsTask, AddTask, workFrame
  <2>2. Stay
    <3>1. ~CleanCalls /\ \A c \in Calls : ~RefuseCall(c) /\ ~AcceptCall(c)
      BY <1>6, <2>1 DEF CleanCalls, RefuseCall, AcceptCall, AddTask, workFrame
    <3> QED
      BY <1>w, <3>1
  <2>3. PICK w \in LocalWork : tasks' = tasks \cup {[cur EXCEPT !.wakeup = w]}
    BY <1>6 DEF AddTask
  <2> DEFINE t == [cur EXCEPT !.wakeup = w]
  <2>4. t.call = cur.call /\ t.stage = cur.stage
    BY <2>1 DEF Task
  <2> HIDE DEF t
  <2>5. tasks' = tasks \cup {t}
    BY <2>3 DEF t
  <2>6. \A c \in Calls, s \in Stages :
          InTasks(c, s)' <=> InTasks(c, s) \/ (c = cur.call /\ s = cur.stage)
    BY <2>4, <2>5 DEF InTasks, Stages
  <2>7. \A c \in Calls, s \in Stages : InHand(c, s) <=> c = cur.call /\ s >= cur.stage
    BY <2>1 DEF InHand
  <2>8. \A c \in Calls, s \in Stages :
          InHand(c, s)' <=> c = cur.call /\ s >= cur.stage + 1
    <3>1. CASE cur.stage < NumStages
      <4>1. cur' = [cur EXCEPT !.stage = @ + 1] /\ pc' = "add"
        BY <1>6, <3>1 DEF AddTask
      <4>2. cur'.call = cur.call /\ cur'.stage = cur.stage + 1
        BY <2>1, <4>1 DEF Task
      <4> QED
        BY <4>1, <4>2 DEF InHand, Stages
    <3>2. CASE ~(cur.stage < NumStages)
      <4>1. cur' = Nothing
        BY <1>6, <3>2 DEF AddTask
      <4>2. \A s \in Stages : ~(s >= cur.stage + 1)
        BY <1>0, <2>1, <3>2
      <4> QED
        BY <1>n, <4>1, <4>2 DEF InHand, Stages
    <3> QED
      BY <3>1, <3>2
  <2>9. \A s \in Stages : s >= cur.stage <=> s = cur.stage \/ s >= cur.stage + 1
    BY <1>0, <2>1
  <2>10. \A c \in Calls, s \in Stages : InHand(c, s)' \/ InTasks(c, s)' <=> Held(c, s)
    BY <2>6, <2>7, <2>8, <2>9
  <2> QED
    BY <2>1, <2>2, <2>10, AheadKept, PromiseKept
<1>7. ASSUME NEW t \in tasks, PopTask(t) PROVE Goal
  <2>1. /\ tasks' = tasks \ {t} /\ cur' = t /\ pc' \in {"park", "cpu"} /\ cur = Nothing
        /\ UNCHANGED <<batch, goPC, ran, replies>>
    BY <1>0, <1>7 DEF PopTask, taskFrame, closureFrame, HandEmpty
  <2>2. \A c \in Calls, s \in Stages :
          /\ ~InHand(c, s)
          /\ InHand(c, s)' <=> t.call = c /\ t.stage = s
    BY <1>n, <2>1 DEF InHand, Stages
  <2>3. \A c \in Calls, s \in Stages : InHand(c, s)' \/ InTasks(c, s)' <=> Held(c, s)
    BY <2>1, <2>2 DEF InTasks, Stages
  <2>4. Stay
    BY <1>s, <1>7, <2>1 DEF PopTask
  <2> QED
    BY <2>1, <2>3, <2>4, AheadKept, PromiseKept
<1>8. CASE ParkTask
  <2>1. /\ pc = "park" /\ cur' = Nothing
        /\ UNCHANGED <<tasks, batch, goPC, ran, replies>>
    BY <1>8 DEF ParkTask, taskFrame, closureFrame
  <2>2. Stay
    BY <1>s, <2>1
  <2>3. \A c \in Calls : Ahead(c)' \subseteq Ahead(c)
    BY <1>f, <2>1, <2>2
  <2> QED
    BY <2>1, <2>3, PromiseLost DEF Failing
<1>9. CASE RejectTask
  <2>1. /\ pc = "limits" /\ cur' = Nothing /\ SendReply(cur.call, "error")
        /\ UNCHANGED <<tasks, batch, goPC, ran>>
    BY <1>9 DEF RejectTask, taskFrame, closureFrame
  <2>2. Stay
    BY <1>s, <2>1
  <2>3. /\ cur.call \in Calls /\ cur.stage \in Stages
        /\ <<cur.call, cur.stage>> \notin ran /\ cur.stage \in Ahead(cur.call)
    BY <1>h, <2>1 DEF SInv, OneTaskEach
  <2>4. \A c \in Calls :
          Ahead(c)' = IF c = cur.call THEN Ahead(c) \ {cur.stage} ELSE Ahead(c)
    BY <1>f, <2>1, <2>2
  <2>5. Promise!Reject(cur.call, cur.stage)
    BY <2>1, <2>3, <2>4 DEF Promise!Reject, Promise!Answer, SendReply
  <2> QED
    BY <2>3, <2>5 DEF Promise!Next, Promise!Stages, Stages
<1>10. CASE DelayTask
  <2>1. /\ cur \in Task /\ cur.call \in Calls /\ pc = "delay"
        /\ UNCHANGED <<batch, goPC, ran, replies>> /\ cur' = Nothing
        /\ \A c \in Calls, s \in Stages :
             InHand(c, s) <=> c = cur.call /\ s = cur.stage
    BY <1>h, <1>10 DEF DelayTask, taskFrame, closureFrame
  <2> DEFINE t == [cur EXCEPT !.wakeup = @ + CPUDelay]
  <2>2. t.call = cur.call /\ t.stage = cur.stage
    BY <2>1 DEF Task
  <2> HIDE DEF t
  <2>3. tasks' = tasks \cup {t}
    BY <1>10 DEF DelayTask, t
  <2>4. \A c \in Calls, s \in Stages :
          /\ ~InHand(c, s)'
          /\ InTasks(c, s)' <=> InTasks(c, s) \/ (c = cur.call /\ s = cur.stage)
    BY <1>n, <2>1, <2>2, <2>3 DEF InHand, InTasks, Stages
  <2>5. Stay
    BY <1>s, <2>1
  <2> QED
    BY <2>1, <2>4, <2>5, AheadKept, PromiseKept
<1>11. CASE RunClosure
  <2>1. /\ pc = "delay" /\ pc' = "fanout"
        /\ ran' = ran \cup {<<cur.call, cur.stage>>}
        /\ UNCHANGED <<tasks, cur, batch, goPC, replies>>
    BY <1>11 DEF RunClosure, taskFrame, closureFrame
  <2>2. /\ cur.call \in Calls /\ cur.stage \in Stages
        /\ <<cur.call, cur.stage>> \notin ran /\ cur.stage \in Ahead(cur.call)
    BY <1>h, <2>1 DEF SInv, OneTaskEach
  <2>3. \A c \in Calls : Ahead(c)' = Ahead(c)
    BY <1>s, <2>1, NothingMoved
  <2>4. Promise!Run(cur.call, cur.stage)
    BY <2>1, <2>2, <2>3 DEF Promise!Run
  <2> QED
    BY <2>2, <2>4 DEF Promise!Next, Promise!Stages, Stages
<1>12. CASE Reply
  <2>1. /\ pc = "fanout" /\ cur' = Nothing /\ UNCHANGED <<tasks, batch, goPC, ran>>
    BY <1>12 DEF Reply, FanOutDone, closureFrame
  <2>2. Stay
    BY <1>s, <2>1
  <2>3. /\ cur.call \in Calls /\ cur.stage \in Stages
        /\ <<cur.call, cur.stage>> \in ran /\ cur.stage \in Ahead(cur.call)
    BY <1>h, <2>1 DEF SInv, OneTaskEach
  <2>4. \A c \in Calls :
          Ahead(c)' = IF c = cur.call THEN Ahead(c) \ {cur.stage} ELSE Ahead(c)
    BY <1>f, <2>1, <2>2
  <2>5. \/ cur.stage < NumStages /\ UNCHANGED replies
        \/ cur.stage = NumStages /\ SendReply(cur.call, "ok")
        \/ (\E a \in NetworkPerReply : ~NetworkAvailable(a)) /\ UNCHANGED replies
    <3>1. cur.stage < NumStages \/ cur.stage = NumStages
      BY <1>0, <2>3
    <3> QED
      BY <1>12, <3>1 DEF Reply
  <2>6. Promise!Finish(cur.call, cur.stage)
    BY <2>1, <2>3, <2>4, <2>5 DEF Promise!Finish, Promise!Answer, SendReply
  <2> QED
    BY <2>3, <2>6 DEF Promise!Next, Promise!Stages, Stages
<1>13. CASE DrainOutbound \/ TickUpdate \/ CleanOutbound
  <2>1. /\ UNCHANGED <<tasks, cur, pc, batch, ran, replies>> /\ goPC # "cleanCalls"
    BY <1>13 DEF DrainOutbound, TickUpdate, CleanOutbound, goFrame, runnerVars
  <2> QED
    BY <1>s, <2>1, NothingMoved, PromiseKept
<1>14. CASE CleanTasks \/ CleanCalls
  <2>1. /\ UNCHANGED <<cur, pc, ran, replies>> /\ tasks' \subseteq tasks /\ Failing
    BY <1>14 DEF CleanTasks, CleanCalls, goFrame, runnerVars, Failing
  <2>2. \A c \in Calls : Ahead(c)' \subseteq Ahead(c)
    <3>1. \A c \in Calls, s \in Stages :
            (InHand(c, s)' <=> InHand(c, s)) /\ (InTasks(c, s)' => InTasks(c, s))
      BY <2>1 DEF InHand, InTasks, Stages
    <3> QED
      BY <1>w, <3>1 DEF Ahead, InTasks, Stages
  <2> QED
    BY <2>1, <2>2, PromiseLost
<1>15. CASE NextMs
  <2>1. /\ tasks' = {[t EXCEPT !.wakeup = @ - MsUnits] : t \in tasks}
        /\ UNCHANGED <<cur, pc, batch, ran, replies>> /\ goPC = "done"
    BY <1>15 DEF NextMs, TickComplete
  <2> DEFINE moved(t) == [t EXCEPT !.wakeup = @ - MsUnits]
  <2>2. \A t \in tasks : moved(t).call = t.call /\ moved(t).stage = t.stage
    BY <1>0 DEF Task
  <2> HIDE DEF moved
  <2>3. tasks' = {moved(t) : t \in tasks}
    BY <2>1 DEF moved
  <2>4. \A c, s : InTasks(c, s)' <=> InTasks(c, s)
    BY <2>2, <2>3 DEF InTasks
  <2>5. \A c \in Calls, s \in Stages :
          (InHand(c, s)' <=> InHand(c, s)) /\ (InTasks(c, s)' <=> InTasks(c, s))
    BY <2>1, <2>4 DEF InHand, Stages
  <2>6. Stay
    BY <1>s, <2>1
  <2> QED
    BY <2>1, <2>5, <2>6, AheadKept, PromiseKept
<1>16. HandleCalls => Goal
  BY <1>2, <1>4, <1>5, <1>6 DEF HandleCalls
<1>17. HandleTasks => Goal
  BY <1>3, <1>7, <1>8, <1>9, <1>10, <1>11, <1>12 DEF HandleTasks
<1>18. Tick => Goal
  BY <1>13, <1>14 DEF Tick
<1>19. (\E c \in Calls : Sender(c)) => Goal
  BY <1>1
<1>20. RecvCall \/ TakeMs \/ NextMs \/ UNCHANGED nvars => Goal
  BY <1>2, <1>15
<1> HIDE DEF Goal
<1>21. Goal
  BY <1>16, <1>17, <1>18, <1>19, <1>20 DEF NNext, RunnerMs
<1> QED
  BY <1>21 DEF Goal

\* Whatever keeps the promise keeps RepInv.
LEMMA RepliesStep ==
  NInv /\ RepInv /\ [Promise!Next]_(Promise!Promised) => RepInv'
<1> SUFFICES ASSUME NInv, RepInv, Promise!Next \/ UNCHANGED Promise!Promised
             PROVE  RepInv'
  OBVIOUS
<1> DEFINE A == [c \in Calls |-> Ahead(c)]
           B == [c \in Calls |-> Ahead(c)']
<1>0. /\ \A c \in Calls : A[c] = Ahead(c) /\ B[c] = Ahead(c)' /\ A[c] \subseteq Stages
      /\ replies \in [Calls -> Seq({"ok", "error"})]
      /\ NumStages \in Nat \ {0} /\ 1 \in Stages /\ Promise!Stages = Stages
  BY AheadIs, NodeAssumption DEF NInv, NTypeOK, Promise!Stages, Stages
<1>1. \A c \in Calls : Rep(A[c], replies[c])
  BY <1>0 DEF RepInv
<1>2. (\A c \in Calls : Rep(B[c], replies'[c])) => RepInv'
  BY <1>0 DEF RepInv, Rep
<1>3. CASE UNCHANGED Promise!Promised
  <2>1. B = A /\ replies' = replies
    BY <1>3 DEF Promise!Promised
  <2> QED
    BY <1>1, <1>2, <2>1
<1>4. ASSUME NEW c \in Calls, Promise!Refuse(c) PROVE RepInv'
  <2>1. /\ A[c] = Stages /\ replies[c] = <<>> /\ B = [A EXCEPT ![c] = {}]
        /\ replies' = [replies EXCEPT ![c] = Append(@, "error")]
    BY <1>0, <1>4 DEF Promise!Refuse, Promise!Answer
  <2> HIDE DEF A, B
  <2>2. Rep(Stages \ {1}, Append(replies[c], "error"))
    BY <1>0, <1>1, <2>1, OneAnswered
  <2>3. Append(replies[c], "error") \in Seq({"ok", "error"})
    BY <1>0
  <2>4. Rep({}, Append(replies[c], "error"))
    BY <2>2, <2>3, FewerAhead
  <2> QED
    BY <1>0, <1>1, <1>2, <2>1, <2>4 DEF A
<1>5. ASSUME NEW c \in Calls, NEW s \in Stages, Promise!Run(c, s) PROVE RepInv'
  <2>1. B = A /\ replies' = replies
    BY <1>5 DEF Promise!Run
  <2> QED
    BY <1>1, <1>2, <2>1
<1>6. ASSUME NEW c \in Calls, NEW s \in Stages,
             Promise!Reject(c, s) \/ Promise!Finish(c, s)
      PROVE  RepInv'
  <2>1. /\ s \in A[c] /\ B = [A EXCEPT ![c] = @ \ {s}]
        /\ \/ replies' = replies
           \/ \E x \in {"ok", "error"} :
                /\ x = "ok" => s = NumStages
                /\ replies' = [replies EXCEPT ![c] = Append(@, x)]
    BY <1>6 DEF Promise!Reject, Promise!Finish, Promise!Answer
  <2>2. DOMAIN A = Calls
    OBVIOUS
  <2> HIDE DEF A, B
  <2>3. CASE replies' = replies
    <3>1. Rep(A[c] \ {s}, replies[c])
      BY <1>0, <1>1, FewerAhead
    <3> QED
      BY <1>1, <1>2, <2>1, <2>2, <2>3, <3>1
  <2>4. ASSUME NEW x \in {"ok", "error"}, x = "ok" => s = NumStages,
               replies' = [replies EXCEPT ![c] = Append(@, x)]
        PROVE  RepInv'
    <3>1. Rep(A[c] \ {s}, Append(replies[c], x))
      BY <1>0, <1>1, <2>1, <2>4, OneAnswered
    <3> QED
      BY <1>0, <1>1, <1>2, <2>1, <2>2, <2>4, <3>1
  <2> QED
    BY <2>1, <2>3, <2>4
<1>7. CASE Promise!Lose
  <2>1. /\ B \in [Calls -> SUBSET Stages] /\ replies' = replies
        /\ \A c \in Calls : B[c] \subseteq A[c]
    BY <1>0, <1>7 DEF Promise!Lose
  <2> HIDE DEF A, B
  <2>2. \A c \in Calls : Rep(B[c], replies[c])
    BY <1>0, <1>1, <2>1, FewerAhead
  <2> QED
    BY <1>2, <2>1, <2>2
<1> QED
  BY <1>0, <1>3, <1>4, <1>5, <1>6, <1>7 DEF Promise!Next

-----------------------------------------------------------------------------
(* A node that does not fail.                                               *)

NeverFails == MemoryLimit = Full /\ NetworkPerReply \subseteq {0}

\* Nothing is set aside or cleaned up.
CalmInv == pc # "park" /\ goPC \notin {"cleanOutbound", "cleanTasks", "cleanCalls"}

\* The last stage is there until the call is answered.
AnswerInv == \A c \in Calls : NumStages \in Ahead(c) \/ replies[c] # <<>>

\* Its memory is not exhausted and its network has room for every reply.
LEMMA NeverDown ==
  ASSUME NeverFails, NInv PROVE ~isDown /\ \A a \in NetworkPerReply : NetworkAvailable(a)
<1>1. /\ memory \in 0 .. Full /\ Full \in Nat
      /\ isDown <=> memory > MemoryLimit
      /\ network \in Nat /\ NetworkLimit \in Nat /\ network <= NetworkLimit
  BY ResourceAssumption DEF NInv, NTypeOK, RTypeOK, RInv, DownIffMemoryExhausted,
     NetworkWithinLimit
<1>2. ~isDown
  BY <1>1 DEF NeverFails
<1>3. \A a \in NetworkPerReply : network + a <= NetworkLimit
  BY <1>1 DEF NeverFails
<1> QED
  BY <1>2, <1>3 DEF NetworkAvailable

\* So it has nothing to recover from.
LEMMA CalmStep ==
  ASSUME NeverFails PROVE NInv /\ CalmInv /\ [NNext]_nvars => CalmInv'
<1> SUFFICES ASSUME NInv, CalmInv, [NNext]_nvars PROVE CalmInv'
  OBVIOUS
<1>0. ~isDown
  BY NeverDown
<1>1. ASSUME NEW c \in Calls, Sender(c) PROVE CalmInv'
  BY <1>1 DEF CalmInv, Sender, TryCheck, TryCharge, TryPush, senderFrame, runnerVars
<1>2. CASE RecvCall \/ TakeMs \/ NextMs \/ UNCHANGED nvars
  BY <1>2 DEF CalmInv, RecvCall, TakeMs, NextMs, nvars, runnerVars
<1>3. CASE HandleCalls
  BY <1>3 DEF CalmInv, HandleCalls, PopCalls, EndCalls, AddTask, RefuseCall, AcceptCall,
     workFrame
<1>4. CASE HandleTasks
  BY <1>0, <1>4 DEF CalmInv, HandleTasks, PopTask, ParkTask, ConsumeWork, RejectTask,
     PassLimits, DelayTask, ConsumeQueuedMemory, RunClosure, SendRemote,
     ConsumeOutboundMemory, Reply, EndMs, taskFrame, closureFrame
<1>5. CASE Tick
  BY <1>0, <1>5 DEF CalmInv, Tick, DrainOutbound, TickUpdate, Recovering, CleanOutbound,
     CleanTasks, CleanCalls, goFrame, runnerVars
<1> QED
  BY <1>1, <1>2, <1>3, <1>4, <1>5 DEF NNext, RunnerMs

\* A node that neither fails nor lacks network keeps the promise with an answer.
LEMMA AnswerStep ==
  ASSUME NeverFails
  PROVE  /\ NInv /\ NInv' /\ CalmInv /\ CalmInv' /\ AnswerInv
         /\ [Promise!Next]_(Promise!Promised)
         => AnswerInv'
<1> SUFFICES ASSUME NInv, NInv', CalmInv, CalmInv', AnswerInv,
                    Promise!Next \/ UNCHANGED Promise!Promised
             PROVE  AnswerInv'
  OBVIOUS
<1> DEFINE A == [c \in Calls |-> Ahead(c)]
           B == [c \in Calls |-> Ahead(c)']
<1>0. /\ \A c \in Calls : A[c] = Ahead(c) /\ B[c] = Ahead(c)' /\ A[c] \subseteq Stages
      /\ replies \in [Calls -> Seq({"ok", "error"})] /\ DOMAIN A = Calls
      /\ NumStages \in Nat \ {0} /\ Promise!Stages = Stages
  BY AheadIs, NodeAssumption DEF NInv, NTypeOK, Promise!Stages, Stages
<1>1. \A c \in Calls : NumStages \in A[c] \/ replies[c] # <<>>
  BY <1>0 DEF AnswerInv
<1>2. (\A c \in Calls : NumStages \in B[c] \/ replies'[c] # <<>>) => AnswerInv'
  BY <1>0 DEF AnswerInv
<1>3. CASE UNCHANGED Promise!Promised
  <2>1. B = A /\ replies' = replies
    BY <1>3 DEF Promise!Promised
  <2> QED
    BY <1>1, <1>2, <2>1
<1>a. ASSUME NEW c \in Calls, NEW x \in {"ok", "error"},
             replies' = [replies EXCEPT ![c] = Append(@, x)],
             \A d \in Calls : d # c => B[d] = A[d]
      PROVE  AnswerInv'
  <2>1. replies'[c] # <<>> /\ \A d \in Calls : d # c => replies'[d] = replies[d]
    BY <1>0, <1>a
  <2> QED
    BY <1>1, <1>2, <1>a, <2>1
<1>4. ASSUME NEW c \in Calls, Promise!Refuse(c) PROVE AnswerInv'
  <2>1. /\ B = [A EXCEPT ![c] = {}]
        /\ replies' = [replies EXCEPT ![c] = Append(@, "error")]
    BY <1>4 DEF Promise!Refuse, Promise!Answer
  <2> QED
    BY <1>0, <1>a, <2>1
<1>5. ASSUME NEW c \in Calls, NEW s \in Stages, Promise!Run(c, s) PROVE AnswerInv'
  <2>1. B = A /\ replies' = replies
    BY <1>5 DEF Promise!Run
  <2> QED
    BY <1>1, <1>2, <2>1
<1>6. ASSUME NEW c \in Calls, NEW s \in Stages,
             Promise!Reject(c, s) \/ Promise!Finish(c, s)
      PROVE  AnswerInv'
  <2>1. \A a \in NetworkPerReply : NetworkAvailable(a)
    BY NeverDown
  <2>2. /\ B = [A EXCEPT ![c] = @ \ {s}]
        /\ \/ s < NumStages /\ replies' = replies
           \/ \E x \in {"ok", "error"} : replies' = [replies EXCEPT ![c] = Append(@, x)]
    BY <1>6, <2>1 DEF Promise!Reject, Promise!Finish, Promise!Answer
  <2> HIDE DEF A, B
  <2>3. \A d \in Calls : B[d] = IF d = c THEN A[c] \ {s} ELSE A[d]
    BY <1>0, <2>2
  <2>4. CASE s < NumStages /\ replies' = replies
    BY <1>0, <1>1, <1>2, <2>3, <2>4
  <2>5. ASSUME NEW x \in {"ok", "error"}, replies' = [replies EXCEPT ![c] = Append(@, x)]
        PROVE  AnswerInv'
    BY <1>a, <2>3, <2>5
  <2> QED
    BY <2>2, <2>4, <2>5
<1>7. ~Promise!Lose
  <2>1. ~isDown /\ ~isDown'
    <3>1. ~isDown
      BY NeverDown
    <3>2. /\ memory' \in 0 .. Full /\ Full \in Nat
          /\ isDown' <=> memory' > MemoryLimit
      BY ResourceAssumption DEF NInv, NTypeOK, RTypeOK, RInv, DownIffMemoryExhausted
    <3>3. ~isDown'
      BY <3>2 DEF NeverFails
    <3> QED
      BY <3>1, <3>3
  <2> QED
    BY <2>1 DEF Promise!Lose, CalmInv
<1> QED
  BY <1>0, <1>3, <1>4, <1>5, <1>6, <1>7 DEF Promise!Next

-----------------------------------------------------------------------------
(* The end of a millisecond.                                                *)

\* The runner is back at its select only when no task is due.
DInv == pc = "select" /\ ~msPending => \A t \in tasks : ~Ready(t)

\* The runner returns to its select with nothing due.
LEMMA DueStep == DInv /\ [NNext]_nvars => DInv'
<1> SUFFICES ASSUME DInv, [NNext]_nvars PROVE DInv'
  OBVIOUS
<1>1. ASSUME NEW c \in Calls, Sender(c) PROVE DInv'
  BY <1>1 DEF DInv, Ready, Sender, TryCheck, TryCharge, TryPush, senderFrame, runnerVars
<1>2. CASE RecvCall \/ TakeMs \/ UNCHANGED nvars
  BY <1>2 DEF DInv, Ready, RecvCall, TakeMs, nvars, runnerVars
<1>3. CASE HandleCalls
  <2>1. pc' # "select"
    BY <1>3 DEF HandleCalls, PopCalls, EndCalls, AddTask, RefuseCall, AcceptCall
  <2> QED
    BY <2>1 DEF DInv
<1>4. CASE HandleTasks
  <2>1. EndMs \/ pc' # "select"
    BY <1>4 DEF HandleTasks, PopTask, ParkTask, ConsumeWork, RejectTask, PassLimits,
       DelayTask, ConsumeQueuedMemory, RunClosure, SendRemote, ConsumeOutboundMemory,
       Reply
  <2> QED
    BY <2>1 DEF DInv, EndMs, Ready
<1>5. CASE Tick
  BY <1>5 DEF DInv, Ready, Tick, DrainOutbound, TickUpdate, CleanOutbound, CleanTasks,
     CleanCalls, goFrame, runnerVars
<1>6. CASE NextMs
  BY <1>6 DEF DInv, NextMs
<1> QED
  BY <1>1, <1>2, <1>3, <1>4, <1>5, <1>6 DEF NNext, RunnerMs

-----------------------------------------------------------------------------
(* The theorems.                                                            *)

CallInv == NInv /\ NoBatch /\ WInv /\ SInv /\ RepInv /\ DInv

\* Initially each call is at its sender.
LEMMA InitCallInv == NInit => CallInv
<1> SUFFICES ASSUME NInit PROVE CallInv
  OBVIOUS
<1>1. /\ callCh = <<>> /\ calls = {} /\ batch = {} /\ tasks = {} /\ cur = Nothing
      /\ pc = "select" /\ ran = {}
      /\ \A c \in Calls : sender[c] = "new" /\ replies[c] = <<>>
  BY DEF NInit
<1>2. DOMAIN callCh = {} /\ Len(<<>>) = 0
  BY <1>1
<1>3. WInv
  BY <1>1, <1>2 DEF WInv, NoCopies, InCh
<1>4. SInv
  BY <1>1, NoneAssumption DEF SInv, HandEmpty, OneTaskEach, AtWork, Nothing
<1>5. NoBatch /\ DInv
  BY <1>1 DEF NoBatch, DInv
<1>6. \A c \in Calls : Ahead(c) = Stages
  BY <1>1, AheadIs DEF Waiting
<1>7. NumStages \in Nat /\ Cardinality(Stages) = NumStages
  BY NodeAssumption, FS_Interval DEF Stages
<1>8. RepInv
  <2>1. Rep(Stages, <<>>)
    BY <1>2, <1>7 DEF Rep
  <2> QED
    BY <1>1, <1>6, <2>1 DEF RepInv
<1> QED
  BY <1>3, <1>4, <1>5, <1>8, InitNInv DEF CallInv

\* Every step keeps all of it.
LEMMA CallStep == CallInv /\ [NNext]_nvars => CallInv'
BY NextNInv, BatchStep, WaitingStep, TaskStep, PromiseStep, RepliesStep, DueStep
   DEF CallInv

\* The invariant of the calls holds throughout every behaviour of the node.
THEOREM CallInvariance == NSafety => []CallInv
BY InitCallInv, CallStep, PTL DEF NSafety

\* For any number of calls, stages and senders a call is in one place at a time,
\* and in none before its sender's push went through.
THEOREM CallIsInOnePlace == NSafety => []CallInOnePlace
<1>1. ASSUME CallInv, NEW c \in Calls
      PROVE  IF sender[c] = "sent" THEN Cardinality(Holders(c)) <= 1 ELSE Holders(c) = {}
  <2>1. \A x \in Holders(c) : \/ x = "callCh" /\ InCh(c)
                              \/ x = "calls" /\ c \in calls
                              \/ x = "batch" /\ c \in batch
                              \/ x = "tasks" /\ AtWork(c)
    BY DEF Holders, InCh, AtWork
  <2>2. Waiting(c) => ~AtWork(c)
    BY <1>1 DEF CallInv, SInv
  <2>3. /\ sender[c] # "sent" => ~InCh(c) /\ c \notin calls /\ c \notin batch
        /\ InCh(c) => c \notin calls /\ c \notin batch
        /\ c \in calls => c \notin batch
    BY <1>1 DEF CallInv, WInv
  <2>4. \A x, y \in Holders(c) : x = y
    BY <2>1, <2>2, <2>3 DEF Waiting
  <2>5. sender[c] # "sent" => Holders(c) = {}
    BY <2>1, <2>2, <2>3 DEF Waiting
  <2>6. CASE Holders(c) = {}
    BY <2>6, FS_EmptySet
  <2>7. CASE Holders(c) # {}
    <3>1. PICK x \in Holders(c) : Holders(c) = {x}
      BY <2>4, <2>7
    <3> QED
      BY <2>5, <3>1, FS_Singleton
  <2> QED
    BY <2>6, <2>7
<1>2. CallInv => CallInOnePlace
  BY <1>1 DEF CallInOnePlace
<1> QED
  BY <1>2, CallInvariance, PTL

\* The closure of a stage runs once at most: no task is ever there, in the heap
\* or in the runner's hands, whose stage has run.
THEOREM StagesRunOnce == NSafety => []StageRunsOnce
<1>1. CallInv => StageRunsOnce
  BY DEF CallInv, SInv, OneTaskEach, StageRunsOnce
<1> QED
  BY <1>1, CallInvariance, PTL

\* A node keeps the promise of module Service, for any number of calls and
\* stages: a stage is run once, rejected or lost in a failure, and only then is
\* it no longer ahead; the last one answers the call.
THEOREM NodeImplementsService == NSafety => ImplementsService
<1>1. NInit => Promise!Init
  <2> SUFFICES ASSUME NInit PROVE Promise!Init
    OBVIOUS
  <2>1. ran = {} /\ replies = [c \in Calls |-> <<>>] /\ \A c \in Calls : Waiting(c)
    BY DEF NInit, Waiting
  <2>2. \A c \in Calls : Ahead(c) = Promise!Stages
    BY <2>1, AheadIs DEF Stages, Promise!Stages
  <2> QED
    BY <2>1, <2>2 DEF Promise!Init
<1>2. CallInv /\ [NNext]_nvars => [Promise!Next]_(Promise!Promised)
  BY PromiseStep DEF CallInv
<1> QED
  BY <1>1, <1>2, CallInvariance, PTL DEF NSafety, ImplementsService, Promise!Spec

\* A call of any number of stages gets at most one reply for each, and one
\* success at most.
THEOREM RepliesPerStage == NSafety => []OneReplyPerStage
<1>1. ASSUME CallInv, NEW c \in Calls PROVE Len(replies[c]) <= NumStages
  <2>1. IsFiniteSet(Ahead(c)) /\ NumStages \in Nat
    <3>1. IsFiniteSet(Stages) /\ NumStages \in Nat
      BY FS_Interval, NodeAssumption DEF Stages
    <3> QED
      BY <3>1, AheadIs, FS_Subset
  <2>2. Cardinality(Ahead(c)) \in Nat /\ Len(replies[c]) \in Nat
    BY <1>1, <2>1, FS_CardinalityType DEF CallInv, NInv, NTypeOK
  <2> QED
    BY <1>1, <2>1, <2>2 DEF CallInv, RepInv, Rep
<1>2. CallInv => OneReplyPerStage
  BY <1>1 DEF CallInv, RepInv, Rep, OneReplyPerStage
<1> QED
  BY <1>2, CallInvariance, PTL

\* A node that cannot fail, and whose replies are free, is never done with a call
\* that it has not answered.
THEOREM NodeAnswersWhatItFinishes ==
  ASSUME NeverFails PROVE NSafety => []DoneIsAnswered
<1> DEFINE I == CallInv /\ CalmInv /\ AnswerInv
<1>0. NumStages \in Stages
  BY NodeAssumption DEF Stages
<1>1. NInit => I
  <2> SUFFICES ASSUME NInit PROVE I
    OBVIOUS
  <2>1. CalmInv /\ \A c \in Calls : Waiting(c)
    BY DEF NInit, CalmInv, Waiting
  <2>2. AnswerInv
    BY <1>0, <2>1, AheadIs DEF AnswerInv
  <2> QED
    BY <2>1, <2>2, InitCallInv
<1>2. I /\ [NNext]_nvars => I'
  <2> SUFFICES ASSUME I, [NNext]_nvars PROVE I'
    OBVIOUS
  <2>1. CallInv' /\ NInv /\ NInv'
    BY CallStep, NextNInv DEF CallInv
  <2>2. CalmInv'
    BY <2>1, CalmStep
  <2>3. [Promise!Next]_(Promise!Promised)
    BY PromiseStep DEF CallInv
  <2> QED
    BY <2>1, <2>2, <2>3, AnswerStep
<1>3. I => DoneIsAnswered
  BY DEF AnswerInv, DoneIsAnswered
<1> HIDE DEF I
<1> QED
  BY <1>1, <1>2, <1>3, PTL DEF NSafety

\* A millisecond that is over leaves no task due.
THEOREM TicksLeaveNothingDue == NSafety => []NothingDueAtTickEnd
<1>1. ASSUME CallInv, TickComplete, NEW t \in tasks PROVE t.wakeup >= MsUnits
  <2>1. ~Ready(t)
    BY <1>1 DEF CallInv, DInv, TickComplete
  <2>2. t.wakeup \in Int /\ MsUnits \in Int
    BY <1>1, NodeAssumption DEF CallInv, NInv, NTypeOK, Task
  <2> QED
    BY <2>1, <2>2 DEF Ready
<1>2. CallInv => NothingDueAtTickEnd
  BY <1>1 DEF NothingDueAtTickEnd
<1> QED
  BY <1>2, CallInvariance, PTL
=============================================================================
