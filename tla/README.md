# A formal model of go-sim

go-sim is a Go library that simulates a distributed system: sources generate
calls, load balancers spread them over pools of app nodes, app nodes do local
work, call other services and reply. Simulated time passes in whole
milliseconds, but every node is a real goroutine with real channels and
mutexes, so what a run does depends on how goroutines interleave. This
directory holds TLA+ models of that code, TLC configurations that check them
on small instances, and TLAPS proofs of the properties that matter most for
every instance.

Contents: 1 the system, 2 the modules, 3 the runs, 4 the proofs, 5 where code
and comments disagree, 6 observations, 7 what is not modelled, 8 the plan.

## 1. The system

### Components

**Main loop and barrier** (`loop.go`, `broadcaster.go`, `node.run`,
`node.runner`). State: the clock `Loop.time`, the lists of sources, LBs and
nodes, the broadcaster's subscribers, one `sync.WaitGroup` for each
millisecond, every node's `msCh` and `done` channels. Operations: `Run`,
`IncrementTime`, `Subscribe`, `Broadcast`, and a runner's two reactions, to a
millisecond and to `done`. Hard: one tick goroutine for each source and node
and one runner for each of them work concurrently inside a millisecond; the
broadcast does not block and drops whoever is behind. Correct means: no work
happens outside of its millisecond, nobody misses a millisecond, the WaitGroup
is never negative, the run ends.

**Node resources** (`resources.go`). State: utilisation of CPU, memory and
network, `isDown`, `downUntil`, `pendingWork`, all under `resources.mu`.
Operations: consuming each resource, the out-of-memory kill at the end of every
consumption, the update of each millisecond (recovery, decay). Correct means:
limits hold, a node is down exactly while its memory is exhausted, an outage is
neither shortened nor put off, and ends.

**App node** (`node.go`, `task.go`, `app.go`). State: `callCh`, the heaps
`calls` and `tasks`, `outboundQueue`, `pendingCallMap`, the resources, and
where its goroutines are. Operations: `tryAcceptCall` (run by the sender),
`addCall`, `handleCalls`/`handleCall`, `handleTasks`/`HandleTask`/
`handleTaskCPU` (run by its runner), `drainOutbound`, `updateResources`,
`fullOOMCleanup` (run by its tick goroutine). Hard: three kinds of goroutine
share the node and hold a lock only for a step; a kill, the recovery and the
cleanup of the queues fall anywhere between the steps of the others. Correct
means: a call is in one place, each stage runs at most once, every
sent call leaves the node, nothing is due any more when a millisecond ends.

**Outbound queue, retry and timeout** (`outbound.go`, `retry.go`,
`call.go`, `drainOutbound` and `processOutboundCall` in `node.go`). State: the
queue of undelivered calls with their retry state. Operations: queueing after a
refused delivery, and each millisecond backoff, timeout, delivery, exhaustion.
Hard: the runner queues calls while the tick goroutine works on the queue it
has taken over, and an outage ends with a queue that is forgotten. Correct
means: each call has one outcome (delivered, answered with a 503, or lost in a
restart), and has it soon after its timeout.

**Calls, replies, load balancer** (`call.go`, `reply.go`, `lb.go`,
`initCallMap`). State: the global request number, `pendingCallMap`, `replyCh`,
the LB's round robin. Operations: sending a call, forwarding it, matching a
reply to its pending call, forwarding the reply under the caller's request
number. Hard: the reply loops are outside of the barrier; a lookup and the deletion of
its entry are two critical sections; a reply travels under two request numbers;
a reply loop waits on the channel of another. Correct means: a reply completes
only the call it answers, completes it once, and does complete it.

**Priority queue** (`pqueue.go`): a heap of items with their index, under
`container/heap`. Correct means: it always hands out an item of least priority,
and every item knows its position, which `update` relies on.

**Sources** (`source.go`): `nextEvent` and the catch-up loop over the events
that are due. Correct means: every event is generated in the first millisecond that
starts after it. **Distributions** (`distributions.go`): pure functions.
**Initialisation and goroutine ids** (`sim.go`, `goid.go`): loggers,
constants. **Connection** (`connection.go`): commented out. **Sample program**
(`cmd/sample/main.go`): a configuration of the library.

### How they interact

`Run` starts, in each millisecond, a tick goroutine for every source
(`NextMillisecond`, which may send calls) and for every node
(`nextMillisecond`, which drains its outbound queue and updates its resources),
broadcasts the millisecond's WaitGroup to every runner over `msCh`, and waits. A
sender runs `tryAcceptCall` of the callee in its own goroutine and pushes the
call on the callee's `callCh`; the callee's runner moves it to the heap `calls`,
and in a later millisecond turns it into one task for each stage. The task of a
stage sends the stage's remote calls to load balancers, in the same way; the
task of the last stage sends a reply on the caller's `replyCh`. The reply loop
of the caller looks the call up and runs its callback, which on a load balancer
passes the reply on.

Load balancers and sources have no resources (`n.resources == nil`): they never
go down and always have network. Only app nodes are subject to module Resources.

## 2. The modules

| module | what it is |
|---|---|
| `Lockstep` | abstract: time advances only when every worker has finished the millisecond, each exactly once |
| `TickLoop` | the main loop, the broadcaster and the runners' side of the barrier |
| `MCTickLoop` | one source, one load balancer, two app nodes |
| `TickLoopProofs` | the barrier's invariants, and that it implements `Lockstep` |
| `Resources` | the bookkeeping of one node's resources, one action for each critical section of `resources.mu` |
| `ResourcesProofs` | its invariants and the sealed outage |
| `Service` | abstract: what becomes of each stage of a call, and of the replies; only a failure loses one |
| `Node` | one app node: senders, runner, tick goroutine; EXTENDS `Resources` and implements `RSpec` and `Service` |
| `MCNode` | two calls; three configurations |
| `NodeProofs` | types, `WorkOnlyWhenUp`, and that `Node` implements `Resources`, with what this entails |
| `NodeCallsProofs` | what becomes of a node's calls and tasks, and that `Node` implements `Service` |
| `NodeClaims`, `MCNodeClaims` | what three comments of the code claim, as properties TLC refutes |
| `Delivery` | abstract: every remote call has one outcome, only a restart of the sender loses one |
| `Outbound` | `sendCall`, the outbound queue, its drain with retries and timeouts; implements `Delivery` |
| `MCOutbound` | two calls, one with the default policy and one with its own |
| `OutboundProofs` | one outcome, punctuality, and that `Outbound` implements `Delivery` |
| `RoundTrip` | abstract: what a client may rely on for each of its requests |
| `CallReply` | calls through a load balancer and their replies: request numbers, pending-call maps, reply loops, round robin; implements `RoundTrip` |
| `CallReplyProofs` | the matching of replies to calls, round trips, answers on their way, and the round robin |
| `Source` | a source's event times and catch-up loop |
| `Traffic` | `CallReply` and `Source` composed: the calls of a source |
| `MCTraffic` | a source, an app node, a balancer with two instances |
| `TrafficProofs` | that `Traffic` implements `CallReply`, and `EventsOnTime` |
| `MinQueue` | abstract: a bag that hands out a least item |
| `PQueue` | the heap, a swap at a time; implements `MinQueue` |
| `MCPQueue` | six items, three priorities |
| `PQueueProofs` | heap order, indices, and that `PQueue` implements `MinQueue` |

`Node`, `Outbound` and `CallReply` look at the same goroutines from three sides.
A call that `Node`'s senders push is one that `Outbound` or `CallReply` delivers;
whether it is accepted depends on the callee, so `Outbound` and `CallReply` leave
it open. The reply that `Node` sends is `CallReply`'s `Answer`, which happens at
most `MaxReplies` times, because `Node` sends several to a call of several
stages, and maybe none. The calls `Node` leaves in `outbound`, and those its drain
takes out, are decided by `Outbound`, and the outcome is the `Carry` of
`CallReply`. `Node`'s heaps are sets of which a least element is taken, which is
what `MinQueue` says and `PQueue` implements.

### TickLoop and the code

A `WaitGroup` is declared in each iteration of `Run`; the model names it by its
millisecond, so `wg[t]` is its counter and a Done for an old millisecond would be
seen. `AlreadyRun` are the app nodes, which `makeApp` runs (and so subscribes) as it builds
them; `StartNode` is what `Run` does for the others. `Spawn` is the `wg.Add(1)` and `go` statement, `FinishTick` the goroutine's
end with its deferred Done. `Notify` is one round of `Broadcast`'s loop,
including the default branch that drops the subscriber. `TakeMs` and `EndMs` are
the two ends of the runner's millisecond; what it does in between is module
`Node`. `SignalDone` sends on `done` for `loop.nodes` only: sources are not in
that list. The order within `loop.sources`, `loop.nodes` and the subscribers is
left open, which allows more than the code does. `Returned` stutters: `Run` is
over and the sources' runners and all reply loops wait for ever.

### Resources and the code

A utilisation is a float64 between 0.0 and 1.0 in the code. In the model it is
a natural number of equal parts, `Full` of which make 1.0. Nothing in the code
depends on the resolution, except rounding, which is not modelled. A cost is
drawn from a distribution in the code and is any member of a set of costs here;
the sets stand for the supports of the distributions. `downUntil` is stored as
what is left of it (`downLeft`), which is lowered by `PassMs`. A variable
`status` stands for the flag `isDown`. The three consumptions are one function
in the code, and so share `OOMCheck`, which is part of each of them; that a
consumption of CPU or network never kills is proved, not assumed.

### Node and the code

An action is one critical section or channel operation, with the goroutine-local
steps around it. For senders:
`TryCheck` (reads `isDown`), `TryCharge` (network), `TryPush` (callCh). For the
runner: `RecvCall`, then within a millisecond `PopCalls`, `RefuseCall` or
`AcceptCall`, `AddTask` for each stage, `EndCalls`, and for each due task
`PopTask`, `ParkTask`, `ConsumeWork`, `RejectTask`, `PassLimits`, `DelayTask` with
`ConsumeQueuedMemory`, `RunClosure` and for each remote call `SendRemote` and
`ConsumeOutboundMemory`, `Reply`, and `EndMs` at the end. For the tick goroutine: `DrainOutbound`, `TickUpdate`,
`CleanOutbound`, `CleanTasks`, `CleanCalls`. `NextMs` is the barrier of `TickLoop`
as this node sees it: its runner, its tick goroutine and its senders are done.

Abstractions, all of them deliberate:

- Times are relative to the clock. A call's `Wakeup` counts in milliseconds (it
  is always a whole number plus the constant delay of 5.0); a task's wakeup is in
  `Units`, `MsUnits` of which make a millisecond, because `addTask` orders tasks
  by `int(wakeup)` and a CPU delay is a fraction of a millisecond.
- The heaps are sets. `IsNext` is any task of least truncated wakeup, since
  `container/heap` does not say which of equals comes first.
- A read of `isDown` and the runner's next step are one action. Only the runner
  consumes memory of its node, so while it works "up" stays true; this is the
  invariant `WorkOnlyWhenUp`. The exception is in the model: a remote call that is
  queued charges memory and may kill the node, and the closure goes on. The opposite
  direction (down, then up by the tick goroutine) is modelled: `PopTask` and
  `ParkTask` are two steps.
- The order within a batch of calls is left open.
- A remote call is left out by the filter or delivered (nothing changes in this
  node), or put on the outbound queue.
- What `drainOutbound` does with each queued call is left open: delivered, given
  up, or kept. A delivery under way is not in the queue; that is the code's local
  `queue`, and the one step hides it.
- `pendingCallMap` and the reply loop are in module `CallReply`. On an app node
  the callback of a reply only logs.
- A sender may try a refused call again any number of times, or never.

### Outbound and the code

The runner's actions are `BeginClosure` (or a balancer's forwarding), `SendCall`,
`QueueOutbound` and `ChargeQueued`; those of the tick goroutine are `TakeQueue`, then
for each call exactly one of `KeepForBackoff`, `TimeOut`, `Deliver`, `GiveUp` and
`Retry`, which are the returns of `processOutboundCall` in their order, then
`Return`, `Update` and `Clean`. `batch` and `remaining` are `drainOutbound`'s local
slices. Queues are sets: the handling of one call does not look at another.
`age` is `now - queuedAt`, `wait` is what is left of `nextRetryAt`, rounded up,
since only `now < nextRetryAt` is asked and `now` is whole. `Jitter` is in
hundredths, `BackoffFactor` an integer. Other memory consumption of the node is
`OtherWorkKills`; the recovery is left to happen in any later millisecond.

### CallReply, Source, Traffic and the code

A request is two calls, from the client to the balancer and from the balancer to
an instance; `id` and `stage` are indexed by hop. `Register` is `sendCall` as far as
the entry in the map, `Push` its `tryAcceptCall`; the map lock and the channel
operations are the boundaries of the actions. `pending` is a set of pairs, and
`AddEntry` replaces an entry of the same number, as a Go map does. `Lookup`, `Delete`
and the callback are three steps of a reply loop, the map can be replaced
(`Clean`) or grow between them. A reply carries the request it is for in a field
`call`, as in the code, and nothing but `RightReply` and the forwarding of the same
field reads it. `callNumber` starts at 0, not at 22222; an app node's `MakeCall`
takes a number and `sendCall` takes another: the first is never used and left out.
`Drains` says that a source never runs `drainOutbound`.

`Source` keeps `nextEvent` relative to the clock, in units finer than a
millisecond. `StartMs` and `EndMs` are the call and the return of
`NextMillisecond`, and the clock moves on with `EndMs`. In `Traffic`, `Generate` of
the source registers a request (or is for a balancer that is not modelled) and
`Sent` pushes it.

### PQueue and the code

`Less`, `Swap`, `Push`, `Pop` and `update` are the code's; `Up`, `Down`, `Fixed` and
the first step of `heap.Pop` are `container/heap`'s, from how the code uses it: one
action for each comparison and swap. Positions count from 1. Priorities of items
that are not queued stay as they are. The panics on a nil receiver cannot happen.

Definitions marked *mutant* are plausible bugs in the definition after them. No
action of the system uses them; they are there to show that each property can
be violated by a mistake in the code.

## 3. The runs

| run | instance | shows | distinct states |
|---|---|---|---|
| `tick_loop` | 1 source, 1 LB, 2 app nodes, 3 ms, channel capacity 2 | the barrier is a `Lockstep` (with its progress), nothing is dropped, nothing outlives its millisecond, the run ends with every node's runner stopped | 12 thousand |
| `node` | 2 calls of 2 stages, the last with 2 remote calls, callCh of 1 | resource limits hold, a node is down exactly while its memory is exhausted and its outages are sealed, whatever senders, runner and tick goroutine do; each step is a step of `Resources` and of `Service`; never more replies than stages | 768 thousand |
| `node_live` | 2 calls of 1 stage with a remote call, fairness | an outage ends, a sent call leaves the node | 89 thousand |
| `node_answers` | 2 calls of 2 stages, memory limit at 1.0, free replies, fairness | the node is never done with a call it has not answered, and every sent call is answered | 314 thousand |
| `outbound` | 2 remote calls, default policy scaled down, and a quick one; timeout 6 ms; a sender that can be killed; fairness | one outcome each, decided by the timeout and one delay; no retry where the first delay exceeds the timeout; implements `Delivery` | 191 thousand |
| `traffic` | a request of a source and one of an app node, 2 instances, `replyCh` of 1, up to 2 replies for a call; fairness of the reply loops | a callback runs once, for its own call and after a decision about it, and runs; an answer to the source is always on its way; the pool is balanced; events are on time | 146 thousand |
| `pqueue` | up to 6 items, 3 priorities, symmetric | the array is a heap with true indices; implements `MinQueue` | 84 thousand |
| `claim_no_work_survives`, `claim_atomic_admission`, `claim_pending_work` | 2 calls of 1 stage | three claims of comments are refuted, section 5 | |
| `claim_down_sends` | as `outbound` | a fourth | |
| `claim_queued_retried` | as `traffic`, with fairness of the source and of the drains | a fifth | |

### Bounds and why they are enough

- `tick_loop`: three milliseconds are one more than the two slots of `msCh` and
  `done`, so a runner that fell behind would be dropped by `Broadcast`: the
  mutant that does not wait violates `NoDrop` within the bound. Two app nodes, a
  load balancer and a source are one of each role and two that compete. The
  clock is bounded by the code itself (`Length`).
- `node*`: two calls let one fill `callCh` (capacity 1) while the other is
  refused, and let one be handled while the other arrives; memory for two calls
  (2 + 2 of a limit of 3) kills the node, for one it does not, and a delay adds
  to it (in `node_live` by 1 only, so that a task can be delayed more than once
  and be rejected in the end); CPU for two tasks exceeds `CPULimit`, for three it reaches
  `CPURejectLimit`; a third cost of 2 is cut off at 1.0 (5 parts); the network (limit 4,
  costs of 2) is filled exactly by two messages and refuses a third, and in `node` it
  decays by 3, so that the decay is cut off at 0 as well; local work of 1 or 4 half
  milliseconds is due in this or a later millisecond; a CPU delay of one unit stays within the millisecond or
  leaves it; an outage of 2 ms outlasts one update and ends at the next. The
  state space is finite without further bounds: times are relative and each
  call is sent once.
- `node_answers` needs a memory limit that cannot be exceeded and free
  replies, since the code loses calls otherwise (section 6). CPU delays and
  rejections, full channels and refusals by the network still happen.

- `outbound`: the code's default is a first delay of 160 to 240 ms against a
  timeout of 90 ms; 8 ms less or more a fifth against 6 ms keep the proportion,
  and the other policy (delays of 2 ms) retries, exhausts its two retries, or
  times out between them. Two calls are what it takes for one to be queued while
  the other is in `batch` or `remaining`. Times are bounded by the timeout and
  the delays: that is `LeavesByTimeout`.
- `traffic`: with a channel of one slot every send on it can find it full; two
  replies for each call bring duplicates to the balancer and, by way of a client
  whose map was emptied, to the client; two requests by two clients compete for
  request numbers and instances. A gap of 1 unit makes several events due in one
  millisecond, one of 4 skips a millisecond.
- `pqueue`: six items make three levels, so a sift swaps twice and a node has one
  child or two; three priorities make ties and strict order.

### Fairness and why the code justifies it

- Weak fairness of each goroutine's steps: the Go scheduler runs every goroutine
  that can run, and no step modelled here can be disabled by others between the
  moments it waits, other than in the cases below.
- Strong fairness of `RecvCall`: the runner's `select` chooses uniformly among
  the ready channels. `callCh` is ready again and again, between milliseconds
  that make it unready while the runner is at work; a choice that passes it over
  for ever has probability zero.
- Strong fairness of `NextMs`: a sender in the middle of `tryAcceptCall` holds up
  the barrier. The model lets senders try again without limit within a
  millisecond; in the code `sendCall` and one `drainOutbound` are all there is,
  so the barrier is reached.
- In `Outbound`, weak fairness of the runner, of the tick goroutine and of the
  loop. They never wait for each other inside a millisecond.
- In `Traffic`, weak fairness of each reply loop and nothing else: a call may stay
  in a queue, at an instance or at its sender for ever. A loop that waits for a
  full channel is not enabled; that it gets on is what `AnsweredIsFinished` shows.
- `TDrainSpec`, which only `claim_queued_retried` uses, adds weak fairness of the
  source's steps (the loop goes on) and of `Carry` (whoever runs `drainOutbound` does so
  in each millisecond, and a call does not stay in its queue beyond its timeout and one
  delay, `LeavesByTimeout`). The counterexample is no stopped system: the source's
  milliseconds go by, its balancer's queue gets emptied, and its own call is still there.
- None for a refused sender's next try, or for the choice of costs and durations.
- The liveness runs look at a loop that goes on; in the code it ends at
  `Length`, with whatever is then still queued.

## 4. The proofs

tlapm checks everything below for every value of the constants that satisfies
the ASSUMEs of the modules: finitely many members, a source is not a node, natural
numbers where the code has counts, limits between 0 and 1.0, a balancer that is no
client, `"none"` not being a call. `BackoffAssumption` of `Outbound` says that a power
of natural numbers is one, since the provers know no exponentiation; TLC evaluates
it.

**TickLoopProofs.** None of the barrier's properties is inductive alone: that
the main goroutine sees zero says something about the runners only if the counter
says how many of them there are. The inductive invariant `Inv` is built around
`WorkIsCounted`: in each millisecond the counter of the WaitGroup is the number of
tick goroutines still running plus the number of members that hold the WaitGroup
or have it in their `msCh`. With it, `wg[time] = 0` means that nothing is running
or owing, which is what `WaitAndAdvance` needs; the rest follows by conjuncts:
`TypeCorrect`, `BroadcastNeverDrops`, `WorkStaysInItsMs`, `WaitGroupNeverNegative`,
`RunnersStopClean`. `TickLoopImplementsLockstep` maps every step to `Finish`,
`Advance` or a stutter of `Lockstep` (safety; its progress is checked by TLC).

**ResourcesProofs.** `RInv` is the type invariant with the two state properties;
`DownIffMemoryExhausted` is inductive because only a consumption while up
raises memory, its check is in the same critical section, and recovery resets
memory in the same one. `OutagesAreSealed` is the action property from `RInv`.

**NodeProofs.** The refinement is the core: each step of `Node` is a step of
`RNext` or leaves `rvars` alone (`NodeImplementsResources`), so the theorems of
`ResourcesProofs` hold of a node in any interleaving
(`NodeDownExactlyWhenExhausted`, `NodeNetworkWithinLimit` and `NodeOutagesAreSealed`
carry them over). `NInv` adds where the runner is and what it has in hand
(`CurIsTask`, `PCOK`) to the types and to
`WorkOnlyWhenUp`; the lemma `OnlyMemoryKills` says that CPU and network
consumptions and updates never take a node down, which is why senders and the
tick goroutine cannot disturb `WorkOnlyWhenUp`. It needs
`DownIffMemoryExhausted` to be true before the step.

**NodeCallsProofs.** A call waits (at its sender, in `callCh`, `calls` or `batch`),
then is at work (a task, or in the runner's hands), then neither, and it never
goes back; the cleanup only takes away. `WInv` says that it waits in one place
(the channel holds no call twice), `SInv` that there is one task for each stage
and none that has run, that the runner's task is not in the heap as well, and that
none of a waiting call's stages exists or has run; `NoBatch` that the batch is empty
outside of `handleCalls`; `DInv` that the runner is back at its select only when
nothing is due. From these: `CallIsInOnePlace`,
`TicksLeaveNothingDue`, and `StagesRunOnce` (no run states the latter: on small instances
it is part of `ImplementsService`, whose stages run once).

`NodeImplementsService` is what they come to. `Service` keeps for each call the set of
stages *ahead*: in `Node` these are all stages while the call waits, those the runner
has not added yet, the one in its hand, and those with a task (`Ahead`). The maps and heaps
change in many small steps, and the proof shows that each of them leaves `Ahead`
alone or takes the one stage away whose fate is decided, with the one reply that
`Service` allows; the kill, the set-aside and the cleanup are its `Lose`, permitted only
while the node is down or recovering, and a success is missing only when the network was
saturated. `SInv` is needed for "one": two tasks of a stage would be one stage ahead,
and finishing either would not take it away. `RepliesPerStage` is then an invariant of the
abstract promise (`RepInv`: the stages ahead and the replies given are never more than
`NumStages`, and after a success the last stage is not ahead), carried to `Node` by the
refinement. `NodeAnswersWhatItFinishes` assumes `NeverFails`, which is about the constants
(a memory limit of 1.0, free replies): such a node is never down (`NeverDown`), is never
in the recovery (`CalmInv`), hence never loses a stage, and the last stage leaves only
with a reply. With these, every invariant of the node's runs is proved.

**OutboundProofs.** `OInv` is built around the four places of a held call (in the
runner's hand, `queue`, `batch`, `remaining`), which exclude each other and the calls
still to be sent. `OneOutcome` follows, and `OutboundImplementsDelivery`: each step
changes the outcome of one call as `Delivery` says, and only `Clean` those of several.
Punctuality (`NoCallOutstays`) needs to know where in the millisecond a call is:
`TInv` bounds a call's age plus what is left of its backoff (`Punctual`), more
loosely before the drain has looked at it than after. `TimeoutBeatsRetry` uses that a
call whose first retry is scheduled is older than its timeout when the retry is due
(`NoSecondTry`).

**CallReplyProofs.** The invariant `CRInv` is about request numbers: a number that
has been given out belongs to one hop of one request (`UniqueIDs`), and every entry
of a map, every reply in a channel and every reply in a reply loop's hand bears the
number of its own request at the node it is at (`Named`). So a reply can only meet
its own entry (`RepliesMatch`). That a callback runs once (`CallbackRunsOnce`) needs
`Once`: from the deletion that precedes the callback on, the client has no entry of
the request any more, and a finished request is not in the loop's hand. It works
because a client has one reply loop: two could both find the entry before either
deletes it. `CallReplyImplementsRoundTrip` needs that wherever a trace of a request is
(a reply in a channel, an entry in a loop's hand, a callback that has run), something was
decided about that request (`Caused`); with `CallbackRunsOnce` each step is then one of
`RoundTrip`. `NoAnswerIsLost` is the other direction: the invariant `Trails` says that a
request of a source leaves a trail with no gap, from the entry at the balancer, which goes
only when its callback is to run, to the reply at the caller, the loop that has it in
hand, the source's entry and the end. It is false for app nodes, whose map is replaced after
an outage, and true however many duplicates there are, because a duplicate that is
dropped is dropped for want of the entry, that is, when its twin is further along the
trail. `RoundRobin`: after `lastSent` calls each instance has its share
(`Share`), which is `lastSent` divided by the size of the pool, or one more.

**TrafficProofs.** Each step of the composition is a step of `CallReply` or leaves it
alone, so the safety theorems carry over (`TrafficIsSafe`, `TrafficMakesRoundTrips`,
`TrafficLosesNoAnswer`).
`SourceOnTime`: between milliseconds the next event is never further back than one
millisecond.

**PQueueProofs.** In the middle of a sift one position is out of order: the
invariant says that the heap order holds everywhere else, and between that
position's parent and its children (the hole is bridged), which is what lets a swap
move the hole. That the first item is then a least one would be an induction on
positions, which the provers cannot do; it is proved by descent: were there
positions whose item is less than the first, there would be a least one, and its
parent is another. `PQueueImplementsMinQueue` maps the appending step of a push, the
assignment of an update and the last step of a pop to the operations of `MinQueue`,
and swaps to stutters.

Only model-checked: all liveness (`Terminates`, `DownEventuallyUp`,
`SentEventuallyLeaves`, `SentIsAnswered`, `QueuedIsDecided`, `AnsweredIsFinished`,
the fairness part of `ImplementsLockstep`), which the prover cannot do. Every
safety property that a passing run checks is proved.

## 5. Where code and comments disagree

Five runs state what a comment says, and TLC finds a behaviour of the code that
breaks it.

- `NoWorkSurvivesOOM` (`resources.go:212`: "OOM kill = container death, no work
  survives."). `updateResources` clears `isDown` first and empties the queues
  afterwards, outside of the lock. The runner may be in `handleTasks` in the same
  millisecond: it sees a node that is up, pops a task from before the kill, runs
  it and sends a success.
- `AdmittedOnlyWhenUp` (`node.go:120`: "tryAcceptCall atomically checks callee
  network capacity and isDown."). The three steps hold no common lock. The runner
  may kill the node in between, and the call is pushed to a node that is down.
- `PendingWorkIsProcessed` (`task.go:76`: "Queue task for later processing").
  `pendingWork` is written and cleared and never read.
- `DownNodeSendsNothing` (`resources.go:171`: "While the node is down, no new work
  is processed from queues."). `nextMillisecond` drains the outbound queue whatever
  the state of the node: calls made before the kill are delivered during the outage.
- `QueuedIsRetried` (`call.go:48`: "On failure to deliver, the call is queued at the
  sender for retry."). Only `nextMillisecond` of a node runs `drainOutbound`; the tick
  goroutine of a source runs the source's `NextMillisecond` instead, so a call that a
  balancer with a full `callCh` refuses stays in the source's queue: no retry, no timeout,
  no error reply.

## 6. Observations

Met while modelling; none is refuted by a run.

- `fullOOMCleanup`'s comment says that it drains callCh and replyCh; its body
  explains why it does not.
- A call whose memory kills the node is dropped without the 503 that it would
  get a moment later; a task that is set aside, and a reply for which there is no
  network, are lost as well. The caller's pending entry then stays.
- With several stages, a 503 for one stage does not stop the others: the caller
  may get several 503s and a success, but never more replies than stages
  (`OneReplyPerStage`); the caller's callback takes the first.
- A full `callCh` refuses a call whose network was already charged, and the charge is not
  given back. No property speaks of it: it decays, and nothing promises otherwise.
- A node is up again before `fullOOMCleanup` has emptied its heaps: a call that is accepted
  in between is wiped without an answer. `Service` calls this a loss in a failure;
  `ImplementsService` shows that it ends with the recovery.
- Calls are due when `Wakeup < now`, tasks when `int(wakeup) <= now`.
- A CPU delay below a millisecond leaves the task due: `handleTasks` takes it up
  again at once, charging CPU again, until it is rejected or a millisecond's
  worth of delay has added up, or the tick goroutine's decay lets it pass.
- The closure of a stage goes on after one of its queued calls has killed the node,
  and the task's reply is tried: it fails, as a node that is down has no network.
- Nothing reads the per-call cost functions of `Call`.
- `RemoteCall.Retry` governs only the hop to a load balancer, which is refused only
  when its channel is full; the hop from the balancer to the app node, the one
  with resources, always has the default policy and a timeout of 90 ms, while
  the first retry comes after about 200 ms.
- `Less`'s comment says highest priority first; the code gives the lowest, which
  is what its users need.
- Jitter is applied after the cap: a delay may exceed `MaxDelay`.
- The first call that a balancer forwards goes to instance 1; instances that are
  down get their turn like the others.
- An error reply to a call that the balancer has queued leaves by the balancer's own
  `replyCh`: its tick goroutine and the instances share that channel, and a full
  one makes the barrier wait for the reply loop.
- `update` of an item that was popped (index -1) changes the item and no queue.
- Items of equal priority do not come out in the order they went in.
- `lambda` is used as a rate per millisecond, and `eventsPerMs` counts the drawing of
  the first event as an event.
- `NormalCDF`, `LogNormalCDF` and `ParetoCDF` return distribution functions, where
  `UniformCDF` and the users of a `ModelCdf` mean quantiles: a cost drawn from one of
  the three is a probability.
- The runners of sources never get `done`.

## 7. What is not modelled, and why

Distributions: four pure functions on floats, three of which only call a library; the
models let a cost or a duration be any member of a set. Loggers, goroutine ids,
counters, historical data and the getters of `resources.go`: reporting.
Floating-point rounding: utilisations are parts of 1.0, event times and delays are
in units. The sample program is a configuration of the library and pprof.
`Connection` has no code. The `time.After` branches of the runner and the reply loops
only log.

One composition is left out: several `Node`s with their balancers and queues in one
module. The parts meet as section 2 says; together, the smallest instance where
anything new can happen (two nodes with resources, a balancer, three calls) is out
of TLC's reach.

## 8. The plan

Done in this order, the barrier first because everything else relies on it:
`Lockstep`, `TickLoop` and its proofs; `Resources` and its proofs; `Node`, its
refinement of `Resources` and its proofs; `NodeClaims`; the closures of `Node`;
`Delivery` and `Outbound`; `CallReply`, `Source` and `Traffic`; `MinQueue` and
`PQueue`; each with its proofs; `NodeCallsProofs`; then the abstract specifications
`Service` and `RoundTrip` with their refinements, and the answers that are on their way.

What would come next: the drain of `Node` as a step-wise `Outbound`, with `Node`'s
`outbound` as its queue, so that the two need not be matched by hand; and the
same for `Node`'s heaps and `MinQueue`.
