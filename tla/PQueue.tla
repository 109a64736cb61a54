------------------------------- MODULE PQueue -------------------------------
(***************************************************************************)
(* The priority queue of pqueue.go: the heap.Interface that PQueue gives   *)
(* to container/heap, and the algorithms of container/heap that use it, a  *)
(* swap at a time.  A node keeps its calls and its tasks in such queues,   *)
(* by the millisecond they are due.                                        *)
(*                                                                         *)
(* Positions count from 1, so that the parent of i is i \div 2; an index   *)
(* of 0 stands for the -1 of an item that is in no queue.                  *)
(***************************************************************************)
EXTENDS Integers, Sequences

CONSTANTS
  Items,
  Priorities,       \* of an item: milliseconds
  NoItem

ASSUME PQueueAssumption ==
  Priorities \subseteq Int /\ Priorities # {} /\ NoItem \notin Items

VARIABLES
  pq,               \* the slice
  priority, index,  \* of each item
  mode,             \* the algorithm that runs: "up", or down, called by
                    \* "fix" or by "pop"
  at, start,        \* where it is, and where down started
  popped            \* what the last heap.Pop returned

pqvars == <<pq, priority, index, mode, at, start, popped>>

\* heap.Init has nothing to do: NewNode and fullOOMCleanup make empty queues.
PQInit ==
  /\ pq = <<>>
  /\ priority = [x \in Items |-> CHOOSE p \in Priorities : TRUE]
  /\ index = [x \in Items |-> 0]
  /\ mode = "idle" /\ at = 0 /\ start = 0
  /\ popped = NoItem

Key(i) == priority[pq[i]]

Less(i, j) == Key(i) < Key(j)

SwapWithoutIndex(i, j) ==                         \* mutant
  /\ pq' = [pq EXCEPT ![i] = pq[j], ![j] = pq[i]]
  /\ UNCHANGED index

Swap(i, j) ==
  /\ pq' = [pq EXCEPT ![i] = pq[j], ![j] = pq[i]]
  /\ index' = [index EXCEPT ![pq[j]] = i, ![pq[i]] = j]

Stop == mode' = "idle" /\ at' = 0 /\ start' = 0

-----------------------------------------------------------------------------
(* heap.Push                                                                *)

\* The new item is appended, and rises.
Push(x, p) ==
  /\ mode = "idle" /\ index[x] = 0
  /\ priority' = [priority EXCEPT ![x] = p]
  /\ pq' = Append(pq, x)
  /\ index' = [index EXCEPT ![x] = Len(pq) + 1]
  /\ mode' = "up" /\ at' = Len(pq) + 1
  /\ UNCHANGED <<start, popped>>

Rises == at > 1 /\ Less(at, at \div 2)

Up ==
  /\ mode = "up" /\ Rises
  /\ Swap(at \div 2, at) /\ at' = at \div 2
  /\ UNCHANGED <<priority, mode, start, popped>>

Risen ==
  /\ mode = "up" /\ ~Rises
  /\ Stop
  /\ UNCHANGED <<pq, priority, index, popped>>

-----------------------------------------------------------------------------
(* heap.Pop, and heap.Fix which update calls.                               *)

BoundOfFix == Len(pq)                             \* mutant

\* down leaves the last item alone when Pop has put the least one there.
Bound == IF mode = "pop" THEN Len(pq) - 1 ELSE Len(pq)

LeftChild == 2 * at                               \* mutant

LesserChild ==
  IF 2 * at + 1 <= Bound /\ Less(2 * at + 1, 2 * at) THEN 2 * at + 1 ELSE 2 * at

Sinks == 2 * at <= Bound /\ Less(LesserChild, at)

Down ==
  /\ mode \in {"fix", "pop"} /\ Sinks
  /\ Swap(at, LesserChild) /\ at' = LesserChild
  /\ UNCHANGED <<priority, mode, start, popped>>

StartPop ==
  /\ mode = "idle" /\ pq # <<>>
  /\ Swap(1, Len(pq))
  /\ mode' = "pop" /\ at' = 1 /\ start' = 1
  /\ UNCHANGED <<priority, popped>>

PopKeepingIndex ==                                \* mutant
  /\ mode = "pop" /\ ~Sinks
  /\ popped' = pq[Len(pq)]
  /\ pq' = SubSeq(pq, 1, Len(pq) - 1)
  /\ Stop
  /\ UNCHANGED <<priority, index>>

\* PQueue.Pop takes the last item off.
Pop ==
  /\ mode = "pop" /\ ~Sinks
  /\ popped' = pq[Len(pq)]
  /\ pq' = SubSeq(pq, 1, Len(pq) - 1)
  /\ index' = [index EXCEPT ![pq[Len(pq)]] = 0]
  /\ Stop
  /\ UNCHANGED priority

\* A new priority for an item.  For one that was taken off, Fix does nothing:
\* down and up leave the index -1 alone.
Update(x, p) ==
  /\ mode = "idle"
  /\ priority' = [priority EXCEPT ![x] = p]
  /\ IF index[x] # 0
       THEN mode' = "fix" /\ at' = index[x] /\ start' = index[x]
       ELSE UNCHANGED <<mode, at, start>>
  /\ UNCHANGED <<pq, index, popped>>

FixedBySinking ==                                 \* mutant
  /\ mode = "fix" /\ ~Sinks
  /\ Stop
  /\ UNCHANGED <<pq, priority, index, popped>>

\* An item that did not sink may have to rise.
Fixed ==
  /\ mode = "fix" /\ ~Sinks
  /\ IF at = start THEN mode' = "up" /\ UNCHANGED <<at, start>> ELSE Stop
  /\ UNCHANGED <<pq, priority, index, popped>>

PQNext ==
  \/ \E x \in Items, p \in Priorities : Push(x, p) \/ Update(x, p)
  \/ Up \/ Risen \/ Down \/ StartPop \/ Pop \/ Fixed

PQSpec == PQInit /\ [][PQNext]_pqvars

-----------------------------------------------------------------------------
(* What the queue must guarantee.                                           *)

PQTypeOK ==
  /\ pq \in Seq(Items)
  /\ priority \in [Items -> Priorities]
  /\ index \in [Items -> Nat]
  /\ mode \in {"idle", "up", "fix", "pop"}
  /\ at \in Nat /\ start \in Nat
  /\ mode # "idle" => at \in 1 .. Len(pq)
  /\ popped \in Items \cup {NoItem}

\* pqueue.go:13: whatever swaps are done, each item knows its position, so that
\* update fixes the heap where the item is; an item is queued once.
IndexTracksPosition ==
  /\ \A i \in 1 .. Len(pq) : index[pq[i]] = i
  /\ \A x \in Items : index[x] # 0 => index[x] <= Len(pq) /\ pq[index[x]] = x

\* Between two operations the slice is a heap.
HeapOrdered ==
  mode = "idle" => \A i \in 2 .. Len(pq) : Key(i \div 2) <= Key(i)

\* Peak, by which a node decides whether anything is due, shows an item that no
\* other precedes.
PeakIsLeast ==
  mode = "idle" => \A i \in 1 .. Len(pq) : Key(1) <= Key(i)

\* The queue is a bag that hands out a least item: nothing gets lost, is handed
\* out twice or out of order, whatever updates there are meanwhile.
Queued == {pq[i] : i \in 1 .. Len(pq)}

QueuedPriorities == [x \in Queued |-> priority[x]]

MinQ == INSTANCE MinQueue WITH queued <- QueuedPriorities, taken <- popped

ImplementsMinQueue == MinQ!QInit(NoItem) /\ [][MinQ!QNext]_MinQ!qvars
=============================================================================
