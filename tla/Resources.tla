----------------------------- MODULE Resources -----------------------------
(***************************************************************************)
(* NodeResources (resources.go): the CPU, memory and network utilisation   *)
(* of a node, the out-of-memory kill and the recovery from it.  Every      *)
(* action is one critical section of resources.mu.                         *)
(*                                                                         *)
(* Utilisation is a float64 between 0.0 and 1.0 in the code; here it is a  *)
(* number of equal parts of 1.0 (Full), so rounding is not modelled.  The  *)
(* cost functions draw from a distribution: a cost is any member of the    *)
(* set of that name.  downUntil is kept relative to the clock.             *)
(***************************************************************************)
EXTENDS Integers

CONSTANTS
  Calls,                \* the calls the node may be sent
  Full,                 \* 1.0
  MemoryLimit, NetworkLimit,
  CPUPerLocalWork, MemoryPerCall, MemoryPerQueuedCall,
  NetworkPerCall, NetworkPerReply,       \* the possible values of each cost
  CPUDecayRate, MemoryDecayRate, NetworkDecayRate,
  MemoryRecoveryMs

ASSUME ResourceAssumption ==
  /\ Full \in Nat \ {0}
  /\ MemoryLimit \in 0 .. Full /\ NetworkLimit \in 0 .. Full
  /\ CPUPerLocalWork \subseteq Nat /\ MemoryPerCall \subseteq Nat
  /\ MemoryPerQueuedCall \subseteq Nat
  /\ NetworkPerCall \subseteq Nat /\ NetworkPerReply \subseteq Nat
  /\ CPUDecayRate \in Nat /\ MemoryDecayRate \in Nat /\ NetworkDecayRate \in Nat
  /\ MemoryRecoveryMs \in Nat

VARIABLES
  cpu, memory, network, \* Current of each ResourceState
  status,               \* "down" while the code's isDown is set, else "up"
  downLeft,             \* downUntil minus the current time, while down
  pendingWork           \* the calls whose tasks came up while down

rvars == <<cpu, memory, network, status, downLeft, pendingWork>>

isDown == status = "down"

AtMost(limit, x) == IF x < limit THEN x ELSE limit
Minus(x, y)      == IF x > y THEN x - y ELSE 0

\* initResources: nothing used yet.
RInit == /\ cpu = 0 /\ memory = 0 /\ network = 0
         /\ status = "up" /\ downLeft = 0 /\ pendingWork = {}

-----------------------------------------------------------------------------
(* consumeResources, by type of resource.                                   *)

\* The check for memory exhaustion that ends every consumption: the container
\* is killed the moment its memory exceeds the limit.
OOMCheck ==
  IF memory' > MemoryLimit
    THEN /\ status' = "down"
         /\ downLeft' = MemoryRecoveryMs
         /\ pendingWork' = {}
    ELSE UNCHANGED <<status, downLeft, pendingWork>>

UseCPU(a) == /\ cpu' = AtMost(Full, cpu + a)
             /\ UNCHANGED <<memory, network>>
             /\ OOMCheck

UseMemory(a) == /\ memory' = AtMost(Full, memory + a)
                /\ UNCHANGED <<cpu, network>>
                /\ OOMCheck

UseNetwork(a) == /\ network' = AtMost(Full, network + a)
                 /\ UNCHANGED <<cpu, memory>>
                 /\ OOMCheck

\* A node that is down consumes nothing; a network that is full neither.
ConsumeCPU(a) == IF isDown THEN UNCHANGED rvars ELSE UseCPU(a)

ConsumeMemoryEvenDown(a) == UseMemory(a)                        \* mutant

ConsumeMemory(a) == IF isDown THEN UNCHANGED rvars ELSE UseMemory(a)

NetworkAvailable(a) == ~isDown /\ network + a <= NetworkLimit

ConsumeNetworkUnlimited(a) ==                                   \* mutant
  IF isDown THEN UNCHANGED rvars ELSE UseNetwork(a)

ConsumeNetwork(a) == IF NetworkAvailable(a) THEN UseNetwork(a)
                                            ELSE UNCHANGED rvars

\* HandleTask's append to pendingWork, in a critical section of its own.
KeepPending(c) == /\ pendingWork' = pendingWork \cup {c}
                  /\ UNCHANGED <<cpu, memory, network, status, downLeft>>

-----------------------------------------------------------------------------
(* updateResources, once in each millisecond.                               *)

Recovering == isDown /\ downLeft = 0

Decayed(x, rate) == Minus(x, rate)

Decay == /\ cpu' = Decayed(cpu, CPUDecayRate)
         /\ memory' = Decayed(memory, MemoryDecayRate)
         /\ network' = Decayed(network, NetworkDecayRate)

Reset == cpu' = 0 /\ memory' = 0 /\ network' = 0

RecoverWithoutReset ==                                          \* mutant
  /\ status' = IF Recovering THEN "up" ELSE status
  /\ IF isDown THEN UNCHANGED <<cpu, memory, network>> ELSE Decay
  /\ UNCHANGED <<downLeft, pendingWork>>

UpdateResources ==
  /\ status' = IF Recovering THEN "up" ELSE status
  /\ IF Recovering  THEN Reset
     ELSE IF isDown THEN UNCHANGED <<cpu, memory, network>>
     ELSE Decay
  /\ UNCHANGED <<downLeft, pendingWork>>

\* The clock moves on by a millisecond.
PassMs == /\ downLeft' = Minus(downLeft, 1)
          /\ UNCHANGED <<cpu, memory, network, status, pendingWork>>

-----------------------------------------------------------------------------
RNext ==
  \/ \E a \in CPUPerLocalWork : ConsumeCPU(a)
  \/ \E a \in MemoryPerCall \cup MemoryPerQueuedCall : ConsumeMemory(a)
  \/ \E a \in NetworkPerCall \cup NetworkPerReply : ConsumeNetwork(a)
  \/ \E c \in Calls : KeepPending(c)
  \/ UpdateResources
  \/ PassMs

RSpec == RInit /\ [][RNext]_rvars

-----------------------------------------------------------------------------
(* What the bookkeeping guarantees.                                         *)

RTypeOK ==
  /\ cpu \in 0 .. Full /\ memory \in 0 .. Full /\ network \in 0 .. Full
  /\ status \in {"up", "down"}
  /\ downLeft \in 0 .. MemoryRecoveryMs
  /\ pendingWork \subseteq Calls

\* A node is down exactly while its memory exceeds the limit: no consumption
\* leaves an exhausted node up, and no decay, however long the outage, revives
\* a node early or leaves a revived one over its limit.
DownIffMemoryExhausted == isDown <=> memory > MemoryLimit

\* Admission control holds at all times: the network never exceeds its limit,
\* whatever calls and replies compete for it.
NetworkWithinLimit == network <= NetworkLimit

\* An outage is sealed: until the recovery nothing is consumed and nothing
\* decays, and the end of the outage is never put off.
OutageIsSealed ==
  [][isDown /\ isDown' => /\ UNCHANGED <<cpu, memory, network>>
                          /\ downLeft' <= downLeft]_rvars
=============================================================================
