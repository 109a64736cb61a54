-------------------------- MODULE ResourcesProofs --------------------------
(***************************************************************************)
(* Proofs about Resources, for every limit, cost, decay rate and recovery  *)
(* time.  The invariants are inductive together: RInv.                     *)
(***************************************************************************)
EXTENDS Resources, TLAPS

RInv == RTypeOK /\ DownIffMemoryExhausted /\ NetworkWithinLimit

\* The two arithmetic helpers keep a utilisation between 0 and Full.
LEMMA UtilisationBounds ==
  ASSUME NEW x \in 0 .. Full, NEW a \in Nat
  PROVE  /\ AtMost(Full, x + a) \in 0 .. Full
         /\ AtMost(Full, x + a) <= x + a
         /\ Minus(x, a) \in 0 .. Full
         /\ Minus(x, a) <= x
BY ResourceAssumption DEF AtMost, Minus

\* Whatever was consumed, the check leaves the node down iff it is exhausted.
LEMMA OOMCheckRestores ==
  ASSUME RInv, ~isDown, OOMCheck, memory' \in 0 .. Full
  PROVE  /\ status' \in {"up", "down"} /\ downLeft' \in 0 .. MemoryRecoveryMs
         /\ pendingWork' \subseteq Calls
         /\ DownIffMemoryExhausted'
BY ResourceAssumption DEF RInv, RTypeOK, isDown, DownIffMemoryExhausted, OOMCheck

\* A node starts up, with nothing consumed.
LEMMA InitRInv == RInit => RInv
BY ResourceAssumption
   DEF RInit, RInv, RTypeOK, isDown, DownIffMemoryExhausted, NetworkWithinLimit

\* Each consumption, release and recovery preserves the invariant.
LEMMA NextRInv == RInv /\ [RNext]_rvars => RInv'
<1> SUFFICES ASSUME RInv, [RNext]_rvars PROVE RInv'
  OBVIOUS
<1> USE ResourceAssumption
<1>0. ASSUME UNCHANGED rvars PROVE RInv'
  BY <1>0 DEF RInv, RTypeOK, isDown, DownIffMemoryExhausted, NetworkWithinLimit,
     rvars
<1>1. ASSUME NEW a \in CPUPerLocalWork, ConsumeCPU(a) PROVE RInv'
  <2>1. CASE isDown
    BY <1>0, <1>1, <2>1 DEF ConsumeCPU
  <2>2. CASE ~isDown
    <3>1. UseCPU(a) /\ a \in Nat
      BY <1>1, <2>2 DEF ConsumeCPU
    <3>2. cpu' \in 0 .. Full /\ memory' = memory /\ network' = network
      BY <3>1, UtilisationBounds DEF RInv, RTypeOK, UseCPU
    <3>3. /\ status' \in {"up", "down"} /\ downLeft' \in 0 .. MemoryRecoveryMs
          /\ pendingWork' \subseteq Calls /\ DownIffMemoryExhausted'
      BY <2>2, <3>1, <3>2, OOMCheckRestores DEF RInv, RTypeOK, UseCPU
    <3> QED
      BY <3>2, <3>3 DEF RInv, RTypeOK, NetworkWithinLimit
  <2> QED
    BY <2>1, <2>2
<1>2. ASSUME NEW a \in MemoryPerCall \cup MemoryPerQueuedCall, ConsumeMemory(a)
      PROVE  RInv'
  <2>1. CASE isDown
    BY <1>0, <1>2, <2>1 DEF ConsumeMemory
  <2>2. CASE ~isDown
    <3>1. UseMemory(a) /\ a \in Nat
      BY <1>2, <2>2 DEF ConsumeMemory
    <3>2. memory' \in 0 .. Full /\ cpu' = cpu /\ network' = network
      BY <3>1, UtilisationBounds DEF RInv, RTypeOK, UseMemory
    <3>3. /\ status' \in {"up", "down"} /\ downLeft' \in 0 .. MemoryRecoveryMs
          /\ pendingWork' \subseteq Calls /\ DownIffMemoryExhausted'
      BY <2>2, <3>1, <3>2, OOMCheckRestores DEF RInv, RTypeOK, UseMemory
    <3> QED
      BY <3>2, <3>3 DEF RInv, RTypeOK, NetworkWithinLimit
  <2> QED
    BY <2>1, <2>2
<1>3. ASSUME NEW a \in NetworkPerCall \cup NetworkPerReply, ConsumeNetwork(a)
      PROVE  RInv'
  <2>1. CASE ~NetworkAvailable(a)
    BY <1>0, <1>3, <2>1 DEF ConsumeNetwork
  <2>2. CASE NetworkAvailable(a)
    <3>1. UseNetwork(a) /\ ~isDown /\ network + a <= NetworkLimit /\ a \in Nat
      BY <1>3, <2>2 DEF ConsumeNetwork, NetworkAvailable
    <3>2. /\ network' \in 0 .. Full /\ network' <= network + a
          /\ cpu' = cpu /\ memory' = memory
      BY <3>1, UtilisationBounds DEF RInv, RTypeOK, UseNetwork
    <3>3. /\ status' \in {"up", "down"} /\ downLeft' \in 0 .. MemoryRecoveryMs
          /\ pendingWork' \subseteq Calls /\ DownIffMemoryExhausted'
      BY <3>1, <3>2, OOMCheckRestores DEF RInv, RTypeOK, UseNetwork
    <3> QED
      BY <3>1, <3>2, <3>3 DEF RInv, RTypeOK, NetworkWithinLimit
  <2> QED
    BY <2>1, <2>2
<1>4. ASSUME NEW c \in Calls, KeepPending(c) PROVE RInv'
  BY <1>4 DEF RInv, RTypeOK, isDown, DownIffMemoryExhausted, NetworkWithinLimit,
     KeepPending
<1>5. CASE UpdateResources
  <2>1. CASE Recovering
    BY <1>5, <2>1 DEF RInv, RTypeOK, isDown, DownIffMemoryExhausted,
       NetworkWithinLimit, UpdateResources, Reset, Recovering
  <2>2. CASE isDown /\ ~Recovering
    BY <1>5, <2>2 DEF RInv, RTypeOK, isDown, DownIffMemoryExhausted,
       NetworkWithinLimit, UpdateResources
  <2>3. CASE ~isDown
    <3>1. Decay /\ UNCHANGED <<status, downLeft, pendingWork>>
      BY <1>5, <2>3 DEF UpdateResources, Recovering
    <3>2. /\ cpu' \in 0 .. Full
          /\ memory' \in 0 .. Full /\ memory' <= memory
          /\ network' \in 0 .. Full /\ network' <= network
      BY <3>1, UtilisationBounds DEF RInv, RTypeOK, Decay, Decayed
    <3> QED
      BY <2>3, <3>1, <3>2
         DEF RInv, RTypeOK, isDown, DownIffMemoryExhausted, NetworkWithinLimit
  <2> QED
    BY <2>1, <2>2, <2>3
<1>6. CASE PassMs
  BY <1>6 DEF RInv, RTypeOK, isDown, DownIffMemoryExhausted, NetworkWithinLimit,
     PassMs, Minus
<1> QED
  BY <1>0, <1>1, <1>2, <1>3, <1>4, <1>5, <1>6 DEF RNext

\* Utilisations stay between 0 and 1.0 and the outage within its length.
THEOREM ResourcesTypeCorrect == RSpec => []RTypeOK
BY InitRInv, NextRInv, PTL DEF RSpec, RInv

\* A node is down exactly while its memory is exhausted.
THEOREM DownExactlyWhenExhausted == RSpec => []DownIffMemoryExhausted
BY InitRInv, NextRInv, PTL DEF RSpec, RInv

\* The network limit is never exceeded.
THEOREM NetworkStaysWithinLimit == RSpec => []NetworkWithinLimit
BY InitRInv, NextRInv, PTL DEF RSpec, RInv

\* Nothing is consumed or decays during an outage, which is never prolonged.
THEOREM OutagesAreSealed == RSpec => OutageIsSealed
<1>1. RInv /\ [RNext]_rvars =>
        [isDown /\ isDown' => /\ UNCHANGED <<cpu, memory, network>>
                              /\ downLeft' <= downLeft]_rvars
  BY ResourceAssumption
     DEF RInv, RTypeOK, isDown, RNext, rvars, ConsumeCPU, ConsumeMemory,
     ConsumeNetwork, NetworkAvailable, Recovering, KeepPending, UpdateResources, PassMs, Minus, Reset
<1> QED
  BY <1>1, InitRInv, NextRInv, PTL DEF RSpec, OutageIsSealed
=============================================================================
