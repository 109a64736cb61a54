---------------------------- MODULE TrafficProofs ---------------------------
(***************************************************************************)
(* Proofs about Traffic: calls and replies behave in it as in CallReply,   *)
(* so that what is proved there holds here, and the source is on time.     *)
(***************************************************************************)
EXTENDS Traffic, CallReplyProofs

\* Each step of the composition is a step of CallReply, or none of its.
LEMMA StepOfCallReply == [TNext]_tvars => [CRNext]_crvars
<1> SUFFICES ASSUME [TNext]_tvars PROVE CRNext \/ UNCHANGED crvars
  OBVIOUS
<1>1. OfSource \subseteq Requests /\ Sending \subseteq Requests
  BY DEF OfSource, Sending
<1>2. CASE SourceStep
  BY <1>1, <1>2 DEF SourceStep, CRNext, Hops
<1>3. CASE OtherStep
  BY <1>3 DEF OtherStep, CRNext, Hops
<1>4. CASE UNCHANGED tvars
  BY <1>4 DEF tvars
<1> QED
  BY <1>2, <1>3, <1>4 DEF TNext

\* Whatever the source and the others do, calls and replies behave as module
\* CallReply describes.
THEOREM TrafficImplementsCallReply == TSpec => CRSpec
<1>1. TInit => CRInit
  BY DEF TInit
<1> QED
  BY <1>1, StepOfCallReply, PTL DEF TSpec, TSafety, CRSpec

\* Hence the reply loops match each reply with its call, run each client's
\* callback once at most and never exceed a channel, and the pool is balanced.
THEOREM TrafficIsSafe ==
  TSpec => [](CRTypeOK /\ CallbackOnce /\ RightReply /\ PoolBalanced)
BY TrafficImplementsCallReply, CallReplyTypeCorrect, CallbackRunsOnce, RepliesMatch,
   RoundRobin, PTL

\* And a request of the source, or of an app node, is a round trip: its callback
\* runs once, and for a reason.
THEOREM TrafficMakesRoundTrips == TSpec => ImplementsRoundTrip
BY TrafficImplementsCallReply, CallReplyImplementsRoundTrip, PTL

\* And while the source waits for an answer that was given, there is always a
\* reply on its way that will be matched.
THEOREM TrafficLosesNoAnswer == TSpec => []AnswerOnItsWay
BY TrafficImplementsCallReply, NoAnswerIsLost, PTL

-----------------------------------------------------------------------------
(* The source.                                                              *)

\* Once the first event is drawn, none is overdue by more than a millisecond.
SourceInv ==
  /\ STypeOK
  /\ ~drawn => running = "no"
  /\ drawn => nextEvent >= -MsUnits

\* The source's steps keep the next event within a millisecond.
LEMMA SourceStepInv ==
  ASSUME SourceInv, StartMs \/ EndMs \/ Generate \/ Sent
  PROVE  SourceInv'
<1> USE SourceAssumption DEF SourceInv, STypeOK
<1>1. CASE StartMs
  <2>1. drawn' = TRUE /\ running' = "loop"
    BY <1>1 DEF StartMs
  <2>2. nextEvent' \in Int /\ nextEvent' >= -MsUnits
    <3>1. CASE drawn
      BY <1>1, <3>1 DEF StartMs
    <3>2. CASE ~drawn
      <4>1. nextEvent' \in Gaps
        BY <1>1, <3>2, Zenon DEF StartMs
      <4>2. nextEvent' \in Nat
        BY <4>1
      <4> QED
        BY <4>2
    <3> QED
      BY <3>1, <3>2
  <2> QED
    BY <2>1, <2>2
<1>2. CASE EndMs
  BY <1>2 DEF EndMs
<1>3. CASE Generate
  BY <1>3 DEF Generate
<1>4. CASE Sent
  BY <1>4 DEF Sent
<1> QED
  BY <1>1, <1>2, <1>3, <1>4

\* Each step of the composition is a step of the source, or none of its.
LEMMA NextSource == [TNext]_tvars => [StartMs \/ EndMs \/ Generate \/ Sent]_svars
BY DEF TNext, SourceStep, OtherStep, tvars

\* GenerateEvent is called for each event in the first millisecond after it.
THEOREM SourceOnTime == TSpec => EventsOnTime
<1>1. TInit => SourceInv
  <2> SUFFICES ASSUME running = "no", drawn = FALSE, nextEvent = 0 PROVE SourceInv
    BY DEF TInit, SInit
  <2>1. ~drawn /\ drawn \in BOOLEAN
    OBVIOUS
  <2> QED
    BY <2>1 DEF SourceInv, STypeOK
<1>2. SourceInv /\ [TNext]_tvars => SourceInv'
  BY SourceStepInv, NextSource DEF SourceInv, STypeOK, svars
<1>3. SourceInv /\ [TNext]_tvars =>
        [running = "loop" /\ running' = "sending" => nextEvent \in -MsUnits .. -1]_svars
  <2> SUFFICES ASSUME SourceInv, StartMs \/ EndMs \/ Generate \/ Sent,
                      running = "loop", running' = "sending"
               PROVE  nextEvent \in -MsUnits .. -1
    BY NextSource
  <2>1. nextEvent < 0
    BY DEF StartMs, EndMs, Generate, Sent
  <2>2. nextEvent \in Int /\ nextEvent >= -MsUnits
    BY DEF SourceInv, STypeOK
  <2> QED
    BY <2>1, <2>2, SourceAssumption
<1> QED
  BY <1>1, <1>2, <1>3, PTL DEF TSpec, TSafety, EventsOnTime
=============================================================================
