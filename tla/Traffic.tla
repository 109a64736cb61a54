------------------------------ MODULE Traffic ------------------------------
(***************************************************************************)
(* A source and the calls it makes: modules Source and CallReply composed. *)
(* GenerateEvent ends in the sendCall of a request of the source, or of a  *)
(* call to some other balancer, which is not modelled.  App nodes call the *)
(* balancer when they please.                                              *)
(***************************************************************************)
EXTENDS CallReply, Source

CONSTANT SourceClient

ASSUME TrafficAssumption == SourceClient \in Clients \ AppClients

tvars == <<crvars, svars>>

OfSource == {r \in Requests : Caller[r] = SourceClient}

TInit == CRInit /\ SInit

Sending == {r \in OfSource : stage["client"][r] = "registered"}

\* NextMillisecond of the source: between two events it sends a call.
SourceStep ==
  \/ (StartMs \/ EndMs \/ Generate) /\ UNCHANGED crvars
  \/ \E r \in OfSource : Generate /\ Register("client", r)
  \/ Sent /\ Sending = {} /\ UNCHANGED crvars
  \/ \E r \in Sending : Sent /\ Push("client", r)

\* The app nodes, the balancer and the reply loops, in their own time.
OtherStep ==
  /\ \/ \E r \in Requests \ OfSource : Register("client", r) \/ Push("client", r)
     \/ \E r \in Requests : Register("lb", r) \/ Push("lb", r) \/ Answer(r)
     \/ \E h \in Hops, r \in Requests : Carry(h, r)
     \/ \E n \in Nodes : ReplyLoop(n) \/ Clean(n)
  /\ UNCHANGED svars

TNext == SourceStep \/ OtherStep

TSafety == TInit /\ [][TNext]_tvars

TSpec == TSafety /\ \A n \in Nodes : WF_tvars(ReplyLoop(n) /\ UNCHANGED svars)

\* The same with millisecond after millisecond: the source goes through its
\* events, and the senders that drain their queues get on with that.
TDrainSpec ==
  /\ TSpec /\ WF_tvars(SourceStep)
  /\ \A h \in Hops, r \in Requests : WF_tvars(Carry(h, r) /\ UNCHANGED svars)

-----------------------------------------------------------------------------
\* call.go:48: "On failure to deliver, the call is queued at the sender for
\* retry."  But sendCall is the source's way to send as well, and the tick
\* goroutine of a source runs its NextMillisecond, not drainOutbound: a call
\* that its balancer refuses is neither tried again nor given up.
QueuedIsRetried ==
  \A h \in Hops, r \in Requests : stage[h][r] = "queued" ~> stage[h][r] # "queued"
=============================================================================
