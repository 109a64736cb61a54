----------------------------- MODULE CallReply -----------------------------
(***************************************************************************)
(* Calls and their replies (call.go, node.go, lb.go).  A request is made   *)
(* of two calls: a client (a source, or an app node) calls a load          *)
(* balancer, which calls an instance of its pool.  Each caller keeps a     *)
(* pendingCallMap from reqID to the callback of the call, and a reply      *)
(* loop, a goroutine outside of the millisecond barrier, which looks up    *)
(* each reply.  The balancer's callback sends the reply on to the client   *)
(* under the client's own reqID.                                           *)
(*                                                                         *)
(* An instance may send several replies to a call, a 503 for one stage and *)
(* a success in the end, or none (module Node); a caller gives up a call   *)
(* with an error reply to itself (module Outbound); the map of an app node *)
(* is emptied after an outage.  Each reply remembers the request it is for *)
(* (its field call), which the code uses for statistics only.              *)
(***************************************************************************)
EXTENDS Integers, Sequences

CONSTANTS
  Requests,
  Clients, LB,      \* the nodes: callers of requests, and one balancer
  Caller,           \* the client of each request
  AppClients,       \* those clients that are app nodes
  PoolSize,         \* the balancer's number of instances
  ReplyChSize,      \* bufferSizes
  MaxReplies        \* the most replies an instance sends to each call

Nodes     == Clients \cup {LB}
Hops      == {"client", "lb"}
Instances == 0 .. PoolSize - 1

ASSUME CallReplyAssumption ==
  /\ LB \notin Clients /\ AppClients \subseteq Clients
  /\ Caller \in [Requests -> Clients]
  /\ PoolSize \in Nat \ {0} /\ ReplyChSize \in Nat \ {0}
  /\ MaxReplies \in [Requests -> Nat]

VARIABLES
  callNumber,       \* the last reqID given out
  id,               \* the reqID of each call, by hop and request
  stage,            \* how far each call is, by hop and request
  pending,          \* the <<reqID, request>> entries of each node's map
  replyCh,          \* each node's channel of replies
  loop,             \* each node's reply loop
  lastSent, sentTo, \* the balancer's counter; how many calls each instance got
  answers,          \* how many replies the instance has sent for each request
  finished          \* how often the client's callback ran for each

sendVars  == <<callNumber, id, stage, lastSent, sentTo>>
replyVars == <<replyCh, loop, finished>>
crvars == <<sendVars, pending, replyVars, answers>>

Idle == [pc |-> "idle"]

CRInit ==
  /\ callNumber = 0
  /\ id = [h \in Hops |-> [r \in Requests |-> 0]]
  /\ stage = [h \in Hops |-> [r \in Requests |-> "new"]]
  /\ pending = [n \in Nodes |-> {}]
  /\ replyCh = [n \in Nodes |-> <<>>] /\ loop = [n \in Nodes |-> Idle]
  /\ lastSent = 0 /\ sentTo = [i \in Instances |-> 0]
  /\ answers = [r \in Requests |-> 0] /\ finished = [r \in Requests |-> 0]

NodeOf(h, r) == IF h = "lb" THEN LB ELSE Caller[r]

-----------------------------------------------------------------------------
(* Sending: sendCall, and what becomes of the call.                         *)

\* The new entry replaces one of the same reqID.
AddEntry(n, i, r) ==
  pending' = [pending EXCEPT ![n] = {e \in @ : e[1] # i} \cup {<<i, r>>}]

IncrCallNumberUnlocked ==                         \* mutant
  \E a \in {callNumber, callNumber + 1} : callNumber' = a

IncrCallNumber == callNumber' = callNumber + 1

ForwardByReqID(r) ==                              \* mutant
  /\ lastSent' = lastSent + 1
  /\ sentTo' = [sentTo EXCEPT ![id["client"][r] % PoolSize] = @ + 1]

\* The balancer's handleCall goes round its pool.
Forward(r) ==
  /\ lastSent' = lastSent + 1
  /\ sentTo' = [sentTo EXCEPT ![lastSent' % PoolSize] = @ + 1]

\* sendCall registers the call under a new reqID: a client at any time, the
\* balancer when it has received the client's call.
Register(h, r) ==
  /\ stage[h][r] = "new"
  /\ h = "lb" => stage["client"][r] = "sent"
  /\ IncrCallNumber
  /\ id' = [id EXCEPT ![h][r] = callNumber']
  /\ AddEntry(NodeOf(h, r), callNumber', r)
  /\ stage' = [stage EXCEPT ![h][r] = "registered"]
  /\ IF h = "lb" THEN Forward(r) ELSE UNCHANGED <<lastSent, sentTo>>
  /\ UNCHANGED <<replyVars, answers>>

pushFrame == UNCHANGED <<callNumber, id, lastSent, sentTo, pending, loop, finished>>

\* Then tryAcceptCall hands it over, or it is queued at the sender.
Push(h, r) ==
  /\ stage[h][r] = "registered"
  /\ \E s \in {"sent", "queued"} : stage' = [stage EXCEPT ![h][r] = s]
  /\ UNCHANGED <<replyCh, answers>> /\ pushFrame

\* drainOutbound, which a source never runs, hands the call over later...
Drains(h, r) == h = "lb" \/ Caller[r] \in AppClients

Redeliver(h, r) ==
  /\ stage[h][r] = "queued" /\ Drains(h, r)
  /\ stage' = [stage EXCEPT ![h][r] = "sent"]
  /\ UNCHANGED <<replyCh, answers>> /\ pushFrame

SendReplyUnbounded(n, i, r) ==                    \* mutant
  replyCh' = [replyCh EXCEPT ![n] = Append(@, [reqID |-> i, call |-> r])]

\* A send on a replyCh that is full waits.
SendReply(n, i, r) ==
  /\ Len(replyCh[n]) < ReplyChSize
  /\ replyCh' = [replyCh EXCEPT ![n] = Append(@, [reqID |-> i, call |-> r])]

\* ...or gives it up: sendErrorReply, to the caller itself.
GiveUp(h, r) ==
  /\ stage[h][r] = "queued" /\ Drains(h, r)
  /\ stage' = [stage EXCEPT ![h][r] = "over"]
  /\ SendReply(NodeOf(h, r), id[h][r], r)
  /\ UNCHANGED answers /\ pushFrame

\* The instance replies to the balancer, sendErrorReply or HandleTask.
Answer(r) ==
  /\ stage["lb"][r] = "sent" /\ answers[r] < MaxReplies[r]
  /\ answers' = [answers EXCEPT ![r] = @ + 1]
  /\ SendReply(LB, id["lb"][r], r)
  /\ UNCHANGED stage /\ pushFrame

-----------------------------------------------------------------------------
(* The reply loop of node n.                                                *)

loopFrame == UNCHANGED <<sendVars, answers>>

\* The reply is received and its reqID looked up; unknown ones are dropped.
Lookup(n) ==
  /\ loop[n].pc = "idle" /\ replyCh[n] # <<>>
  /\ replyCh' = [replyCh EXCEPT ![n] = Tail(@)]
  /\ LET reply == Head(replyCh[n]) IN
       \/ \E r \in Requests :
            /\ <<reply.reqID, r>> \in pending[n]
            /\ loop' = [loop EXCEPT ![n] =
                          [pc |-> "found", reply |-> reply, entry |-> r]]
       \/ /\ ~\E r \in Requests : <<reply.reqID, r>> \in pending[n]
          /\ UNCHANGED loop
  /\ UNCHANGED <<pending, finished>> /\ loopFrame

FoundNotDeleted(n) ==                             \* mutant
  /\ loop[n].pc = "found"
  /\ loop' = [loop EXCEPT ![n].pc = "callback"]
  /\ UNCHANGED <<pending, replyCh, finished>> /\ loopFrame

\* The entry is deleted, in a critical section of its own.
Delete(n) ==
  /\ loop[n].pc = "found"
  /\ pending' = [pending EXCEPT ![n] = {e \in @ : e[1] # loop[n].reply.reqID}]
  /\ loop' = [loop EXCEPT ![n].pc = "callback"]
  /\ UNCHANGED <<replyCh, finished>> /\ loopFrame

\* The callback of a source counts the event finished, that of an app node
\* does nothing...
ClientCallback(n) ==
  /\ n # LB /\ loop[n].pc = "callback"
  /\ finished' = [finished EXCEPT ![loop[n].entry] = @ + 1]
  /\ loop' = [loop EXCEPT ![n] = Idle]
  /\ UNCHANGED <<pending, replyCh>> /\ loopFrame

LBCallbackWithItsID ==                            \* mutant
  /\ loop[LB].pc = "callback"
  /\ SendReply(Caller[loop[LB].entry], loop[LB].reply.reqID, loop[LB].reply.call)
  /\ loop' = [loop EXCEPT ![LB] = Idle]
  /\ UNCHANGED <<pending, finished>> /\ loopFrame

\* ...that of the balancer sends the reply to the caller of the call that was
\* forwarded, with that call's reqID.
LBCallback ==
  /\ loop[LB].pc = "callback"
  /\ LET r == loop[LB].entry IN
       SendReply(Caller[r], id["client"][r], loop[LB].reply.call)
  /\ loop' = [loop EXCEPT ![LB] = Idle]
  /\ UNCHANGED <<pending, finished>> /\ loopFrame

\* fullOOMCleanup of an app node replaces its map, whatever its loop does.
Clean(n) ==
  /\ n \in AppClients
  /\ pending' = [pending EXCEPT ![n] = {}]
  /\ UNCHANGED replyVars /\ loopFrame

ReplyLoop(n) == \/ Lookup(n) \/ Delete(n) \/ ClientCallback(n)
                \/ n = LB /\ LBCallback

Carry(h, r) == Redeliver(h, r) \/ GiveUp(h, r)

CRNext == \/ \E h \in Hops, r \in Requests :
               Register(h, r) \/ Push(h, r) \/ Carry(h, r)
          \/ \E r \in Requests : Answer(r)
          \/ \E n \in Nodes : ReplyLoop(n) \/ Clean(n)

\* Go runs a reply loop that can run.  Nothing else is assumed: a call may stay
\* in a queue or at an instance for ever.
CRFairness == \A n \in Nodes : WF_crvars(ReplyLoop(n))

CRSpec == CRInit /\ [][CRNext]_crvars

-----------------------------------------------------------------------------
(* What calls and replies must guarantee.                                   *)

Reply == [reqID : Nat, call : Requests]

CRTypeOK ==
  /\ callNumber \in Nat
  /\ id \in [Hops -> [Requests -> Nat]]
  /\ stage \in [Hops -> [Requests -> {"new", "registered", "queued", "sent", "over"}]]
  /\ pending \in [Nodes -> SUBSET (Nat \X Requests)]
  /\ replyCh \in [Nodes -> Seq(Reply)]
  /\ \A n \in Nodes : Len(replyCh[n]) <= ReplyChSize
  /\ loop \in [Nodes -> {Idle} \cup
                        [pc : {"found", "callback"}, reply : Reply, entry : Requests]]
  /\ lastSent \in Nat /\ sentTo \in [Instances -> Nat]
  /\ answers \in [Requests -> Nat] /\ finished \in [Requests -> Nat]

\* However many replies a request gets, the client's callback runs once at
\* most: the other replies are dropped at the balancer or at the client.
CallbackOnce == \A r \in Requests : finished[r] <= 1

\* A request that an instance has answered, or a sender has given up.
Decided(r) == answers[r] > 0 \/ \E h \in Hops : stage[h][r] = "over"

Trip == INSTANCE RoundTrip
          WITH sent    <- {r \in Requests : stage["client"][r] # "new"},
               decided <- {r \in Requests : Decided(r)}

\* To a client its requests are round trips: no callback without an answer to
\* that very request, or the loss of it, however reqIDs and maps interleave.
ImplementsRoundTrip == Trip!Spec

\* A reply is only ever matched with the call it is for, at the balancer as at
\* the client, although it travels under two reqIDs and maps are emptied and
\* refilled meanwhile.
RightReply ==
  \A n \in Nodes : loop[n].pc # "idle" => loop[n].entry = loop[n].reply.call

\* Round robin: no instance gets two calls more than another.
PoolBalanced == \A i, j \in Instances : sentTo[i] <= sentTo[j] + 1

\* An answer to a request of a source is never lost: until the callback has run
\* there is a reply on its way, in a channel whose reader will find the entry it
\* names, or in a loop's hand, at the balancer or at the source.
AnswerOnItsWay ==
  \A r \in Requests :
    /\ Caller[r] \notin AppClients /\ finished[r] = 0
    /\ answers[r] > 0 \/ stage["lb"][r] = "over"
    => \E n \in {LB, Caller[r]} :
         \/ loop[n].pc # "idle" /\ loop[n].entry = r
         \/ \E i \in DOMAIN replyCh[n] : <<replyCh[n][i].reqID, r>> \in pending[n]

\* When the instance has answered, or the balancer has given up, a source's
\* request is finished: with whatever capacity of the channels, no reply loop
\* waits for ever on another's channel, and no answer gets lost.
AnsweredIsFinished ==
  \A r \in Requests :
    Caller[r] \notin AppClients /\ (answers[r] > 0 \/ stage["lb"][r] = "over")
      ~> finished[r] = 1
=============================================================================
