-------------------------- MODULE CallReplyProofs --------------------------
(***************************************************************************)
(* Proofs about CallReply, for every set of requests and clients, size of  *)
(* the pool and of the channels, and number of replies.                    *)
(*                                                                         *)
(* The argument is about names.  A reqID is given out once (UniqueIDs), so *)
(* entries, replies on their way and the reply in the hands of a loop all  *)
(* name the call that has that reqID at that node (Named).                 *)
(***************************************************************************)
EXTENDS CallReply, TLAPS

Busy == [pc : {"found", "callback"}, reply : Reply, entry : Requests]

\* The reqID by which node n knows request r.
IDAt(n, r) == IF n = LB THEN id["lb"][r] ELSE id["client"][r]

Names(n, i, r) == i = IDAt(n, r) /\ i # 0 /\ (n # LB => n = Caller[r])

UniqueIDs ==
  /\ \A h \in Hops, r \in Requests : id[h][r] <= callNumber
  /\ \A h \in Hops, r \in Requests : stage[h][r] = "new" <=> id[h][r] = 0
  /\ \A h, g \in Hops, r, q \in Requests :
       id[h][r] # 0 /\ id[h][r] = id[g][q] => h = g /\ r = q
  /\ \A r \in Requests : id["lb"][r] # 0 => id["client"][r] # 0

Named ==
  /\ \A n \in Nodes : \A e \in pending[n] : Names(n, e[1], e[2])
  /\ \A n \in Nodes : \A i \in 1 .. Len(replyCh[n]) :
       Names(n, replyCh[n][i].reqID, replyCh[n][i].call)
  /\ \A n \in Nodes : loop[n] # Idle =>
       /\ Names(n, loop[n].reply.reqID, loop[n].reply.call)
       /\ loop[n].entry = loop[n].reply.call

\* The client has no entry for the request (any more).
Forgotten(r) == \A e \in pending[Caller[r]] : e[2] # r

Once ==
  \A r \in Requests :
    /\ finished[r] <= 1
    /\ finished[r] = 1 => /\ id["client"][r] # 0 /\ Forgotten(r)
                          /\ loop[Caller[r]] # Idle => loop[Caller[r]].entry # r
    /\ loop[Caller[r]] # Idle /\ loop[Caller[r]].entry = r
         /\ loop[Caller[r]].pc = "callback" => Forgotten(r)

CRInv == CRTypeOK /\ UniqueIDs /\ Named /\ Once

\* Initially no number has been given out and nothing is anywhere.
LEMMA InitCRInv == CRInit => CRInv
<1> SUFFICES ASSUME CRInit PROVE CRInv
  OBVIOUS
<1> USE CallReplyAssumption DEF CRInit
<1>1. CRTypeOK
  <2>1. \A n \in Nodes : Len(replyCh[n]) <= ReplyChSize /\ replyCh[n] \in Seq(Reply)
    OBVIOUS
  <2>2. /\ id \in [Hops -> [Requests -> Nat]] /\ sentTo \in [Instances -> Nat]
        /\ answers \in [Requests -> Nat] /\ finished \in [Requests -> Nat]
    OBVIOUS
  <2>3. stage \in [Hops -> [Requests -> {"new", "registered", "queued", "sent", "over"}]]
    OBVIOUS
  <2>4. /\ pending \in [Nodes -> SUBSET (Nat \X Requests)]
        /\ replyCh \in [Nodes -> Seq(Reply)]
        /\ loop \in [Nodes -> {Idle} \cup Busy]
    OBVIOUS
  <2> QED
    BY <2>1, <2>2, <2>3, <2>4 DEF CRTypeOK, Busy
<1>2. UniqueIDs
  BY DEF UniqueIDs, Hops
<1>3. Named /\ Once
  BY DEF Named, Once, Nodes
<1> QED
  BY <1>1, <1>2, <1>3 DEF CRInv

-----------------------------------------------------------------------------
(* Sending.                                                                 *)

\* No source is the balancer.
LEMMA CallerTypes == \A r \in Requests : Caller[r] \in Nodes /\ Caller[r] # LB
BY CallReplyAssumption DEF Nodes

\* The node of each hop, and the number that a request has there.
LEMMA NodeTypes ==
  \A h \in Hops, r \in Requests :
    /\ NodeOf(h, r) \in Nodes /\ Caller[r] \in Nodes /\ Caller[r] # LB
    /\ NodeOf(h, r) = LB <=> h = "lb"
    /\ IDAt(NodeOf(h, r), r) = id[h][r]
BY CallReplyAssumption DEF NodeOf, Nodes, Hops, IDAt

\* A reply under the right name keeps the channel well typed and well named.
LEMMA SendingNamed ==
  ASSUME CRTypeOK, Named, NEW n \in Nodes, NEW i \in Nat, NEW r \in Requests,
         SendReply(n, i, r), Names(n, i, r), UNCHANGED id
  PROVE  /\ replyCh' \in [Nodes -> Seq(Reply)]
         /\ \A m \in Nodes : Len(replyCh'[m]) <= ReplyChSize
         /\ \A m \in Nodes : \A k \in 1 .. Len(replyCh'[m]) :
              Names(m, replyCh'[m][k].reqID, replyCh'[m][k].call)
<1> DEFINE x == [reqID |-> i, call |-> r]
<1>1. x \in Reply
  BY DEF Reply
<1>2. replyCh[n] \in Seq(Reply) /\ Len(replyCh[n]) < ReplyChSize
  BY DEF CRTypeOK, SendReply
<1>3. /\ replyCh'[n] = Append(replyCh[n], x)
      /\ \A m \in Nodes \ {n} : replyCh'[m] = replyCh[m]
      /\ replyCh' = [replyCh EXCEPT ![n] = Append(replyCh[n], x)]
  BY DEF CRTypeOK, SendReply
<1>4. /\ Append(replyCh[n], x) \in Seq(Reply)
      /\ Len(Append(replyCh[n], x)) = Len(replyCh[n]) + 1
      /\ Append(replyCh[n], x)[Len(replyCh[n]) + 1] = x
      /\ \A k \in 1 .. Len(replyCh[n]) : Append(replyCh[n], x)[k] = replyCh[n][k]
  BY <1>1, <1>2
<1>5. Len(replyCh[n]) \in Nat
  BY <1>2
<1>6. replyCh' \in [Nodes -> Seq(Reply)]
  BY <1>3, <1>4 DEF CRTypeOK
<1>7. \A m \in Nodes : Len(replyCh'[m]) <= ReplyChSize
  BY <1>2, <1>3, <1>4, <1>5, CallReplyAssumption DEF CRTypeOK
<1>8. ASSUME NEW m \in Nodes, NEW k \in 1 .. Len(replyCh'[m])
      PROVE  Names(m, replyCh'[m][k].reqID, replyCh'[m][k].call)
  <2>1. CASE m = n /\ k = Len(replyCh[n]) + 1
    BY <1>3, <1>4, <2>1
  <2>2. CASE m = n /\ k # Len(replyCh[n]) + 1
    <3>1. k \in 1 .. Len(replyCh[n]) /\ replyCh'[m][k] = replyCh[n][k]
      BY <1>3, <1>4, <1>5, <1>8, <2>2
    <3> QED
      BY <2>2, <3>1 DEF Named
  <2>3. CASE m # n
    BY <1>3, <1>8, <2>3 DEF Named
  <2> QED
    BY <2>1, <2>2, <2>3
<1> QED
  BY <1>6, <1>7, <1>8

\* A fresh reqID renames nothing.
LEMMA RegisterRenames ==
  ASSUME CRInv, NEW h \in Hops, NEW r \in Requests, Register(h, r)
  PROVE  /\ UniqueIDs' /\ id' \in [Hops -> [Requests -> Nat]] /\ callNumber' \in Nat
         /\ id[h][r] = 0 /\ id'[h][r] = callNumber' /\ callNumber' # 0
         /\ \A n \in Nodes, i \in Nat, q \in Requests : Names(n, i, q) => Names(n, i, q)'
<1>0. /\ callNumber \in Nat /\ id \in [Hops -> [Requests -> Nat]]
      /\ stage \in [Hops -> [Requests -> {"new", "registered", "queued", "sent", "over"}]]
      /\ UniqueIDs
  BY DEF CRInv, CRTypeOK
<1>1. /\ callNumber' = callNumber + 1
      /\ stage[h][r] = "new" /\ id[h][r] = 0
  BY <1>0 DEF Register, IncrCallNumber, UniqueIDs
<1>2. /\ id' = [id EXCEPT ![h] = [id[h] EXCEPT ![r] = callNumber + 1]]
      /\ stage' = [stage EXCEPT ![h] = [stage[h] EXCEPT ![r] = "registered"]]
  BY <1>1 DEF Register
<1>3. /\ id' \in [Hops -> [Requests -> Nat]]
      /\ id'[h][r] = callNumber + 1 /\ stage'[h][r] = "registered"
      /\ \A g \in Hops, q \in Requests :
           g # h \/ q # r => id'[g][q] = id[g][q] /\ stage'[g][q] = stage[g][q]
  BY <1>0, <1>2
<1>4. UniqueIDs'
  <2>1. ASSUME NEW g \in Hops, NEW q \in Requests
        PROVE  /\ id'[g][q] <= callNumber'
               /\ stage'[g][q] = "new" <=> id'[g][q] = 0
    <3>1. CASE g = h /\ q = r
      BY <1>0, <1>1, <1>3, <3>1
    <3>2. CASE g # h \/ q # r
      <4>1. id'[g][q] = id[g][q] /\ stage'[g][q] = stage[g][q] /\ id[g][q] \in Nat
        BY <1>0, <1>3, <3>2
      <4>2. id[g][q] <= callNumber /\ (stage[g][q] = "new" <=> id[g][q] = 0)
        BY <1>0 DEF UniqueIDs
      <4> QED
        BY <1>0, <1>1, <4>1, <4>2
    <3> QED
      BY <3>1, <3>2
  <2>2. ASSUME NEW f \in Hops, NEW g \in Hops, NEW p \in Requests, NEW q \in Requests,
               id'[f][p] # 0, id'[f][p] = id'[g][q]
        PROVE  f = g /\ p = q
    <3>1. /\ id[f][p] <= callNumber /\ id[g][q] <= callNumber
          /\ id[f][p] \in Nat /\ id[g][q] \in Nat
          /\ id[f][p] # 0 /\ id[f][p] = id[g][q] => f = g /\ p = q
      BY <1>0 DEF UniqueIDs
    <3>2. CASE f = h /\ p = r
      BY <1>0, <1>3, <2>2, <3>1, <3>2
    <3>3. CASE g = h /\ q = r
      BY <1>0, <1>3, <2>2, <3>1, <3>3
    <3>4. CASE (f # h \/ p # r) /\ (g # h \/ q # r)
      BY <1>3, <2>2, <3>1, <3>4
    <3> QED
      BY <3>2, <3>3, <3>4
  <2>3. ASSUME NEW q \in Requests, id'["lb"][q] # 0  PROVE id'["client"][q] # 0
    <3>1. CASE h = "client" /\ q = r
      BY <1>0, <1>3, <3>1
    <3>2. CASE h = "lb" /\ q = r
      <4>1. stage["client"][r] = "sent"
        BY <3>2 DEF Register
      <4> QED
        BY <1>0, <1>3, <3>2, <4>1 DEF UniqueIDs, Hops
    <3>3. CASE q # r
      BY <1>0, <1>3, <2>3, <3>3 DEF UniqueIDs, Hops
    <3> QED
      BY <3>1, <3>2, <3>3 DEF Hops
  <2> QED
    BY <2>1, <2>2, <2>3 DEF UniqueIDs
<1>5. ASSUME NEW n \in Nodes, NEW i \in Nat, NEW q \in Requests, Names(n, i, q)
      PROVE  Names(n, i, q)'
  <2>1. IDAt(n, q)' = IDAt(n, q)
    BY <1>1, <1>3, <1>5 DEF Names, IDAt, Hops
  <2> QED
    BY <1>5, <2>1 DEF Names
<1> QED
  BY <1>0, <1>1, <1>3, <1>4, <1>5

\* Forwarding counts one more call for an instance of the pool.
LEMMA ForwardTypes ==
  ASSUME lastSent \in Nat, sentTo \in [Instances -> Nat], NEW r \in Requests, Forward(r)
  PROVE  /\ lastSent' \in Nat /\ sentTo' \in [Instances -> Nat]
         /\ lastSent' % PoolSize \in Instances
<1>1. lastSent' = lastSent + 1
  BY DEF Forward
<1>2. lastSent' % PoolSize \in Instances
  BY <1>1, CallReplyAssumption DEF Instances
<1> DEFINE x == lastSent' % PoolSize
<1>3. sentTo' = [sentTo EXCEPT ![x] = sentTo[x] + 1]
  BY DEF Forward
<1> HIDE DEF x
<1>4. sentTo' \in [Instances -> Nat]
  BY <1>2, <1>3 DEF x
<1> QED
  BY <1>1, <1>2, <1>4

\* A call is registered under a number that nothing else bears.
LEMMA RegisterCRInv ==
  ASSUME CRInv, NEW h \in Hops, NEW r \in Requests, Register(h, r)  PROVE CRInv'
<1>0. CRTypeOK /\ UniqueIDs /\ Named /\ Once
  BY DEF CRInv
<1>1. /\ UniqueIDs' /\ id' \in [Hops -> [Requests -> Nat]] /\ callNumber' \in Nat
      /\ id[h][r] = 0 /\ id'[h][r] = callNumber' /\ callNumber' # 0
  BY RegisterRenames
<1>2. \A n \in Nodes, i \in Nat, q \in Requests : Names(n, i, q) => Names(n, i, q)'
  BY RegisterRenames
<1> DEFINE m == NodeOf(h, r)
<1>3. m \in Nodes /\ (m = LB <=> h = "lb") /\ IDAt(m, r)' = id'[h][r]
  BY NodeTypes, CallReplyAssumption DEF NodeOf, IDAt, Nodes, Hops
<1>4. /\ pending' = [pending EXCEPT ![m] = {e \in pending[m] : e[1] # callNumber'}
                                             \cup {<<callNumber', r>>}]
      /\ UNCHANGED <<replyCh, loop, finished, answers>>
  BY <1>0 DEF Register, AddEntry, replyVars, CRTypeOK
<1>5. /\ pending' \in [Nodes -> SUBSET (Nat \X Requests)]
      /\ \A n \in Nodes : \A e \in pending'[n] :
           e \in pending[n] \/ (n = m /\ e = <<callNumber', r>>)
  <2>1. <<callNumber', r>> \in Nat \X Requests
    BY <1>1
  <2>2. pending[m] \subseteq Nat \X Requests
    BY <1>0, <1>3 DEF CRTypeOK
  <2>3. {e \in pending[m] : e[1] # callNumber'} \cup {<<callNumber', r>>}
          \subseteq Nat \X Requests
    BY <2>1, <2>2
  <2>4. /\ pending'[m] = {e \in pending[m] : e[1] # callNumber'} \cup {<<callNumber', r>>}
        /\ \A n \in Nodes \ {m} : pending'[n] = pending[n]
    BY <1>0, <1>3, <1>4 DEF CRTypeOK
  <2>5. pending' \in [Nodes -> SUBSET (Nat \X Requests)]
    BY <1>0, <1>4, <2>3 DEF CRTypeOK
  <2>6. ASSUME NEW n \in Nodes, NEW e \in pending'[n]
        PROVE  e \in pending[n] \/ (n = m /\ e = <<callNumber', r>>)
    <3>1. CASE n = m
      BY <2>4, <2>6, <3>1
    <3>2. CASE n # m
      BY <2>4, <2>6, <3>2
    <3> QED
      BY <3>1, <3>2
  <2> QED
    BY <2>5, <2>6
<1>6. CRTypeOK'
  <2>1. stage' \in [Hops -> [Requests -> {"new", "registered", "queued", "sent", "over"}]]
    BY <1>0 DEF Register, CRTypeOK
  <2>2. lastSent' \in Nat /\ sentTo' \in [Instances -> Nat]
    BY <1>0, ForwardTypes DEF Register, CRTypeOK
  <2> QED
    BY <1>0, <1>1, <1>4, <1>5, <2>1, <2>2 DEF CRTypeOK
<1>7. Named'
  <2>1. Names(m, callNumber, r)'
    <3>1. m # LB => m = Caller[r]
      BY DEF NodeOf
    <3> QED
      BY <1>1, <1>3, <3>1 DEF Names
  <2>2. ASSUME NEW n \in Nodes, NEW e \in pending'[n] PROVE Names(n, e[1], e[2])'
    <3>1. CASE e \in pending[n]
      <4>1. e[1] \in Nat /\ e[2] \in Requests /\ Names(n, e[1], e[2])
        BY <1>0, <3>1 DEF Named, CRTypeOK
      <4> QED
        BY <1>2, <4>1
    <3>2. CASE n = m /\ e = <<callNumber', r>>
      <4>1. n = m /\ e[1] = callNumber' /\ e[2] = r
        BY <3>2
      <4> QED
        BY <2>1, <4>1 DEF Names
    <3> QED
      BY <1>5, <3>1, <3>2
  <2>3. ASSUME NEW n \in Nodes, NEW i \in 1 .. Len(replyCh[n])
        PROVE  Names(n, replyCh[n][i].reqID, replyCh[n][i].call)'
    <3>1. replyCh[n] \in Seq(Reply)
      BY <1>0 DEF CRTypeOK
    <3>2. replyCh[n][i] \in Reply
      BY <3>1
    <3>3. PICK a \in Nat, q \in Requests :
            a = replyCh[n][i].reqID /\ q = replyCh[n][i].call
      BY <3>2 DEF Reply
    <3>4. Names(n, a, q)'
      BY <1>0, <1>2, <3>3 DEF Named
    <3> QED
      BY <1>4, <3>3, <3>4
  <2>4. ASSUME NEW n \in Nodes, loop[n] # Idle
        PROVE  /\ Names(n, loop[n].reply.reqID, loop[n].reply.call)'
               /\ loop[n].entry = loop[n].reply.call
    <3>1. loop[n].reply \in Reply
      BY <1>0, <2>4 DEF CRTypeOK
    <3>2. PICK a \in Nat, q \in Requests :
            a = loop[n].reply.reqID /\ q = loop[n].reply.call
      BY <3>1 DEF Reply
    <3>3. Names(n, a, q)'
      BY <1>0, <1>2, <2>4, <3>2 DEF Named
    <3> QED
      BY <1>0, <1>4, <2>4, <3>2, <3>3 DEF Named
  <2> QED
    BY <1>4, <2>2, <2>3, <2>4 DEF Named
<1>8. Once'
  <2>1. CASE h = "client"
    <3>1. finished[r] # 1 /\ (loop[Caller[r]] # Idle => loop[Caller[r]].entry # r)
      BY <1>0, <1>1, <2>1, NodeTypes DEF Once, Named, Names, IDAt
    <3>2. \A q \in Requests \ {r} : Forgotten(q) => Forgotten(q)'
      BY <1>5, NodeTypes DEF Forgotten
    <3>3. \A q \in Requests : id["client"][q] # 0 => id'["client"][q] # 0
      BY <1>0, <1>1, <2>1 DEF Register, CRTypeOK, UniqueIDs
    <3> QED
      BY <1>0, <1>4, <3>1, <3>2, <3>3 DEF Once
  <2>2. CASE h = "lb"
    <3>1. \A q \in Requests : Forgotten(q) => Forgotten(q)'
      BY <1>3, <1>5, <2>2, NodeTypes DEF Forgotten
    <3>2. \A q \in Requests : id'["client"][q] = id["client"][q]
      BY <1>0, <2>2 DEF Register, CRTypeOK, Hops
    <3> QED
      BY <1>0, <1>4, <3>1, <3>2 DEF Once
  <2> QED
    BY <2>1, <2>2 DEF Hops
<1> QED
  BY <1>1, <1>6, <1>7, <1>8 DEF CRInv

\* What becomes of a registered call leaves the names as they are.
LEMMA StageKeepsNames ==
  ASSUME CRInv, NEW h \in Hops, NEW r \in Requests, stage[h][r] # "new",
         NEW s \in {"queued", "sent", "over"}, stage' = [stage EXCEPT ![h][r] = s],
         UNCHANGED <<callNumber, id>>
  PROVE  /\ UniqueIDs'
         /\ stage' \in [Hops -> [Requests -> {"new", "registered", "queued", "sent", "over"}]]
<1>1. /\ stage \in [Hops -> [Requests -> {"new", "registered", "queued", "sent", "over"}]]
      /\ UniqueIDs
  BY DEF CRInv, CRTypeOK
<1>2. stage' = [stage EXCEPT ![h] = [stage[h] EXCEPT ![r] = s]]
  BY <1>1
<1>3. \A g \in Hops, q \in Requests : stage'[g][q] = "new" <=> stage[g][q] = "new"
  BY <1>1, <1>2
<1>4. UniqueIDs'
  BY <1>1, <1>3 DEF UniqueIDs
<1> QED
  BY <1>1, <1>2, <1>4

\* A step that at most sends one reply, under its right name.
LEMMA SendStep ==
  ASSUME CRInv, pushFrame, UniqueIDs',
         stage' \in [Hops -> [Requests -> {"new", "registered", "queued", "sent", "over"}]],
         answers' \in [Requests -> Nat],
         \/ UNCHANGED replyCh
         \/ \E n \in Nodes, i \in Nat, r \in Requests : SendReply(n, i, r) /\ Names(n, i, r)
  PROVE  CRInv'
<1>0. CRTypeOK /\ Named /\ Once
  BY DEF CRInv
<1>1. UNCHANGED <<callNumber, id, lastSent, sentTo, pending, loop, finished>>
  BY DEF pushFrame
<1> DEFINE Carried ==
      /\ replyCh' \in [Nodes -> Seq(Reply)]
      /\ \A m \in Nodes : Len(replyCh'[m]) <= ReplyChSize
      /\ \A m \in Nodes : \A k \in 1 .. Len(replyCh'[m]) :
           Names(m, replyCh'[m][k].reqID, replyCh'[m][k].call)
<1>2. Carried
  <2>1. CASE UNCHANGED replyCh
    BY <1>0, <2>1 DEF CRTypeOK, Named
  <2>2. ASSUME NEW n \in Nodes, NEW i \in Nat, NEW r \in Requests,
               SendReply(n, i, r), Names(n, i, r)
        PROVE  Carried
    BY <1>0, <1>1, <2>2, SendingNamed
  <2> QED
    BY <2>1, <2>2
<1>3. CRTypeOK'
  BY <1>0, <1>1, <1>2 DEF CRTypeOK
<1>4. Named'
  BY <1>0, <1>1, <1>2 DEF Named, Names, IDAt
<1>5. Once'
  BY <1>0, <1>1 DEF Once, Forgotten
<1> QED
  BY <1>3, <1>4, <1>5 DEF CRInv

\* Queueing a call, carrying it and answering it keep the invariant.
LEMMA SendingCRInv ==
  ASSUME CRInv, NEW h \in Hops, NEW r \in Requests,
         Push(h, r) \/ Carry(h, r) \/ Answer(r)
  PROVE  CRInv'
<1>0. CRTypeOK /\ UniqueIDs
  BY DEF CRInv
<1>1. CASE Push(h, r) \/ Redeliver(h, r)
  <2>1. PICK s \in {"sent", "queued"} : stage' = [stage EXCEPT ![h][r] = s]
    BY <1>1 DEF Push, Redeliver
  <2>2. stage[h][r] # "new" /\ UNCHANGED <<replyCh, answers>> /\ pushFrame
    BY <1>1 DEF Push, Redeliver
  <2>3. UNCHANGED <<callNumber, id>>
    BY <2>2 DEF pushFrame
  <2>4. /\ UniqueIDs'
        /\ stage' \in [Hops -> [Requests -> {"new", "registered", "queued", "sent", "over"}]]
    BY <2>1, <2>2, <2>3, StageKeepsNames
  <2> QED
    BY <1>0, <2>2, <2>4, SendStep DEF CRTypeOK
<1>2. CASE GiveUp(h, r)
  <2>1. /\ stage[h][r] = "queued" /\ stage' = [stage EXCEPT ![h][r] = "over"]
        /\ SendReply(NodeOf(h, r), id[h][r], r) /\ UNCHANGED answers /\ pushFrame
    BY <1>2 DEF GiveUp
  <2>2. UNCHANGED <<callNumber, id>>
    BY <2>1 DEF pushFrame
  <2>3. /\ UniqueIDs'
        /\ stage' \in [Hops -> [Requests -> {"new", "registered", "queued", "sent", "over"}]]
    BY <2>1, <2>2, StageKeepsNames
  <2>4. id[h][r] \in Nat /\ id[h][r] # 0
    BY <1>0, <2>1 DEF CRTypeOK, UniqueIDs
  <2>5. NodeOf(h, r) \in Nodes /\ Names(NodeOf(h, r), id[h][r], r)
    BY <2>4, NodeTypes DEF Names, NodeOf
  <2> QED
    BY <1>0, <2>1, <2>3, <2>4, <2>5, SendStep DEF CRTypeOK
<1>3. CASE Answer(r)
  <2>1. /\ stage["lb"][r] = "sent" /\ answers' = [answers EXCEPT ![r] = @ + 1]
        /\ SendReply(LB, id["lb"][r], r) /\ UNCHANGED stage /\ pushFrame
    BY <1>3 DEF Answer
  <2>2. UniqueIDs'
    BY <1>0, <2>1 DEF UniqueIDs, pushFrame
  <2>3. id["lb"][r] \in Nat /\ Names(LB, id["lb"][r], r) /\ LB \in Nodes
    BY <1>0, <2>1 DEF CRTypeOK, UniqueIDs, Names, IDAt, Nodes, Hops
  <2>4. answers' \in [Requests -> Nat]
    BY <1>0, <2>1 DEF CRTypeOK
  <2> QED
    BY <1>0, <2>1, <2>2, <2>3, <2>4, SendStep DEF CRTypeOK
<1> QED
  BY <1>1, <1>2, <1>3 DEF Carry

-----------------------------------------------------------------------------
(* The reply loops.                                                         *)

\* A reply loop is idle, or holds a reply and the entry that it found.
LEMMA LoopTypes ==
  ASSUME CRTypeOK, NEW n \in Nodes
  PROVE  /\ loop[n] = Idle \/ loop[n] \in Busy
         /\ loop[n] = Idle <=> loop[n].pc = "idle"
         /\ loop[n] \in Busy => /\ loop[n].reply \in Reply /\ loop[n].entry \in Requests
                               /\ loop[n].reply.reqID \in Nat
                               /\ loop[n].reply.call \in Requests
                               /\ loop[n].pc \in {"found", "callback"}
<1>1. loop[n] = Idle \/ loop[n] \in Busy
  BY DEF CRTypeOK, Busy
<1>2. loop[n] = Idle <=> loop[n].pc = "idle"
  BY <1>1 DEF Idle, Busy
<1> QED
  BY <1>1, <1>2 DEF Busy, Reply

\* The reqID and the node tell the request.
LEMMA NamesAgree ==
  ASSUME CRTypeOK, UniqueIDs, NEW n \in Nodes, NEW i \in Nat,
         NEW r \in Requests, NEW q \in Requests, Names(n, i, r), Names(n, i, q)
  PROVE  r = q
BY DEF Names, IDAt, UniqueIDs, Hops

\* A reply finds the entry of its own request, or is dropped.
LEMMA LookupCRInv ==
  ASSUME CRInv, NEW n \in Nodes, Lookup(n)  PROVE CRInv'
<1>0. CRTypeOK /\ UniqueIDs /\ Named /\ Once
  BY DEF CRInv
<1>1. /\ loop[n] = Idle /\ replyCh[n] # <<>> /\ replyCh[n] \in Seq(Reply)
      /\ replyCh' = [replyCh EXCEPT ![n] = Tail(replyCh[n])]
      /\ UNCHANGED <<pending, finished, callNumber, id, stage, lastSent, sentTo, answers>>
  BY <1>0, LoopTypes DEF Lookup, CRTypeOK, loopFrame, sendVars
<1> DEFINE reply == Head(replyCh[n])
<1>2. /\ reply \in Reply /\ reply = replyCh[n][1] /\ Len(replyCh[n]) \in Nat \ {0}
      /\ Tail(replyCh[n]) \in Seq(Reply)
      /\ Len(Tail(replyCh[n])) = Len(replyCh[n]) - 1
      /\ \A k \in 1 .. Len(Tail(replyCh[n])) : Tail(replyCh[n])[k] = replyCh[n][k + 1]
  BY <1>1
<1>3. reply.reqID \in Nat /\ reply.call \in Requests /\ Names(n, reply.reqID, reply.call)
  BY <1>0, <1>2 DEF Named, Reply
<1>4. /\ replyCh'[n] = Tail(replyCh[n])
      /\ \A m \in Nodes \ {n} : replyCh'[m] = replyCh[m]
  BY <1>0, <1>1 DEF CRTypeOK
<1>5. /\ replyCh' \in [Nodes -> Seq(Reply)]
      /\ \A m \in Nodes : Len(replyCh'[m]) <= ReplyChSize
  <2>1. replyCh' \in [Nodes -> Seq(Reply)]
    BY <1>0, <1>1, <1>2 DEF CRTypeOK
  <2>2. Len(replyCh'[n]) <= ReplyChSize
    BY <1>0, <1>2, <1>4, CallReplyAssumption DEF CRTypeOK
  <2> QED
    BY <1>0, <1>4, <2>1, <2>2 DEF CRTypeOK
<1>6. \A m \in Nodes : \A k \in 1 .. Len(replyCh'[m]) :
        Names(m, replyCh'[m][k].reqID, replyCh'[m][k].call)
  <2> SUFFICES ASSUME NEW m \in Nodes, NEW k \in 1 .. Len(replyCh'[m])
               PROVE  Names(m, replyCh'[m][k].reqID, replyCh'[m][k].call)
    OBVIOUS
  <2>1. CASE m = n
    <3>0. replyCh'[m] = Tail(replyCh[n])
      BY <1>4, <2>1
    <3>1. k \in 1 .. Len(Tail(replyCh[n])) /\ k \in Nat
      BY <3>0
    <3>2. k + 1 \in 1 .. Len(replyCh[n])
      BY <1>2, <3>1
    <3>3. replyCh'[m][k] = replyCh[n][k + 1]
      BY <1>2, <3>0, <3>1
    <3> QED
      BY <1>0, <2>1, <3>2, <3>3 DEF Named
  <2>2. CASE m # n
    BY <1>0, <1>4, <2>2 DEF Named
  <2> QED
    BY <2>1, <2>2
<1>7. CASE UNCHANGED loop
  <2>1. CRTypeOK'
    BY <1>0, <1>1, <1>5, <1>7 DEF CRTypeOK
  <2>2. UniqueIDs' /\ Once'
    BY <1>0, <1>1, <1>7 DEF UniqueIDs, Once, Forgotten
  <2>3. Named'
    BY <1>0, <1>1, <1>6, <1>7 DEF Named, Names, IDAt
  <2> QED
    BY <2>1, <2>2, <2>3 DEF CRInv
<1>8. ASSUME NEW r \in Requests, <<reply.reqID, r>> \in pending[n],
             loop' = [loop EXCEPT ![n] = [pc |-> "found", reply |-> reply, entry |-> r]]
      PROVE  CRInv'
  <2>1. reply.call = r
    <3>1. Names(n, reply.reqID, r)
      BY <1>0, <1>8 DEF Named
    <3> QED
      BY <1>0, <1>3, <3>1, NamesAgree
  <2> DEFINE x == [pc |-> "found", reply |-> reply, entry |-> r]
  <2>2. /\ x \in Busy /\ x # Idle
        /\ x.pc = "found" /\ x.reply = reply /\ x.entry = r
    <3>1. x \in Busy /\ x.pc = "found" /\ x.reply = reply /\ x.entry = r
      BY <1>2 DEF Busy
    <3> QED
      BY <3>1 DEF Idle
  <2>3. /\ loop' = [loop EXCEPT ![n] = x] /\ loop'[n] = x
        /\ \A m \in Nodes \ {n} : loop'[m] = loop[m]
    BY <1>0, <1>8 DEF CRTypeOK
  <2> HIDE DEF x
  <2>4. loop' \in [Nodes -> {Idle} \cup Busy]
    BY <1>0, <2>2, <2>3 DEF CRTypeOK, Busy
  <2>5. CRTypeOK'
    BY <1>0, <1>1, <1>5, <2>4 DEF CRTypeOK, Busy
  <2>6. UniqueIDs'
    BY <1>0, <1>1 DEF UniqueIDs
  <2>7. Named'
    <3>1. ASSUME NEW m \in Nodes, loop'[m] # Idle
          PROVE  /\ Names(m, loop'[m].reply.reqID, loop'[m].reply.call)
                 /\ loop'[m].entry = loop'[m].reply.call
      <4>1. CASE m = n
        BY <1>3, <2>1, <2>2, <2>3, <4>1
      <4>2. CASE m # n
        BY <1>0, <2>3, <3>1, <4>2 DEF Named
      <4> QED
        BY <4>1, <4>2
    <3> QED
      BY <1>0, <1>1, <1>6, <3>1 DEF Named, Names, IDAt
  <2>8. Once'
    <3>1. \A q \in Requests : Forgotten(q)' <=> Forgotten(q)
      BY <1>1 DEF Forgotten
    <3>2. ~(n = Caller[r] /\ Forgotten(r))
      BY <1>8 DEF Forgotten
    <3>3. ASSUME NEW q \in Requests
          PROVE  /\ finished[q] = 1 /\ loop'[Caller[q]] # Idle => loop'[Caller[q]].entry # q
                 /\ loop'[Caller[q]] # Idle /\ loop'[Caller[q]].entry = q
                      /\ loop'[Caller[q]].pc = "callback" => Forgotten(q)
      <4>1. CASE Caller[q] = n
        BY <1>0, <2>2, <2>3, <3>2, <4>1 DEF Once
      <4>2. CASE Caller[q] # n
        BY <1>0, <2>3, <4>2, CallerTypes DEF Once
      <4> QED
        BY <4>1, <4>2
    <3> QED
      BY <1>0, <1>1, <3>1, <3>3 DEF Once
  <2> QED
    BY <2>5, <2>6, <2>7, <2>8 DEF CRInv
<1> QED
  BY <1>7, <1>8 DEF Lookup

\* Deleting the entry leaves the request to the callback alone.
LEMMA DeleteCRInv ==
  ASSUME CRInv, NEW n \in Nodes, Delete(n)  PROVE CRInv'
<1>0. CRTypeOK /\ UniqueIDs /\ Named /\ Once
  BY DEF CRInv
<1>1. /\ loop[n].pc = "found"
      /\ pending' = [pending EXCEPT ![n] = {e \in pending[n] : e[1] # loop[n].reply.reqID}]
      /\ loop' = [loop EXCEPT ![n] = [loop[n] EXCEPT !.pc = "callback"]]
      /\ UNCHANGED <<replyCh, finished, callNumber, id, stage, lastSent, sentTo, answers>>
  BY <1>0 DEF Delete, CRTypeOK, loopFrame, sendVars
<1> DEFINE x == [loop[n] EXCEPT !.pc = "callback"]
<1>2. /\ loop[n] # Idle /\ loop[n] \in Busy
      /\ loop[n].reply.reqID \in Nat /\ loop[n].entry \in Requests
  BY <1>0, <1>1, LoopTypes
<1>3. x \in Busy /\ x.pc = "callback" /\ x.reply = loop[n].reply /\ x.entry = loop[n].entry
  BY <1>2 DEF Busy
<1>4. x # Idle
  BY <1>3 DEF Idle
<1>5. /\ loop'[n] = x /\ \A m \in Nodes \ {n} : loop'[m] = loop[m]
      /\ pending'[n] = {e \in pending[n] : e[1] # loop[n].reply.reqID}
      /\ \A m \in Nodes \ {n} : pending'[m] = pending[m]
  BY <1>0, <1>1 DEF CRTypeOK
<1>6. CRTypeOK'
  <2>1. loop' \in [Nodes -> {Idle} \cup Busy]
    BY <1>0, <1>1, <1>3 DEF CRTypeOK, Busy
  <2>2. pending' \in [Nodes -> SUBSET (Nat \X Requests)]
    BY <1>0, <1>1 DEF CRTypeOK
  <2> QED
    BY <1>0, <1>1, <2>1, <2>2 DEF CRTypeOK, Busy
<1> HIDE DEF x
<1>7. \A m \in Nodes : \A e \in pending'[m] : e \in pending[m]
  BY <1>5
<1>8. UniqueIDs'
  BY <1>0, <1>1 DEF UniqueIDs
<1>9. Named'
  <2>1. ASSUME NEW m \in Nodes, loop'[m] # Idle
        PROVE  /\ Names(m, loop'[m].reply.reqID, loop'[m].reply.call)
               /\ loop'[m].entry = loop'[m].reply.call
    <3>1. CASE m = n
      BY <1>0, <1>2, <1>3, <1>5, <3>1 DEF Named
    <3>2. CASE m # n
      BY <1>0, <1>5, <2>1, <3>2 DEF Named
    <3> QED
      BY <3>1, <3>2
  <2> QED
    BY <1>0, <1>1, <1>7, <2>1 DEF Named, Names, IDAt
<1>10. Once'
  <2>1. \A q \in Requests : Forgotten(q) => Forgotten(q)'
    BY <1>7, CallerTypes DEF Forgotten
  <2>2. ASSUME NEW q \in Requests, q = loop[n].entry, Caller[q] = n  PROVE Forgotten(q)'
    <3>1. ASSUME NEW e \in pending'[n], e[2] = q  PROVE FALSE
      <4>1. e \in pending[n] /\ e[1] # loop[n].reply.reqID
        BY <1>5
      <4>2. Names(n, e[1], q) /\ Names(n, loop[n].reply.reqID, q)
        BY <1>0, <1>2, <2>2, <3>1, <4>1 DEF Named
      <4> QED
        BY <4>1, <4>2 DEF Names
    <3> QED
      BY <2>2, <3>1 DEF Forgotten
  <2>3. ASSUME NEW q \in Requests
        PROVE  /\ finished[q] = 1 /\ loop'[Caller[q]] # Idle => loop'[Caller[q]].entry # q
               /\ loop'[Caller[q]] # Idle /\ loop'[Caller[q]].entry = q
                    /\ loop'[Caller[q]].pc = "callback" => Forgotten(q)'
    <3>1. CASE Caller[q] = n
      BY <1>0, <1>2, <1>3, <1>5, <2>2, <3>1 DEF Once
    <3>2. CASE Caller[q] # n
      BY <1>0, <1>5, <2>1, <3>2, CallerTypes DEF Once
    <3> QED
      BY <3>1, <3>2
  <2> QED
    BY <1>0, <1>1, <2>1, <2>3 DEF Once
<1> QED
  BY <1>6, <1>8, <1>9, <1>10 DEF CRInv

\* The client's callback finishes a request that was not finished.
LEMMA ClientCallbackCRInv ==
  ASSUME CRInv, NEW n \in Nodes, ClientCallback(n)  PROVE CRInv'
<1>0. CRTypeOK /\ UniqueIDs /\ Named /\ Once
  BY DEF CRInv
<1> DEFINE r == loop[n].entry
<1>1. /\ n # LB /\ loop[n].pc = "callback" /\ loop[n] # Idle
      /\ r \in Requests /\ r = loop[n].reply.call /\ loop[n].reply.reqID \in Nat
      /\ finished' = [finished EXCEPT ![r] = @ + 1]
      /\ loop' = [loop EXCEPT ![n] = Idle]
      /\ UNCHANGED <<pending, replyCh, callNumber, id, stage, lastSent, sentTo, answers>>
  BY <1>0, LoopTypes DEF ClientCallback, loopFrame, sendVars, Named
<1>2. n = Caller[r] /\ id["client"][r] # 0
  BY <1>0, <1>1 DEF Named, Names, IDAt
<1>3. Forgotten(r) /\ finished[r] # 1
  BY <1>0, <1>1, <1>2 DEF Once
<1>4. /\ finished' \in [Requests -> Nat] /\ finished'[r] = 1
      /\ \A q \in Requests \ {r} : finished'[q] = finished[q]
  BY <1>0, <1>1, <1>3 DEF CRTypeOK, Once
<1>5. /\ loop'[n] = Idle /\ \A m \in Nodes \ {n} : loop'[m] = loop[m]
      /\ loop' \in [Nodes -> {Idle} \cup Busy]
  BY <1>0, <1>1 DEF CRTypeOK, Busy
<1>6. CRTypeOK'
  BY <1>0, <1>1, <1>4, <1>5 DEF CRTypeOK, Busy
<1>7. UniqueIDs'
  BY <1>0, <1>1 DEF UniqueIDs
<1>8. Named'
  <2>1. \A m \in Nodes : loop'[m] # Idle => loop'[m] = loop[m] /\ loop[m] # Idle
    BY <1>5
  <2> QED
    BY <1>0, <1>1, <2>1 DEF Named, Names, IDAt
<1>9. Once'
  <2>1. \A q \in Requests : Forgotten(q)' <=> Forgotten(q)
    BY <1>1 DEF Forgotten
  <2>2. \A m \in Nodes : loop'[m] # Idle => m # n /\ loop'[m] = loop[m] /\ loop[m] # Idle
    BY <1>5
  <2>3. ASSUME NEW q \in Requests
        PROVE  /\ finished'[q] <= 1
               /\ finished'[q] = 1 => /\ id["client"][q] # 0 /\ Forgotten(q)
                                      /\ loop'[Caller[q]] # Idle => loop'[Caller[q]].entry # q
    <3>1. CASE q = r
      BY <1>2, <1>3, <1>4, <1>5, <3>1
    <3>2. CASE q # r
      BY <1>0, <1>4, <2>2, <3>2, CallerTypes DEF Once
    <3> QED
      BY <3>1, <3>2
  <2>4. ASSUME NEW q \in Requests, loop'[Caller[q]] # Idle, loop'[Caller[q]].entry = q,
               loop'[Caller[q]].pc = "callback"
        PROVE  Forgotten(q)'
    BY <1>0, <2>1, <2>2, <2>4, CallerTypes DEF Once
  <2>5. \A q \in Requests :
          /\ finished'[q] <= 1
          /\ finished'[q] = 1 => /\ id'["client"][q] # 0 /\ Forgotten(q)'
                                 /\ loop'[Caller[q]] # Idle => loop'[Caller[q]].entry # q
    BY <1>1, <2>1, <2>3
  <2> QED
    BY <2>4, <2>5 DEF Once
<1> QED
  BY <1>6, <1>7, <1>8, <1>9 DEF CRInv

\* The balancer sends the reply on under the client's own name for it.
LEMMA LBCallbackCRInv == ASSUME CRInv, LBCallback PROVE CRInv'
<1>0. CRTypeOK /\ UniqueIDs /\ Named /\ Once
  BY DEF CRInv
<1> DEFINE r == loop[LB].entry
<1>1. /\ LB \in Nodes /\ loop[LB] # Idle /\ r \in Requests /\ r = loop[LB].reply.call
      /\ SendReply(Caller[r], id["client"][r], r)
      /\ loop' = [loop EXCEPT ![LB] = Idle]
      /\ UNCHANGED <<pending, finished, callNumber, id, stage, lastSent, sentTo, answers>>
  <2>1. LB \in Nodes /\ loop[LB].pc = "callback"
    BY DEF LBCallback, Nodes
  <2>2. loop[LB] # Idle /\ loop[LB].entry \in Requests
    BY <1>0, <2>1, LoopTypes
  <2>3. loop[LB].entry = loop[LB].reply.call
    BY <1>0, <2>1, <2>2 DEF Named
  <2> QED
    BY <2>1, <2>2, <2>3 DEF LBCallback, loopFrame, sendVars
<1>2. Caller[r] \in Nodes /\ id["client"][r] \in Nat /\ Names(Caller[r], id["client"][r], r)
  <2>1. id["lb"][r] # 0
    BY <1>0, <1>1 DEF Named, Names, IDAt
  <2>2. id["client"][r] # 0
    BY <1>0, <1>1, <2>1 DEF UniqueIDs
  <2> QED
    BY <1>0, <1>1, <2>2, CallerTypes DEF Names, IDAt, CRTypeOK, Hops
<1>3. /\ replyCh' \in [Nodes -> Seq(Reply)]
      /\ \A m \in Nodes : Len(replyCh'[m]) <= ReplyChSize
      /\ \A m \in Nodes : \A k \in 1 .. Len(replyCh'[m]) :
           Names(m, replyCh'[m][k].reqID, replyCh'[m][k].call)
  <2> HIDE DEF r
  <2> QED
    BY <1>0, <1>1, <1>2, SendingNamed
<1>4. /\ \A m \in Nodes : loop'[m] # Idle => loop'[m] = loop[m] /\ loop[m] # Idle
      /\ loop' \in [Nodes -> {Idle} \cup Busy]
  BY <1>0, <1>1 DEF CRTypeOK, Busy
<1>5. CRTypeOK'
  BY <1>0, <1>1, <1>3, <1>4 DEF CRTypeOK, Busy
<1>6. UniqueIDs'
  BY <1>0, <1>1 DEF UniqueIDs
<1>7. Named'
  <2>1. UNCHANGED <<id, pending>>
    BY <1>1
  <2> HIDE DEF r
  <2> QED
    BY <1>0, <1>3, <1>4, <2>1 DEF Named, Names, IDAt
<1>8. Once'
  <2>1. \A q \in Requests : Forgotten(q)' <=> Forgotten(q)
    BY <1>1 DEF Forgotten
  <2> QED
    BY <1>0, <1>1, <1>4, <2>1, CallerTypes DEF Once
<1> QED
  BY <1>5, <1>6, <1>7, <1>8 DEF CRInv

\* A cleanup only forgets entries.
LEMMA CleanCRInv ==
  ASSUME CRInv, NEW n \in Nodes, Clean(n)  PROVE CRInv'
<1>0. CRTypeOK /\ UniqueIDs /\ Named /\ Once
  BY DEF CRInv
<1>1. /\ pending' = [pending EXCEPT ![n] = {}]
      /\ UNCHANGED <<replyCh, loop, finished, callNumber, id, stage, lastSent, sentTo, answers>>
  BY DEF Clean, replyVars, loopFrame, sendVars
<1>2. \A m \in Nodes : \A e \in pending'[m] : e \in pending[m]
  BY <1>0, <1>1 DEF CRTypeOK
<1>3. CRTypeOK'
  BY <1>0, <1>1 DEF CRTypeOK
<1>4. UniqueIDs' /\ Named'
  BY <1>0, <1>1, <1>2 DEF UniqueIDs, Named, Names, IDAt
<1>5. Once'
  <2>1. \A q \in Requests : Forgotten(q) => Forgotten(q)'
    BY <1>2, CallerTypes DEF Forgotten
  <2> QED
    BY <1>0, <1>1, <2>1 DEF Once
<1> QED
  BY <1>3, <1>4, <1>5 DEF CRInv

-----------------------------------------------------------------------------

\* Each step preserves the invariant.
LEMMA NextCRInv == CRInv /\ [CRNext]_crvars => CRInv'
<1> SUFFICES ASSUME CRInv, [CRNext]_crvars PROVE CRInv'
  OBVIOUS
<1>1. CASE \E h \in Hops, r \in Requests : Register(h, r) \/ Push(h, r) \/ Carry(h, r)
  BY <1>1, RegisterCRInv, SendingCRInv
<1>2. CASE \E r \in Requests : Answer(r)
  BY <1>2, SendingCRInv DEF Hops
<1>3. CASE \E n \in Nodes : ReplyLoop(n) \/ Clean(n)
  BY <1>3, LookupCRInv, DeleteCRInv, ClientCallbackCRInv, LBCallbackCRInv, CleanCRInv
  DEF ReplyLoop
<1>4. CASE UNCHANGED crvars
  BY <1>4 DEF CRInv, CRTypeOK, UniqueIDs, Named, Names, IDAt, Once, Forgotten,
              crvars, sendVars, replyVars
<1> QED
  BY <1>1, <1>2, <1>3, <1>4 DEF CRNext

\* The inductive invariant of replies and balancer.
THEOREM CallReplyInvariance == CRSpec => []CRInv
BY InitCRInv, NextCRInv, PTL DEF CRSpec

\* The variables keep their types, and no channel of replies holds more than
\* its size.
THEOREM CallReplyTypeCorrect == CRSpec => []CRTypeOK
<1>1. CRInv => CRTypeOK
  BY DEF CRInv
<1> QED
  BY <1>1, CallReplyInvariance, PTL

\* The reply loops run the callback of a request of a client once at most,
\* however many replies, errors and cleanups there are.
THEOREM CallbackRunsOnce == CRSpec => []CallbackOnce
<1>1. CRInv => CallbackOnce
  BY DEF CRInv, Once, CallbackOnce
<1> QED
  BY <1>1, CallReplyInvariance, PTL

\* The callback a reply finds is that of the call it is for, on both hops.
THEOREM RepliesMatch == CRSpec => []RightReply
<1>1. CRInv => RightReply
  <2> SUFFICES ASSUME CRInv, NEW n \in Nodes, loop[n].pc # "idle"
               PROVE  loop[n].entry = loop[n].reply.call
    BY DEF RightReply
  <2>1. loop[n] # Idle
    BY LoopTypes DEF CRInv
  <2> QED
    BY <2>1 DEF CRInv, Named
<1> QED
  BY <1>1, CallReplyInvariance, PTL

-----------------------------------------------------------------------------
(* Round trips: nothing is on its way back, or back, without a cause.       *)

InChannels(r) == \E n \in Nodes : \E k \in 1 .. Len(replyCh[n]) : replyCh[n][k].call = r
InLoops(r) == \E n \in Nodes : loop[n] # Idle /\ loop[n].reply.call = r

Caused ==
  \A r \in Requests : InChannels(r) \/ InLoops(r) \/ finished[r] > 0 => Decided(r)

\* Only the reply that is sent is new in the channels.
LEMMA ReplySent ==
  ASSUME CRTypeOK, NEW n \in Nodes, NEW i \in Nat, NEW r \in Requests, SendReply(n, i, r),
         NEW q \in Requests, InChannels(q)'
  PROVE  q = r \/ InChannels(q)
<1> DEFINE x == [reqID |-> i, call |-> r]
<1>1. PICK m \in Nodes : \E k \in 1 .. Len(replyCh'[m]) : replyCh'[m][k].call = q
  BY DEF InChannels
<1>2. /\ replyCh[n] \in Seq(Reply) /\ x \in Reply /\ x.call = r
      /\ replyCh'[n] = Append(replyCh[n], x)
      /\ \A l \in Nodes \ {n} : replyCh'[l] = replyCh[l]
  BY DEF CRTypeOK, SendReply, Reply
<1> HIDE DEF x
<1>3. \A l \in 1 .. Len(Append(replyCh[n], x)) :
        \/ Append(replyCh[n], x)[l] = x
        \/ l \in 1 .. Len(replyCh[n]) /\ Append(replyCh[n], x)[l] = replyCh[n][l]
  BY <1>2
<1>4. CASE m = n
  BY <1>1, <1>2, <1>3, <1>4 DEF InChannels
<1>5. CASE m # n
  BY <1>1, <1>2, <1>5 DEF InChannels
<1> QED
  BY <1>4, <1>5

\* A reply that is received was in a channel.
LEMMA ReplyReceived ==
  ASSUME CRTypeOK, NEW n \in Nodes, replyCh[n] # <<>>,
         replyCh' = [replyCh EXCEPT ![n] = Tail(@)]
  PROVE  /\ Head(replyCh[n]) \in Reply /\ InChannels(Head(replyCh[n]).call)
         /\ \A q \in Requests : InChannels(q)' => InChannels(q)
<1>1. /\ replyCh[n] \in Seq(Reply) /\ replyCh'[n] = Tail(replyCh[n])
      /\ \A l \in Nodes \ {n} : replyCh'[l] = replyCh[l]
  BY DEF CRTypeOK
<1>2. /\ Head(replyCh[n]) = replyCh[n][1] /\ 1 \in 1 .. Len(replyCh[n])
      /\ Head(replyCh[n]) \in Reply
      /\ \A k \in 1 .. Len(Tail(replyCh[n])) :
           k + 1 \in 1 .. Len(replyCh[n]) /\ Tail(replyCh[n])[k] = replyCh[n][k + 1]
  BY <1>1
<1>3. ASSUME NEW q \in Requests, InChannels(q)' PROVE InChannels(q)
  <2>1. PICK m \in Nodes : \E k \in 1 .. Len(replyCh'[m]) : replyCh'[m][k].call = q
    BY <1>3 DEF InChannels
  <2>2. CASE m = n
    BY <1>1, <1>2, <2>1, <2>2 DEF InChannels
  <2>3. CASE m # n
    BY <1>1, <2>1, <2>3 DEF InChannels
  <2> QED
    BY <2>2, <2>3
<1> QED
  BY <1>2, <1>3 DEF InChannels

\* A call that is over stays over, and no answer is taken back.
LEMMA DecidedStays ==
  CRTypeOK /\ [CRNext]_crvars => \A r \in Requests : Decided(r) => Decided(r)'
<1> SUFFICES ASSUME CRTypeOK, [CRNext]_crvars, NEW q \in Requests, Decided(q)
             PROVE  Decided(q)'
  OBVIOUS
<1>0. /\ stage \in [Hops -> [Requests -> {"new", "registered", "queued", "sent", "over"}]]
      /\ answers \in [Requests -> Nat]
  BY DEF CRTypeOK
<1>1. ASSUME NEW h \in Hops, NEW r \in Requests, stage[h][r] # "over", UNCHANGED answers,
             NEW x, stage' = [stage EXCEPT ![h][r] = x]
      PROVE  Decided(q)'
  BY <1>0, <1>1 DEF Decided
<1>2. CASE \E h \in Hops, r \in Requests : Register(h, r) \/ Push(h, r) \/ Carry(h, r)
  BY <1>1, <1>2 DEF Register, Push, Carry, Redeliver, GiveUp
<1>3. CASE \E r \in Requests : Answer(r)
  BY <1>0, <1>3 DEF Answer, Decided
<1>4. CASE (\E n \in Nodes : ReplyLoop(n) \/ Clean(n)) \/ UNCHANGED crvars
  BY <1>4 DEF ReplyLoop, Lookup, Delete, ClientCallback, LBCallback, Clean, loopFrame,
     sendVars, crvars, Decided
<1> QED
  BY <1>2, <1>3, <1>4 DEF CRNext

\* A reply is sent about a request that is decided, and passed on as it is.
LEMMA CausedStep == CRInv /\ Caused /\ [CRNext]_crvars => Caused'
<1> SUFFICES ASSUME CRInv, Caused, [CRNext]_crvars PROVE Caused'
  OBVIOUS
<1>0. CRTypeOK /\ Named
  BY DEF CRInv
<1>d. \A r \in Requests : Decided(r) => Decided(r)'
  BY <1>0, DecidedStays
\* A step that sends no reply.
<1>1. ASSUME UNCHANGED <<replyCh, loop, finished>> PROVE Caused'
  BY <1>1, <1>d DEF Caused, InChannels, InLoops
\* A step that sends one about a request that is decided.
<1>2. ASSUME NEW n \in Nodes, NEW i \in Nat, NEW r \in Requests, SendReply(n, i, r),
             Decided(r)', UNCHANGED finished, \A q \in Requests : InLoops(q)' => InLoops(q)
      PROVE  Caused'
  BY <1>0, <1>2, <1>d, ReplySent DEF Caused
\* A step that takes none from the channels into the loops.
<1>3. ASSUME UNCHANGED <<replyCh, finished>>, \A q \in Requests : InLoops(q)' => InLoops(q)
      PROVE  Caused'
  BY <1>3, <1>d DEF Caused, InChannels
<1>4. ASSUME NEW h \in Hops, NEW r \in Requests, Register(h, r) \/ Push(h, r) \/ Redeliver(h, r)
      PROVE  Caused'
  BY <1>1, <1>4 DEF Register, Push, Redeliver, replyVars, pushFrame
<1>5. ASSUME NEW h \in Hops, NEW r \in Requests, GiveUp(h, r) PROVE Caused'
  <2>1. /\ SendReply(NodeOf(h, r), id[h][r], r) /\ UNCHANGED <<loop, finished>>
        /\ stage' = [stage EXCEPT ![h][r] = "over"]
    BY <1>5 DEF GiveUp, pushFrame
  <2>2. NodeOf(h, r) \in Nodes /\ id[h][r] \in Nat /\ Decided(r)'
    BY <1>0, <2>1, NodeTypes DEF CRTypeOK, Decided
  <2>3. \A q \in Requests : InLoops(q)' => InLoops(q)
    BY <2>1 DEF InLoops
  <2> QED
    BY <1>2, <2>1, <2>2, <2>3
<1>6. ASSUME NEW r \in Requests, Answer(r) PROVE Caused'
  <2>1. /\ SendReply(LB, id["lb"][r], r) /\ UNCHANGED <<loop, finished>>
        /\ answers' = [answers EXCEPT ![r] = @ + 1]
    BY <1>6 DEF Answer, pushFrame
  <2>2. LB \in Nodes /\ id["lb"][r] \in Nat /\ Decided(r)'
    BY <1>0, <2>1 DEF CRTypeOK, Decided, Nodes, Hops
  <2>3. \A q \in Requests : InLoops(q)' => InLoops(q)
    BY <2>1 DEF InLoops
  <2> QED
    BY <1>2, <2>1, <2>2, <2>3
<1>7. ASSUME NEW n \in Nodes, Lookup(n) PROVE Caused'
  <2>1. /\ replyCh[n] # <<>> /\ replyCh' = [replyCh EXCEPT ![n] = Tail(@)]
        /\ \/ UNCHANGED loop
           \/ \E r \in Requests :
                loop' = [loop EXCEPT ![n] = [pc |-> "found", reply |-> Head(replyCh[n]),
                                             entry |-> r]]
        /\ UNCHANGED finished
    BY <1>7 DEF Lookup
  <2>2. \A q \in Requests : InLoops(q)' => InLoops(q) \/ q = Head(replyCh[n]).call
    <3>1. CASE UNCHANGED loop
      BY <3>1 DEF InLoops
    <3>2. ASSUME NEW r \in Requests, NEW x, x = [pc |-> "found", reply |-> Head(replyCh[n]),
                                                entry |-> r], loop' = [loop EXCEPT ![n] = x]
          PROVE  \A q \in Requests : InLoops(q)' => InLoops(q) \/ q = Head(replyCh[n]).call
      <4>1. /\ loop'[n] = x /\ x.reply = Head(replyCh[n])
            /\ \A m \in Nodes \ {n} : loop'[m] = loop[m]
        BY <1>0, <3>2 DEF CRTypeOK
      <4> QED
        BY <4>1 DEF InLoops
    <3> QED
      BY <2>1, <3>1, <3>2
  <2>3. InChannels(Head(replyCh[n]).call) /\ \A q \in Requests : InChannels(q)' => InChannels(q)
    BY <1>0, <2>1, ReplyReceived
  <2> QED
    BY <1>d, <2>1, <2>2, <2>3 DEF Caused
<1>8. ASSUME NEW n \in Nodes, Delete(n) PROVE Caused'
  <2>1. /\ loop[n].pc = "found" /\ UNCHANGED <<replyCh, finished>>
        /\ loop' = [loop EXCEPT ![n] = [loop[n] EXCEPT !.pc = "callback"]]
    BY <1>0, <1>8 DEF Delete, CRTypeOK
  <2>2. loop[n] # Idle /\ loop[n] \in Busy
    BY <1>0, <2>1, LoopTypes
  <2>3. [loop[n] EXCEPT !.pc = "callback"].reply = loop[n].reply
    BY <2>2 DEF Busy
  <2>4. \A q \in Requests : InLoops(q)' => InLoops(q)
    BY <1>0, <2>1, <2>2, <2>3 DEF InLoops, CRTypeOK
  <2> QED
    BY <1>3, <2>1, <2>4
<1>9. ASSUME NEW n \in Nodes, ClientCallback(n) PROVE Caused'
  <2> DEFINE r == loop[n].entry
  <2>1. /\ loop[n].pc = "callback" /\ loop' = [loop EXCEPT ![n] = Idle]
        /\ finished' = [finished EXCEPT ![r] = @ + 1] /\ UNCHANGED replyCh
    BY <1>9 DEF ClientCallback
  <2>2. loop[n] # Idle /\ r = loop[n].reply.call /\ r \in Requests
    BY <1>0, <2>1, LoopTypes DEF Named
  <2>3. \A q \in Requests : InLoops(q)' => InLoops(q)
    BY <1>0, <2>1 DEF InLoops, CRTypeOK
  <2>4. InLoops(r)
    BY <2>2 DEF InLoops
  <2>5. \A q \in Requests : finished'[q] > 0 => finished[q] > 0 \/ q = r
    BY <1>0, <2>1, <2>2 DEF CRTypeOK
  <2> HIDE DEF r
  <2> QED
    BY <1>d, <2>1, <2>3, <2>4, <2>5 DEF Caused, InChannels
<1>10. ASSUME LBCallback PROVE Caused'
  <2>1. /\ loop[LB].pc = "callback" /\ LB \in Nodes
        /\ SendReply(Caller[loop[LB].entry], id["client"][loop[LB].entry],
                     loop[LB].reply.call)
        /\ loop' = [loop EXCEPT ![LB] = Idle] /\ UNCHANGED finished
    BY <1>10 DEF LBCallback, Nodes
  <2>2. PICK r \in Requests :
          loop[LB] # Idle /\ r = loop[LB].entry /\ r = loop[LB].reply.call
    BY <1>0, <2>1, LoopTypes DEF Named
  <2>3. \A q \in Requests : InLoops(q)' => InLoops(q)
    BY <1>0, <2>1 DEF InLoops, CRTypeOK
  <2>4. Decided(r)'
    <3>1. InLoops(r)
      BY <2>1, <2>2 DEF InLoops
    <3> QED
      BY <1>d, <3>1 DEF Caused
  <2>5. Caller[r] \in Nodes /\ id["client"][r] \in Nat
    BY <1>0, CallerTypes DEF CRTypeOK, Hops
  <2>6. SendReply(Caller[r], id["client"][r], r)
    BY <2>1, <2>2
  <2> QED
    BY <1>2, <2>1, <2>3, <2>4, <2>5, <2>6
<1>11. CASE (\E n \in Nodes : Clean(n)) \/ UNCHANGED crvars
  BY <1>1, <1>11 DEF Clean, replyVars, crvars
<1> QED
  BY <1>4, <1>5, <1>6, <1>7, <1>8, <1>9, <1>10, <1>11 DEF CRNext, Carry, ReplyLoop

\* Each step of calls and replies is one of the round trips, or none of theirs.
LEMMA TripStep == CRInv /\ Caused /\ [CRNext]_crvars => [Trip!Next]_(Trip!tripVars)
<1> SUFFICES ASSUME CRInv, Caused, [CRNext]_crvars
             PROVE  Trip!Next \/ UNCHANGED Trip!tripVars
  OBVIOUS
<1> DEFINE Goal == Trip!Next \/ UNCHANGED Trip!tripVars
           Made == {r \in Requests : stage["client"][r] # "new"}
           Dec == {r \in Requests : Decided(r)}
<1>0. /\ CRTypeOK /\ UniqueIDs /\ Named /\ Once
      /\ stage \in [Hops -> [Requests -> {"new", "registered", "queued", "sent", "over"}]]
      /\ answers \in [Requests -> Nat] /\ finished \in [Requests -> Nat]
      /\ "client" \in Hops /\ "lb" \in Hops
  BY DEF CRInv, CRTypeOK, Hops
\* A step in which one request at most is sent or decided.
<1>1. ASSUME NEW r \in Requests, UNCHANGED finished,
             \/ Made' = Made /\ (Dec' = Dec \/ (r \in Made /\ Dec' = Dec \cup {r}))
             \/ r \notin Made /\ Made' = Made \cup {r} /\ Dec' = Dec
      PROVE  Goal
  <2>1. CASE Made' = Made /\ Dec' = Dec
    BY <1>1, <2>1 DEF Trip!tripVars
  <2>2. CASE Made' = Made /\ r \in Made \ Dec /\ Dec' = Dec \cup {r}
    <3>1. Trip!Decide(r)
      BY <1>1, <2>2 DEF Trip!Decide
    <3> QED
      BY <3>1 DEF Trip!Next
  <2>3. CASE r \notin Made /\ Made' = Made \cup {r} /\ Dec' = Dec
    <3>1. Trip!Send(r)
      BY <1>1, <2>3 DEF Trip!Send
    <3> QED
      BY <3>1 DEF Trip!Next
  <2>4. r \in Dec /\ Dec' = Dec \cup {r} => Dec' = Dec
    OBVIOUS
  <2> HIDE DEF Made, Dec, Goal
  <2> QED
    BY <1>1, <2>1, <2>2, <2>3, <2>4
<1>2. ASSUME NEW h \in Hops, NEW r \in Requests, Register(h, r) PROVE Goal
  <2>1. /\ stage[h][r] = "new" /\ stage' = [stage EXCEPT ![h][r] = "registered"]
        /\ UNCHANGED <<finished, answers>>
    BY <1>2 DEF Register, replyVars
  <2>2. /\ stage'[h][r] = "registered"
        /\ \A g \in Hops, q \in Requests : g # h \/ q # r => stage'[g][q] = stage[g][q]
    BY <1>0, <2>1
  <2>3. Dec' = Dec
    BY <2>1, <2>2 DEF Decided
  <2>4. IF h = "client" THEN r \notin Made /\ Made' = Made \cup {r} ELSE Made' = Made
    BY <1>0, <2>1, <2>2
  <2> QED
    BY <1>1, <2>1, <2>3, <2>4
\* A call that is sent or queued, by either hop, was sent by its client.
<1>3. \A h \in Hops, r \in Requests : stage[h][r] # "new" => r \in Made
  BY <1>0 DEF UniqueIDs, Hops
<1>4. ASSUME NEW h \in Hops, NEW r \in Requests, NEW x \in {"queued", "sent", "over"},
             stage[h][r] \notin {"new", "over"}, stage' = [stage EXCEPT ![h][r] = x],
             UNCHANGED <<finished, answers>>
      PROVE  Goal
  <2>1. /\ stage'[h][r] = x
        /\ \A g \in Hops, q \in Requests : g # h \/ q # r => stage'[g][q] = stage[g][q]
    BY <1>0, <1>4
  <2>2. Made' = Made /\ r \in Made
    BY <1>0, <1>3, <1>4, <2>1
  <2>3. Dec' = IF x = "over" THEN Dec \cup {r} ELSE Dec
    BY <1>4, <2>1 DEF Decided
  <2> QED
    BY <1>1, <1>4, <2>2, <2>3
<1>5. ASSUME NEW h \in Hops, NEW r \in Requests, Push(h, r) \/ Carry(h, r) PROVE Goal
  BY <1>4, <1>5 DEF Push, Carry, Redeliver, GiveUp, pushFrame
<1>6. ASSUME NEW r \in Requests, Answer(r) PROVE Goal
  <2>1. /\ stage["lb"][r] = "sent" /\ answers' = [answers EXCEPT ![r] = @ + 1]
        /\ UNCHANGED <<stage, finished>>
    BY <1>6 DEF Answer, pushFrame
  <2>2. Made' = Made /\ r \in Made
    BY <1>0, <1>3, <2>1
  <2>3. Dec' = Dec \cup {r}
    BY <1>0, <2>1 DEF Decided
  <2> QED
    BY <1>1, <2>1, <2>2, <2>3
<1>7. ASSUME NEW n \in Nodes, ClientCallback(n) PROVE Goal
  <2> DEFINE r == loop[n].entry
  <2>1. /\ loop[n].pc = "callback" /\ finished' = [finished EXCEPT ![r] = @ + 1]
        /\ UNCHANGED <<stage, answers>> /\ n # LB
    BY <1>7 DEF ClientCallback, loopFrame, sendVars
  <2>2. loop[n] # Idle /\ r = loop[n].reply.call /\ r \in Requests
    BY <1>0, <2>1, LoopTypes DEF Named
  <2>3. n = Caller[r]
    BY <1>0, <2>1, <2>2 DEF Named, Names
  <2>4. finished[r] = 0
    <3>1. PICK q \in Requests : q = r
      BY <2>2
    <3>2. finished[q] # 1 /\ finished[q] <= 1 /\ finished[q] \in Nat
      BY <1>0, <2>2, <2>3, <3>1 DEF Once
    <3> QED
      BY <3>1, <3>2
  <2>5. Decided(r)
    BY <2>2 DEF Caused, InLoops
  <2>6. Made' = Made /\ Dec' = Dec
    BY <2>1 DEF Decided
  <2>7. Trip!Finish(r)
    BY <1>0, <2>1, <2>2, <2>4, <2>5, <2>6 DEF Trip!Finish
  <2> QED
    BY <2>2, <2>7 DEF Trip!Next
<1>8. ASSUME UNCHANGED <<stage, answers, finished>> PROVE Goal
  BY <1>8 DEF Trip!tripVars, Decided
<1>9. ASSUME NEW n \in Nodes, Lookup(n) \/ Delete(n) \/ LBCallback \/ Clean(n) PROVE Goal
  BY <1>8, <1>9 DEF Lookup, Delete, LBCallback, Clean, loopFrame, sendVars, replyVars
<1>10. UNCHANGED crvars => Goal
  BY <1>8 DEF crvars, sendVars, replyVars
<1> HIDE DEF Goal
<1>11. Goal
  BY <1>2, <1>5, <1>6, <1>7, <1>9, <1>10 DEF CRNext, ReplyLoop
<1> QED
  BY <1>11 DEF Goal

\* For any clients, channels and numbers of replies, a client's requests are
\* round trips: its callback runs once, and only when that very request was
\* answered or given up.
THEOREM CallReplyImplementsRoundTrip == CRSpec => ImplementsRoundTrip
<1>1. CRInit => Trip!Init /\ Caused
  <2> SUFFICES ASSUME CRInit PROVE Trip!Init /\ Caused
    OBVIOUS
  <2>1. /\ \A h \in Hops, r \in Requests : stage[h][r] = "new"
        /\ \A r \in Requests : answers[r] = 0 /\ finished[r] = 0
        /\ \A n \in Nodes : replyCh[n] = <<>> /\ loop[n] = Idle
        /\ finished = [r \in Requests |-> 0]
    BY DEF CRInit
  <2>2. \A r \in Requests : ~Decided(r)
    <3>1. \A h \in Hops, r \in Requests : stage[h][r] # "over"
      BY <2>1
    <3>2. ASSUME NEW r \in Requests PROVE ~(answers[r] > 0)
      <4>1. answers[r] = 0
        BY <2>1
      <4> QED
        BY <4>1
    <3> QED
      BY <3>1, <3>2 DEF Decided
  <2>3. Trip!Init
    BY <2>1, <2>2 DEF Trip!Init, Hops
  <2>4. \A r \in Requests : ~InChannels(r) /\ ~InLoops(r) /\ ~(finished[r] > 0)
    <3>1. \A n \in Nodes : 1 .. Len(replyCh[n]) = {}
      BY <2>1
    <3>2. ASSUME NEW r \in Requests PROVE ~(finished[r] > 0)
      <4>1. finished[r] = 0
        BY <2>1
      <4> QED
        BY <4>1
    <3>3. \A n \in Nodes : loop[n] = Idle
      BY <2>1
    <3> QED
      BY <3>1, <3>2, <3>3 DEF InChannels, InLoops
  <2> QED
    BY <2>3, <2>4 DEF Caused
<1> QED
  BY <1>1, CausedStep, TripStep, CallReplyInvariance, PTL
     DEF CRSpec, ImplementsRoundTrip, Trip!Spec

-----------------------------------------------------------------------------
(* No answer is lost: a request of a source leaves a trail, from the entry   *)
(* at the balancer to the reply that goes back, the entry at the source, its *)
(* callback and the end.  There is always a next piece of it.                *)

EntryAt(n, r) == <<IDAt(n, r), r>> \in pending[n]
ReplyAt(n, r) == \E k \in 1 .. Len(replyCh[n]) : replyCh[n][k].call = r
HandOf(n, r)  == loop[n] # Idle /\ loop[n].entry = r
Calling(n, r) == HandOf(n, r) /\ loop[n].pc = "callback"

Answered(r) == answers[r] > 0 \/ stage["lb"][r] = "over"

Trail(r) ==
  /\ id["client"][r] # 0 =>
       EntryAt(Caller[r], r) \/ Calling(Caller[r], r) \/ finished[r] = 1
  /\ id["lb"][r] # 0 => \/ EntryAt(LB, r) \/ Calling(LB, r)
                        \/ ReplyAt(Caller[r], r) \/ HandOf(Caller[r], r)
                        \/ finished[r] = 1
  /\ Calling(LB, r) => ~EntryAt(LB, r)
  /\ Answered(r) => /\ id["lb"][r] # 0
                    /\ EntryAt(LB, r) => ReplyAt(LB, r) \/ HandOf(LB, r)

Trails == \A r \in Requests : Caller[r] \notin AppClients => Trail(r)

\* A reply that is sent is there, with all the others.
LEMMA ReplyAdded ==
  ASSUME CRTypeOK, NEW n \in Nodes, NEW i \in Nat, NEW q \in Requests, SendReply(n, i, q)
  PROVE  /\ ReplyAt(n, q)'
         /\ \A m \in Nodes, r \in Requests : ReplyAt(m, r) => ReplyAt(m, r)'
<1> DEFINE x == [reqID |-> i, call |-> q]
<1>1. /\ replyCh[n] \in Seq(Reply) /\ x \in Reply /\ x.call = q
      /\ replyCh'[n] = Append(replyCh[n], x)
      /\ \A m \in Nodes \ {n} : replyCh'[m] = replyCh[m]
  BY DEF CRTypeOK, SendReply, Reply
<1> HIDE DEF x
<1>2. /\ Len(Append(replyCh[n], x)) \in 1 .. Len(Append(replyCh[n], x))
      /\ Append(replyCh[n], x)[Len(Append(replyCh[n], x))] = x
      /\ \A k \in 1 .. Len(replyCh[n]) :
           /\ k \in 1 .. Len(Append(replyCh[n], x))
           /\ Append(replyCh[n], x)[k] = replyCh[n][k]
  BY <1>1
<1>3. ReplyAt(n, q)'
  BY <1>1, <1>2 DEF ReplyAt
<1>4. ASSUME NEW m \in Nodes, NEW r \in Requests, ReplyAt(m, r) PROVE ReplyAt(m, r)'
  <2>1. CASE m = n
    BY <1>1, <1>2, <1>4, <2>1 DEF ReplyAt
  <2>2. CASE m # n
    BY <1>1, <1>4, <2>2 DEF ReplyAt
  <2> QED
    BY <2>1, <2>2
<1> QED
  BY <1>3, <1>4

\* Only the reply that is received is gone from its channel.
LEMMA ReplyTaken ==
  ASSUME CRTypeOK, NEW n \in Nodes, replyCh[n] # <<>>,
         replyCh' = [replyCh EXCEPT ![n] = Tail(@)],
         NEW m \in Nodes, NEW r \in Requests, ReplyAt(m, r)
  PROVE  ReplyAt(m, r)' \/ (m = n /\ Head(replyCh[n]).call = r)
<1>1. /\ replyCh[n] \in Seq(Reply) /\ replyCh'[n] = Tail(replyCh[n])
      /\ \A l \in Nodes \ {n} : replyCh'[l] = replyCh[l]
  BY DEF CRTypeOK
<1>2. /\ Head(replyCh[n]) = replyCh[n][1]
      /\ \A k \in 1 .. Len(replyCh[n]) :
           k = 1 \/ /\ k - 1 \in 1 .. Len(Tail(replyCh[n]))
                    /\ Tail(replyCh[n])[k - 1] = replyCh[n][k]
  BY <1>1
<1>3. PICK k \in 1 .. Len(replyCh[m]) : replyCh[m][k].call = r
  BY DEF ReplyAt
<1>4. CASE m = n /\ k = 1
  BY <1>2, <1>3, <1>4
<1>5. CASE m = n /\ k # 1
  <2>1. /\ k - 1 \in 1 .. Len(replyCh'[m])
        /\ replyCh'[m][k - 1].call = r
    BY <1>1, <1>2, <1>3, <1>5
  <2> QED
    BY <2>1 DEF ReplyAt
<1>6. CASE m # n
  BY <1>1, <1>3, <1>6 DEF ReplyAt
<1> QED
  BY <1>4, <1>5, <1>6

\* A step that sends replies, or sets a call aside, leaves a trail as it is.
LEMMA TrailKept ==
  ASSUME NEW r \in Requests, Trail(r), UNCHANGED <<id, pending, loop, finished>>,
         ReplyAt(LB, r) => ReplyAt(LB, r)',
         ReplyAt(Caller[r], r) => ReplyAt(Caller[r], r)',
         Answered(r)' => Answered(r) \/ (id["lb"][r] # 0 /\ ReplyAt(LB, r)')
  PROVE  Trail(r)'
BY DEF Trail, EntryAt, HandOf, Calling, IDAt

\* sendCall begins a trail.
LEMMA RegisterTrail ==
  ASSUME CRInv, NEW r \in Requests, Trail(r),
         NEW h \in Hops, NEW q \in Requests, Register(h, q)
  PROVE  Trail(r)'
<1>0. CRTypeOK /\ UniqueIDs /\ Named
  BY DEF CRInv
<1> DEFINE m == NodeOf(h, q)
<1>1. /\ m \in Nodes /\ (m = LB <=> h = "lb") /\ IDAt(m, q)' = callNumber'
      /\ id[h][q] = 0 /\ callNumber' = callNumber + 1 /\ callNumber \in Nat
      /\ stage[h][q] = "new"
      /\ UNCHANGED <<replyCh, loop, finished, answers>>
  BY <1>0, NodeTypes, RegisterRenames
     DEF NodeOf, IDAt, Register, IncrCallNumber, replyVars, CRTypeOK, Hops
<1>2. /\ id' = [id EXCEPT ![h] = [id[h] EXCEPT ![q] = callNumber']]
      /\ stage' = [stage EXCEPT ![h] = [stage[h] EXCEPT ![q] = "registered"]]
  BY DEF Register
<1>3. \A g \in Hops, p \in Requests :
        g # h \/ p # q => id'[g][p] = id[g][p] /\ stage'[g][p] = stage[g][p]
  BY <1>0, <1>2 DEF CRTypeOK
<1>4. stage'[h][q] = "registered"
  BY <1>0, <1>2 DEF CRTypeOK
<1>5. /\ pending'[m] = {e \in pending[m] : e[1] # callNumber'} \cup {<<callNumber', q>>}
      /\ \A n \in Nodes \ {m} : pending'[n] = pending[n]
  BY <1>0, <1>1 DEF Register, AddEntry, CRTypeOK
\* An entry stays, under its number, and the only new one is that of q.
<1>6. ASSUME NEW n \in Nodes, n = LB \/ n = Caller[r]
      PROVE  EntryAt(n, r)' <=> EntryAt(n, r) \/ (n = m /\ r = q)
  <2>1. CASE n = m /\ r = q
    <3>1. <<callNumber', q>> \in pending'[m]
      BY <1>5
    <3> QED
      BY <1>1, <2>1, <3>1 DEF EntryAt
  <2>2. CASE n # m \/ r # q
    <3>1. IDAt(n, r)' = IDAt(n, r) /\ IDAt(n, r) \in Nat /\ IDAt(n, r) <= callNumber
      <4>1. CASE n = LB
        BY <1>0, <1>1, <1>3, <2>2, <4>1 DEF IDAt, Hops, CRTypeOK, UniqueIDs
      <4>2. CASE n # LB
        <5>1. h = "client" /\ r = q => n = m
          BY <1>6, <4>2 DEF NodeOf
        <5>2. id'["client"][r] = id["client"][r]
          BY <1>3, <2>2, <5>1 DEF Hops
        <5> QED
          BY <1>0, <4>2, <5>2 DEF IDAt, Hops, CRTypeOK, UniqueIDs
      <4> QED
        BY <4>1, <4>2
    <3>2. IDAt(n, r) # callNumber'
      BY <1>1, <3>1
    <3>3. CASE n = m
      BY <1>1, <1>5, <2>2, <3>1, <3>2, <3>3 DEF EntryAt
    <3>4. CASE n # m
      BY <1>5, <3>1, <3>4 DEF EntryAt
    <3> QED
      BY <3>3, <3>4
  <2> QED
    BY <2>1, <2>2
<1>7. /\ Caller[r] \in Nodes /\ Caller[r] # LB /\ LB \in Nodes
      /\ h = "lb" => m = LB
      /\ h = "client" /\ r = q => m = Caller[r]
  BY CallerTypes DEF Nodes, NodeOf
\* The balancer does not hold a reply to a call that it has yet to make.
<1>8. h = "lb" /\ r = q => ~HandOf(LB, r) /\ ~Answered(r) /\ ~Answered(r)'
  <2> SUFFICES ASSUME h = "lb", r = q PROVE ~HandOf(LB, r) /\ ~Answered(r) /\ ~Answered(r)'
    OBVIOUS
  <2>1. ~HandOf(LB, r)
    BY <1>0, <1>1, <1>7 DEF HandOf, Named, Names, IDAt
  <2>2. ~Answered(r)
    BY <1>1 DEF Trail
  <2> QED
    BY <1>1, <1>4, <2>1, <2>2 DEF Answered
<1>9. \A n : /\ HandOf(n, r)' <=> HandOf(n, r)
             /\ Calling(n, r)' <=> Calling(n, r)
             /\ ReplyAt(n, r)' <=> ReplyAt(n, r)
  BY <1>1 DEF HandOf, Calling, ReplyAt
<1>10. h # "lb" \/ r # q => /\ id'["lb"][r] = id["lb"][r]
                            /\ Answered(r)' <=> Answered(r)
                            /\ EntryAt(LB, r)' <=> EntryAt(LB, r)
  BY <1>1, <1>3, <1>6, <1>7 DEF Answered, Hops
<1>11. h # "client" \/ r # q => id'["client"][r] = id["client"][r]
  BY <1>3 DEF Hops
<1>12. /\ id'["client"][r] # 0 => \/ EntryAt(Caller[r], r)' \/ Calling(Caller[r], r)
                                  \/ finished[r] = 1
  BY <1>6, <1>7, <1>11 DEF Trail, Hops
<1>13. CASE h = "lb" /\ r = q
  BY <1>1, <1>6, <1>7, <1>8, <1>9, <1>12, <1>13 DEF Trail, Calling
<1>14. CASE h # "lb" \/ r # q
  BY <1>1, <1>9, <1>10, <1>12, <1>14 DEF Trail
<1> QED
  BY <1>13, <1>14

\* A reply that is received is the next piece of the trail, or comes too late
\* to be.
LEMMA LookupTrail ==
  ASSUME CRInv, NEW r \in Requests, Trail(r), NEW n \in Nodes, Lookup(n)
  PROVE  Trail(r)'
<1>0. CRTypeOK /\ UniqueIDs /\ Named /\ Once
  BY DEF CRInv
<1> DEFINE reply == Head(replyCh[n])
<1>1. /\ loop[n] = Idle /\ replyCh[n] # <<>> /\ replyCh' = [replyCh EXCEPT ![n] = Tail(@)]
      /\ UNCHANGED <<pending, finished, id, stage, answers>>
  BY <1>0, LoopTypes DEF Lookup, loopFrame, sendVars
<1>2. /\ Caller[r] \in Nodes /\ Caller[r] # LB /\ LB \in Nodes
      /\ reply \in Reply /\ reply.reqID \in Nat
      /\ Names(n, reply.reqID, reply.call) /\ reply.call \in Requests
  <2>1. replyCh[n] \in Seq(Reply)
    BY <1>0 DEF CRTypeOK
  <2>2. reply \in Reply /\ reply = replyCh[n][1] /\ 1 \in 1 .. Len(replyCh[n])
    BY <1>1, <2>1
  <2> QED
    BY <1>0, <2>2, CallerTypes DEF Named, Reply, Nodes
<1>3. \A m \in Nodes : ReplyAt(m, r) => ReplyAt(m, r)' \/ (m = n /\ reply.call = r)
  BY <1>0, <1>1, ReplyTaken
<1>4. \A m \in Nodes : /\ m # n => loop'[m] = loop[m]
                       /\ HandOf(m, r) => HandOf(m, r)'
                       /\ Calling(m, r)' <=> Calling(m, r)
  <2>1. CASE UNCHANGED loop
    BY <2>1 DEF HandOf, Calling
  <2>2. ASSUME NEW q \in Requests, NEW x, x = [pc |-> "found", reply |-> reply, entry |-> q],
               loop' = [loop EXCEPT ![n] = x]
        PROVE  \A m \in Nodes : /\ m # n => loop'[m] = loop[m]
                                /\ HandOf(m, r) => HandOf(m, r)'
                                /\ Calling(m, r)' <=> Calling(m, r)
    <3>1. /\ x.pc = "found" /\ loop'[n] = x
          /\ \A m \in Nodes \ {n} : loop'[m] = loop[m]
      BY <1>0, <2>2 DEF CRTypeOK
    <3> QED
      BY <1>1, <3>1 DEF HandOf, Calling
  <2> QED
    BY <2>1, <2>2 DEF Lookup
\* An entry of r at n is found by its reply.
<1>5. reply.call = r /\ EntryAt(n, r) => HandOf(n, r)'
  <2> SUFFICES ASSUME reply.call = r, EntryAt(n, r) PROVE HandOf(n, r)'
    OBVIOUS
  <2>1. <<reply.reqID, r>> \in pending[n]
    BY <1>2 DEF EntryAt, Names
  <2>2. PICK q \in Requests :
          /\ <<reply.reqID, q>> \in pending[n]
          /\ loop' = [loop EXCEPT ![n] = [pc |-> "found", reply |-> reply, entry |-> q]]
    BY <2>1 DEF Lookup
  <2>3. Names(n, reply.reqID, q)
    BY <1>0, <2>2 DEF Named
  <2>4. q = r
    BY <1>0, <1>2, <2>3, NamesAgree
  <2> DEFINE x == [pc |-> "found", reply |-> reply, entry |-> q]
  <2>5. x.pc = "found" /\ x.entry = q /\ x # Idle
    BY DEF Idle
  <2>6. loop'[n] = x
    BY <1>0, <2>2 DEF CRTypeOK
  <2> QED
    BY <2>4, <2>5, <2>6 DEF HandOf
<1>6. \A m : EntryAt(m, r)' <=> EntryAt(m, r)
  BY <1>1 DEF EntryAt, IDAt
\* At the client, a reply without an entry comes after the callback.
<1>7. n = Caller[r] /\ reply.call = r => HandOf(n, r)' \/ finished[r] = 1
  <2> SUFFICES ASSUME n = Caller[r], reply.call = r PROVE HandOf(n, r)' \/ finished[r] = 1
    OBVIOUS
  <2>1. id["client"][r] # 0 /\ ~Calling(n, r)
    BY <1>1, <1>2 DEF Names, IDAt, Calling, HandOf
  <2> QED
    BY <1>5, <2>1 DEF Trail
<1>8. ReplyAt(LB, r) /\ EntryAt(LB, r) => ReplyAt(LB, r)' \/ HandOf(LB, r)'
  BY <1>2, <1>3, <1>5
<1>9. ReplyAt(Caller[r], r) => \/ ReplyAt(Caller[r], r)' \/ HandOf(Caller[r], r)'
                               \/ finished[r] = 1
  BY <1>2, <1>3, <1>7
<1> QED
  BY <1>1, <1>2, <1>4, <1>6, <1>8, <1>9 DEF Trail, Answered

\* Where an entry is deleted, the callback is the next piece.
LEMMA DeleteTrail ==
  ASSUME CRInv, NEW r \in Requests, Trail(r), NEW n \in Nodes, Delete(n)
  PROVE  Trail(r)'
<1>0. CRTypeOK /\ UniqueIDs /\ Named
  BY DEF CRInv
<1> DEFINE x == [loop[n] EXCEPT !.pc = "callback"]
<1>1. /\ loop[n] # Idle /\ loop[n] \in Busy /\ loop[n].pc = "found"
      /\ pending' = [pending EXCEPT ![n] = {e \in pending[n] : e[1] # loop[n].reply.reqID}]
      /\ loop' = [loop EXCEPT ![n] = x]
      /\ UNCHANGED <<replyCh, finished, id, stage, answers>>
  BY <1>0, LoopTypes DEF Delete, CRTypeOK, loopFrame, sendVars
<1>2. x # Idle /\ x.pc = "callback" /\ x.entry = loop[n].entry
  <2>1. x.pc = "callback" /\ x.entry = loop[n].entry
    BY <1>1 DEF Busy
  <2> QED
    BY <2>1 DEF Idle
<1>3. /\ loop'[n] = x /\ \A m \in Nodes \ {n} : loop'[m] = loop[m]
      /\ pending'[n] = {e \in pending[n] : e[1] # loop[n].reply.reqID}
      /\ \A m \in Nodes \ {n} : pending'[m] = pending[m]
  BY <1>0, <1>1 DEF CRTypeOK
<1> HIDE DEF x
<1>4. \A m \in Nodes : /\ HandOf(m, r)' <=> HandOf(m, r)
                       /\ Calling(m, r)' <=> Calling(m, r) \/ (m = n /\ HandOf(n, r))
  BY <1>1, <1>2, <1>3 DEF HandOf, Calling
<1>5. ASSUME NEW m \in Nodes
      PROVE  EntryAt(m, r)' <=> EntryAt(m, r) /\ ~(m = n /\ HandOf(n, r))
  <2>1. IDAt(m, r)' = IDAt(m, r)
    BY <1>1 DEF IDAt
  <2>2. CASE m # n
    BY <1>3, <2>1, <2>2 DEF EntryAt
  <2>3. CASE m = n
    <3>1. /\ Names(n, loop[n].reply.reqID, loop[n].entry) /\ loop[n].entry \in Requests
          /\ loop[n].reply.reqID \in Nat
      BY <1>0, <1>1, LoopTypes DEF Named
    <3>2. ASSUME EntryAt(n, r)
          PROVE  IDAt(n, r) = loop[n].reply.reqID <=> loop[n].entry = r
      <4>1. Names(n, IDAt(n, r), r)
        BY <1>0, <3>2 DEF EntryAt, Named
      <4>2. CASE IDAt(n, r) = loop[n].reply.reqID
        BY <1>0, <3>1, <4>1, <4>2, NamesAgree
      <4>3. CASE loop[n].entry = r
        BY <3>1, <4>3 DEF Names
      <4> QED
        BY <4>2, <4>3
    <3>3. HandOf(n, r) <=> loop[n].entry = r
      BY <1>1 DEF HandOf
    <3>4. EntryAt(n, r)' <=> EntryAt(n, r) /\ IDAt(n, r) # loop[n].reply.reqID
      BY <1>3, <2>1, <2>3 DEF EntryAt
    <3> QED
      BY <2>3, <3>2, <3>3, <3>4
  <2> QED
    BY <2>2, <2>3
<1>6. \A m : ReplyAt(m, r)' <=> ReplyAt(m, r)
  BY <1>1 DEF ReplyAt
<1>7. Caller[r] \in Nodes /\ LB \in Nodes
  BY CallerTypes DEF Nodes
<1> QED
  BY <1>1, <1>4, <1>5, <1>6, <1>7 DEF Trail, Answered

\* The client's callback is the end of a trail.
LEMMA ClientCallbackTrail ==
  ASSUME CRInv, NEW r \in Requests, Trail(r), NEW n \in Nodes, ClientCallback(n)
  PROVE  Trail(r)'
<1>0. CRTypeOK /\ UniqueIDs /\ Named /\ Once
  BY DEF CRInv
<1> DEFINE q == loop[n].entry
<1>1. /\ n # LB /\ loop[n].pc = "callback" /\ loop[n] # Idle /\ q \in Requests
      /\ finished' = [finished EXCEPT ![q] = @ + 1]
      /\ loop' = [loop EXCEPT ![n] = Idle]
      /\ UNCHANGED <<pending, replyCh, id, stage, answers>>
      /\ q = loop[n].reply.call
  BY <1>0, LoopTypes DEF ClientCallback, loopFrame, sendVars, Named
<1>2. n = Caller[q]
  BY <1>0, <1>1 DEF Named, Names
<1>3. finished[q] = 0 /\ finished \in [Requests -> Nat]
  BY <1>0, <1>1, <1>2 DEF Once, CRTypeOK
<1>4. /\ finished'[q] = 1 /\ \A p \in Requests \ {q} : finished'[p] = finished[p]
      /\ \A m \in Nodes \ {n} : loop'[m] = loop[m]
  BY <1>0, <1>1, <1>3 DEF CRTypeOK
<1>5. \A m : /\ EntryAt(m, r)' <=> EntryAt(m, r)
             /\ ReplyAt(m, r)' <=> ReplyAt(m, r)
  BY <1>1 DEF EntryAt, ReplyAt, IDAt
<1>6. \A m \in Nodes : m # n => /\ HandOf(m, r)' <=> HandOf(m, r)
                                /\ Calling(m, r)' <=> Calling(m, r)
  BY <1>4 DEF HandOf, Calling
<1>7. Caller[r] \in Nodes /\ LB \in Nodes
  BY CallerTypes DEF Nodes
<1>8. finished'[r] = 1 \/ /\ finished'[r] = finished[r]
                          /\ HandOf(Caller[r], r) => HandOf(Caller[r], r)'
                          /\ Calling(Caller[r], r) => Calling(Caller[r], r)'
  <2>1. CASE r = q
    BY <1>4, <2>1
  <2>2. CASE r # q
    <3>1. HandOf(Caller[r], r) => Caller[r] # n
      BY <2>2 DEF HandOf
    <3> QED
      BY <1>4, <1>6, <1>7, <2>2, <3>1 DEF Calling
  <2> QED
    BY <2>1, <2>2
<1> QED
  BY <1>1, <1>5, <1>6, <1>7, <1>8 DEF Trail, Answered

\* The balancer's callback sends the client the next piece.
LEMMA LBCallbackTrail ==
  ASSUME CRInv, NEW r \in Requests, Trail(r), LBCallback  PROVE Trail(r)'
<1>0. CRTypeOK /\ UniqueIDs /\ Named
  BY DEF CRInv
<1>a. loop[LB].entry \in Requests
  BY <1>0, LoopTypes DEF LBCallback, Nodes
<1>b. PICK q \in Requests : q = loop[LB].entry
  BY <1>a
<1>1. /\ LB \in Nodes /\ loop[LB].pc = "callback" /\ loop[LB] # Idle
      /\ q = loop[LB].reply.call
      /\ SendReply(Caller[q], id["client"][q], q)
      /\ loop' = [loop EXCEPT ![LB] = Idle]
      /\ UNCHANGED <<pending, finished, id, stage, answers>>
  <2>1. LB \in Nodes /\ loop[LB].pc = "callback"
    BY DEF LBCallback, Nodes
  <2>2. loop[LB] # Idle /\ loop[LB].entry \in Requests
    BY <1>0, <2>1, LoopTypes
  <2>3. loop[LB].entry = loop[LB].reply.call
    BY <1>0, <2>1, <2>2 DEF Named
  <2> QED
    BY <1>b, <2>1, <2>2, <2>3 DEF LBCallback, loopFrame, sendVars
<1>2. Caller[q] \in Nodes /\ id["client"][q] \in Nat
  BY <1>0, <1>1, CallerTypes DEF CRTypeOK, Hops
<1>3. /\ ReplyAt(Caller[q], q)'
      /\ \A m \in Nodes, p \in Requests : ReplyAt(m, p) => ReplyAt(m, p)'
  BY <1>0, <1>1, <1>2, ReplyAdded
<1>4. \A m : EntryAt(m, r)' <=> EntryAt(m, r)
  BY <1>1 DEF EntryAt, IDAt
<1>5. loop'[LB] = Idle /\ \A m \in Nodes \ {LB} : loop'[m] = loop[m]
  BY <1>0, <1>1 DEF CRTypeOK
<1>6. /\ ~HandOf(LB, r)' /\ ~Calling(LB, r)'
      /\ (HandOf(LB, r) => r = q /\ Calling(LB, r))
  BY <1>1, <1>b, <1>5 DEF HandOf, Calling
<1>7. /\ Caller[r] \in Nodes /\ Caller[r] # LB
      /\ (HandOf(Caller[r], r)' <=> HandOf(Caller[r], r))
      /\ (Calling(Caller[r], r)' <=> Calling(Caller[r], r))
  BY <1>5, CallerTypes DEF HandOf, Calling
<1> QED
  BY <1>1, <1>3, <1>4, <1>6, <1>7 DEF Trail, Answered, Calling

\* The cleanup of an app node does not touch a source's trails.
LEMMA CleanTrail ==
  ASSUME CRInv, NEW r \in Requests, Caller[r] \notin AppClients, Trail(r),
         NEW n \in Nodes, Clean(n)
  PROVE  Trail(r)'
<1>1. /\ n \in AppClients /\ pending' = [pending EXCEPT ![n] = {}]
      /\ UNCHANGED <<replyCh, loop, finished, id, stage, answers>>
  BY DEF Clean, replyVars, loopFrame, sendVars
<1>2. n # Caller[r] /\ n # LB /\ Caller[r] \in Nodes /\ LB \in Nodes
  BY <1>1, CallerTypes, CallReplyAssumption DEF Nodes
<1>3. pending'[LB] = pending[LB] /\ pending'[Caller[r]] = pending[Caller[r]]
  BY <1>1, <1>2 DEF CRInv, CRTypeOK
<1>4. /\ (EntryAt(LB, r)' <=> EntryAt(LB, r))
      /\ (EntryAt(Caller[r], r)' <=> EntryAt(Caller[r], r))
      /\ \A m \in Nodes : /\ (ReplyAt(m, r)' <=> ReplyAt(m, r))
                          /\ (HandOf(m, r)' <=> HandOf(m, r))
                          /\ (Calling(m, r)' <=> Calling(m, r))
  BY <1>1, <1>3 DEF EntryAt, ReplyAt, HandOf, Calling, IDAt
<1> QED
  BY <1>1, <1>2, <1>4 DEF Trail, Answered

\* What happens to a call that is registered only adds replies.
LEMMA SendingTrail ==
  ASSUME CRInv, NEW r \in Requests, Trail(r), NEW h \in Hops, NEW q \in Requests,
         Push(h, q) \/ Carry(h, q) \/ Answer(q)
  PROVE  Trail(r)'
<1>0. CRTypeOK /\ UniqueIDs
  BY DEF CRInv
<1>1. /\ UNCHANGED <<id, pending, loop, finished>>
      /\ Caller[r] \in Nodes /\ LB \in Nodes
  BY CallerTypes DEF Push, Carry, Redeliver, GiveUp, Answer, pushFrame, Nodes
<1>2. ASSUME NEW s, stage' = [stage EXCEPT ![h][q] = s], s # "over" \/ h # "lb" \/ r # q,
             UNCHANGED answers
      PROVE  Answered(r)' => Answered(r)
  BY <1>0, <1>2 DEF Answered, CRTypeOK, Hops
<1>3. CASE Push(h, q) \/ Redeliver(h, q)
  <2>1. /\ \E s \in {"sent", "queued"} : stage' = [stage EXCEPT ![h][q] = s]
        /\ UNCHANGED <<replyCh, answers>>
    BY <1>3 DEF Push, Redeliver
  <2>2. Answered(r)' => Answered(r)
    BY <1>2, <2>1
  <2>3. \A m : ReplyAt(m, r)' <=> ReplyAt(m, r)
    BY <2>1 DEF ReplyAt
  <2> QED
    BY <1>1, <2>2, <2>3, TrailKept
<1>4. CASE GiveUp(h, q)
  <2>1. /\ stage[h][q] = "queued" /\ stage' = [stage EXCEPT ![h][q] = "over"]
        /\ SendReply(NodeOf(h, q), id[h][q], q) /\ UNCHANGED answers
    BY <1>4 DEF GiveUp
  <2>2. id[h][q] \in Nat /\ id[h][q] # 0 /\ NodeOf(h, q) \in Nodes
    BY <1>0, <2>1, NodeTypes DEF CRTypeOK, UniqueIDs
  <2>3. /\ ReplyAt(NodeOf(h, q), q)'
        /\ \A m \in Nodes, p \in Requests : ReplyAt(m, p) => ReplyAt(m, p)'
    BY <1>0, <2>1, <2>2, ReplyAdded
  <2>4. Answered(r)' => Answered(r) \/ (id["lb"][r] # 0 /\ ReplyAt(LB, r)')
    <3>1. CASE h = "lb" /\ r = q
      BY <2>2, <2>3, <3>1 DEF NodeOf
    <3>2. CASE h # "lb" \/ r # q
      BY <1>2, <2>1, <3>2
    <3> QED
      BY <3>1, <3>2
  <2> QED
    BY <1>1, <2>3, <2>4, TrailKept
<1>5. CASE Answer(q)
  <2>1. /\ stage["lb"][q] = "sent" /\ answers' = [answers EXCEPT ![q] = @ + 1]
        /\ SendReply(LB, id["lb"][q], q) /\ UNCHANGED stage
    BY <1>5 DEF Answer
  <2>2. id["lb"][q] \in Nat /\ id["lb"][q] # 0
    BY <1>0, <2>1 DEF CRTypeOK, UniqueIDs, Hops
  <2>3. /\ ReplyAt(LB, q)'
        /\ \A m \in Nodes, p \in Requests : ReplyAt(m, p) => ReplyAt(m, p)'
    BY <1>0, <1>1, <2>1, <2>2, ReplyAdded
  <2>4. Answered(r)' => Answered(r) \/ (id["lb"][r] # 0 /\ ReplyAt(LB, r)')
    <3>1. CASE r = q
      BY <2>2, <2>3, <3>1
    <3>2. CASE r # q
      BY <1>0, <2>1, <3>2 DEF Answered, CRTypeOK
    <3> QED
      BY <3>1, <3>2
  <2> QED
    BY <1>1, <2>3, <2>4, TrailKept
<1> QED
  BY <1>3, <1>4, <1>5 DEF Carry

\* Each step leaves the trails of the sources unbroken.
LEMMA TrailsStep == CRInv /\ Trails /\ [CRNext]_crvars => Trails'
<1> SUFFICES ASSUME CRInv, [CRNext]_crvars, NEW r \in Requests,
                    Caller[r] \notin AppClients, Trail(r)
             PROVE  Trail(r)'
  BY DEF Trails
<1>1. CASE \E h \in Hops, q \in Requests : Register(h, q) \/ Push(h, q) \/ Carry(h, q)
  BY <1>1, RegisterTrail, SendingTrail
<1>2. CASE \E q \in Requests : Answer(q)
  BY <1>2, SendingTrail DEF Hops
<1>3. CASE \E n \in Nodes : ReplyLoop(n) \/ Clean(n)
  BY <1>3, LookupTrail, DeleteTrail, ClientCallbackTrail, LBCallbackTrail, CleanTrail
     DEF ReplyLoop
<1>4. CASE UNCHANGED crvars
  BY <1>4 DEF Trail, EntryAt, ReplyAt, HandOf, Calling, Answered, IDAt, crvars, sendVars,
     replyVars
<1> QED
  BY <1>1, <1>2, <1>3, <1>4 DEF CRNext

\* Until the callback of a source's request has run, the answer to it is on its
\* way: no reply that matters is dropped, however many come, and whatever maps
\* are emptied.
THEOREM NoAnswerIsLost == CRSpec => []AnswerOnItsWay
<1>1. CRInit => Trails
  <2> SUFFICES ASSUME CRInit, NEW r \in Requests PROVE Trail(r)
    BY DEF Trails
  <2>1. /\ id["lb"][r] = 0 /\ id["client"][r] = 0 /\ loop[LB] = Idle
        /\ answers[r] = 0 /\ stage["lb"][r] = "new"
    BY DEF CRInit, Hops, Nodes
  <2> QED
    BY <2>1 DEF Trail, Calling, HandOf, Answered
<1>2. CRInv /\ Trails => AnswerOnItsWay
  <2> SUFFICES ASSUME CRInv, NEW r \in Requests, Trail(r), Answered(r), finished[r] = 0
               PROVE  \E n \in {LB, Caller[r]} :
                        \/ loop[n].pc # "idle" /\ loop[n].entry = r
                        \/ \E i \in DOMAIN replyCh[n] :
                             <<replyCh[n][i].reqID, r>> \in pending[n]
    BY DEF Trails, Answered, AnswerOnItsWay
  <2>0. CRTypeOK /\ UniqueIDs /\ Named /\ LB \in Nodes /\ Caller[r] \in Nodes
    BY CallerTypes DEF CRInv, Nodes
  <2>1. ASSUME NEW n \in Nodes, HandOf(n, r) PROVE loop[n].pc # "idle" /\ loop[n].entry = r
    BY <2>0, <2>1, LoopTypes DEF HandOf
  <2>2. ASSUME NEW n \in Nodes, ReplyAt(n, r), EntryAt(n, r)
        PROVE  \E i \in DOMAIN replyCh[n] : <<replyCh[n][i].reqID, r>> \in pending[n]
    <3>1. PICK i \in 1 .. Len(replyCh[n]) : replyCh[n][i].call = r
      BY <2>2 DEF ReplyAt
    <3>2. replyCh[n][i].reqID = IDAt(n, r)
      BY <2>0, <3>1 DEF Named, Names
    <3>3. i \in DOMAIN replyCh[n]
      BY <2>0, <3>1 DEF CRTypeOK
    <3> QED
      BY <2>2, <3>2, <3>3 DEF EntryAt
  <2>3. id["client"][r] # 0
    BY <2>0 DEF Trail, UniqueIDs
  <2>4. \/ HandOf(LB, r) \/ HandOf(Caller[r], r)
        \/ ReplyAt(LB, r) /\ EntryAt(LB, r)
        \/ ReplyAt(Caller[r], r) /\ EntryAt(Caller[r], r)
    BY <2>3 DEF Trail, Calling
  <2> QED
    BY <2>0, <2>1, <2>2, <2>4
<1> QED
  BY <1>1, <1>2, TrailsStep, CallReplyInvariance, NextCRInv, InitCRInv, PTL DEF CRSpec

-----------------------------------------------------------------------------
(* The round robin.  Instance 1 is served first and instance 0 last in each *)
(* round, of which lastSent % PoolSize calls are done.                      *)

Share(q, i) == IF 1 <= i /\ i <= lastSent % PoolSize THEN q + 1 ELSE q

PoolInv ==
  /\ CRTypeOK
  /\ \E q \in Nat : \A i \in Instances : sentTo[i] = Share(q, i)

\* The sum is written as the provers' arithmetic wants it.
LEMMA NextInRound ==
  ASSUME NEW n \in Nat, NEW p \in Nat \ {0}
  PROVE  (n + 1) % p = IF n % p = p - 1 THEN 0 ELSE (n % p) + 1
<1>1. n = p * (n \div p) + (n % p) /\ n % p \in 0 .. p - 1 /\ n \div p \in Nat
  OBVIOUS
<1>2. ASSUME NEW q \in Nat, NEW m \in 0 .. p - 1  PROVE (q * p + m) % p = m
  OBVIOUS
<1> DEFINE q == n \div p
           m == n % p
<1>3. n = q * p + m /\ q \in Nat /\ m \in 0 .. p - 1
  BY <1>1
<1> HIDE DEF q, m
<1>4. CASE m = p - 1
  <2>1. n + 1 = (q + 1) * p + 0 /\ q + 1 \in Nat /\ 0 \in 0 .. p - 1
    BY <1>3, <1>4
  <2>2. ((q + 1) * p + 0) % p = 0
    BY <1>2, <2>1
  <2> QED
    BY <1>4, <2>1, <2>2 DEF m
<1>5. CASE m # p - 1
  <2>1. n + 1 = q * p + (m + 1) /\ m + 1 \in 0 .. p - 1
    BY <1>3, <1>5
  <2>2. (q * p + (m + 1)) % p = m + 1
    BY <1>2, <1>3, <2>1
  <2> QED
    BY <1>5, <2>1, <2>2 DEF m
<1> QED
  BY <1>4, <1>5

\* Forwarding a call goes on to the next instance, so the shares stay right.
LEMMA ForwardPool ==
  ASSUME PoolInv, NEW r \in Requests, Forward(r)
  PROVE  \E q \in Nat : \A i \in Instances : sentTo'[i] = Share(q, i)'
<1> DEFINE m == lastSent % PoolSize
           k == (lastSent + 1) % PoolSize
<1>1. /\ lastSent \in Nat /\ sentTo \in [Instances -> Nat] /\ PoolSize \in Nat \ {0}
      /\ lastSent' = lastSent + 1 /\ sentTo' = [sentTo EXCEPT ![k] = sentTo[k] + 1]
  BY CallReplyAssumption DEF PoolInv, CRTypeOK, Forward
<1>2. m \in Instances /\ k = IF m = PoolSize - 1 THEN 0 ELSE m + 1
  <2>1. m \in 0 .. PoolSize - 1
    BY <1>1
  <2>2. k = IF m = PoolSize - 1 THEN 0 ELSE m + 1
    BY <1>1, NextInRound
  <2> QED
    BY <2>1, <2>2 DEF Instances
<1>3. PICK q \in Nat : \A i \in Instances :
        sentTo[i] = IF 1 <= i /\ i <= m THEN q + 1 ELSE q
  BY DEF PoolInv, Share
<1> DEFINE Rest == \E t \in Nat : \A i \in Instances :
                     sentTo'[i] = IF 1 <= i /\ i <= k THEN t + 1 ELSE t
<1> HIDE DEF m, k
<1>4. /\ k \in Instances /\ sentTo'[k] = sentTo[k] + 1
      /\ \A i \in Instances \ {k} : sentTo'[i] = sentTo[i]
  BY <1>1, <1>2 DEF Instances
<1>5. m = PoolSize - 1 => Rest
  <2> HAVE m = PoolSize - 1
  <2>1. \A i \in Instances : sentTo'[i] = q + 1 /\ ~(1 <= i /\ i <= k)
    BY <1>1, <1>2, <1>3, <1>4 DEF Instances
  <2> QED
    BY <2>1
<1>6. m # PoolSize - 1 => Rest
  <2> HAVE m # PoolSize - 1
  <2>1. ASSUME NEW i \in Instances
        PROVE  sentTo'[i] = IF 1 <= i /\ i <= k THEN q + 1 ELSE q
    <3>1. CASE i = k
      BY <1>1, <1>2, <1>3, <1>4, <3>1 DEF Instances
    <3>2. CASE i # k
      BY <1>1, <1>2, <1>3, <1>4, <3>2 DEF Instances
    <3> QED
      BY <3>1, <3>2
  <2> QED
    BY <2>1
<1>7. Rest
  BY <1>5, <1>6
<1> QED
  BY <1>1, <1>7 DEF Share, k

\* nodeFor goes round the pool evenly.
THEOREM RoundRobin == CRSpec => []PoolBalanced
<1> DEFINE Even == \E q \in Nat : \A i \in Instances : sentTo[i] = Share(q, i)
<1>1. CRInit => Even
  <2> SUFFICES ASSUME CRInit PROVE Even
    OBVIOUS
  <2>1. \A i \in Instances : sentTo[i] = Share(0, i)
    <3>1. 0 % PoolSize = 0
      BY CallReplyAssumption
    <3> QED
      BY <3>1 DEF CRInit, Share, Instances
  <2> QED
    BY <2>1
<1>2. CRTypeOK /\ Even /\ [CRNext]_crvars => Even'
  <2> SUFFICES ASSUME CRTypeOK, Even, [CRNext]_crvars PROVE Even'
    OBVIOUS
  <2>1. CASE UNCHANGED <<lastSent, sentTo>>
    BY <2>1 DEF Share
  <2>2. ASSUME NEW r \in Requests, Register("lb", r) PROVE Even'
    <3>1. Forward(r)
      BY <2>2 DEF Register
    <3> QED
      BY <3>1, ForwardPool DEF PoolInv
  <2>3. (\E r \in Requests : Register("lb", r)) \/ UNCHANGED <<lastSent, sentTo>>
    BY DEF CRNext, Hops, Register, Push, Carry, Redeliver, GiveUp, Answer, pushFrame,
           ReplyLoop, Lookup, Delete, ClientCallback, LBCallback, Clean, loopFrame,
           sendVars, crvars
  <2> QED
    BY <2>1, <2>2, <2>3
<1>3. CRTypeOK /\ Even => PoolBalanced
  <2> SUFFICES ASSUME CRTypeOK, NEW q \in Nat, NEW i \in Instances, NEW j \in Instances,
                      \A n \in Instances : sentTo[n] = Share(q, n)
               PROVE  sentTo[i] <= sentTo[j] + 1
    BY DEF PoolBalanced
  <2>1. sentTo[i] \in {q, q + 1} /\ sentTo[j] \in {q, q + 1}
    BY DEF Share
  <2> QED
    BY <2>1
<1> QED
  BY <1>1, <1>2, <1>3, CallReplyTypeCorrect, PTL DEF CRSpec
=============================================================================
