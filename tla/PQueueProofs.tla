---------------------------- MODULE PQueueProofs ----------------------------
(***************************************************************************)
(* Proofs about PQueue, for every set of items and of priorities.          *)
(*                                                                         *)
(* While an algorithm runs the heap has a hole: the item at the position   *)
(* where it is may be out of order with its parent, or with its children.  *)
(* What repairs the order is that the parent of the hole is in order with  *)
(* the children of the hole (Bridged).  That the root of a heap is least   *)
(* follows by infinite descent along the parents.                          *)
(***************************************************************************)
EXTENDS PQueue, WellFoundedInduction, TLAPS

Parent(i) == i \div 2

\* Position i is known to be in order with its parent.
InOrder(i) ==
  \/ mode = "idle"
  \/ mode = "up" /\ i # at
  \/ mode = "fix" /\ Parent(i) # at /\ (i # at \/ at # start)
  \/ mode = "pop" /\ Parent(i) # at

HeapButHole == \A i \in 2 .. Bound : InOrder(i) => Key(Parent(i)) <= Key(i)

Bridged ==
  mode # "idle" /\ at > 1 =>
    \A i \in 2 .. Bound : Parent(i) = at => Key(Parent(at)) <= Key(i)

\* What heap.Pop has put last is least.
LastIsLeast ==
  mode = "pop" => \A i \in 1 .. Len(pq) : Key(Len(pq)) <= Key(i)

Started == mode \in {"fix", "pop"} => start \in Nat /\ start <= at

PQInv ==
  PQTypeOK /\ IndexTracksPosition /\ HeapButHole /\ Bridged /\ LastIsLeast /\ Started

-----------------------------------------------------------------------------
(* Numbers.                                                                 *)

\* A parent comes before its child.
LEMMA ParentLess == \A i \in Nat : i >= 2 => Parent(i) \in 1 .. i - 1
BY DEF Parent

\* Each position has the two children that container/heap gives it.
LEMMA ParentChild == \A i, j \in Nat : Parent(i) = j <=> i = 2 * j \/ i = 2 * j + 1
BY DEF Parent

LessThan == {ss \in Nat \X Nat : ss[1] < ss[2]}

\* A set of naturals that is not empty has a least member.
LEMMA LeastNumber ==
  ASSUME NEW S \in SUBSET Nat, S # {}
  PROVE  \E m \in S : \A k \in S : m <= k
<1>1. OpToRel(<, Nat) = LessThan
  BY Zenon DEF OpToRel, LessThan
<1>2. PICK m \in S : \A k \in S : ~ (<<k, m>> \in LessThan)
  BY <1>1, NatLessThanWellFounded, WFMin, Zenon
<1>3. ASSUME NEW k \in S PROVE m <= k
  <2>1. k \in Nat /\ m \in Nat /\ ~ (<<k, m>> \in LessThan)
    BY <1>2
  <2>2. ~ (k < m)
    BY <2>1, SMT DEF LessThan
  <2> QED
    BY <2>1, <2>2
<1> QED
  BY <1>2, <1>3

\* Each position of the queue holds an item, with a priority.
LEMMA KeyTypes == PQTypeOK => \A i \in 1 .. Len(pq) : pq[i] \in Items /\ Key(i) \in Int
<1> SUFFICES ASSUME PQTypeOK, NEW i \in 1 .. Len(pq) PROVE pq[i] \in Items /\ Key(i) \in Int
  OBVIOUS
<1>1. pq[i] \in Items
  BY DEF PQTypeOK
<1> QED
  BY <1>1, PQueueAssumption DEF PQTypeOK, Key

\* A heap has a least item at its root.
LEMMA RootIsLeast ==
  ASSUME PQTypeOK, \A i \in 2 .. Len(pq) : Key(Parent(i)) <= Key(i)
  PROVE  \A i \in 1 .. Len(pq) : Key(1) <= Key(i)
<1> DEFINE S == {i \in 1 .. Len(pq) : Key(i) < Key(1)}
<1>1. \A i \in 1 .. Len(pq) : Key(i) \in Int
  BY KeyTypes
<1>2. Len(pq) \in Nat
  BY DEF PQTypeOK
<1>3. ASSUME S # {} PROVE FALSE
  <2>0. S \in SUBSET Nat
    BY <1>2
  <2>1. PICK m \in S : \A k \in S : m <= k
    <3> HIDE DEF S
    <3> QED
      BY <1>3, <2>0, LeastNumber
  <2>2. m \in 2 .. Len(pq) /\ Key(m) < Key(1)
    BY <1>1, <1>2
  <2>3. Parent(m) \in 1 .. m - 1 /\ Key(Parent(m)) <= Key(m)
    BY <1>2, <2>2, ParentLess
  <2>4. Parent(m) \in S
    BY <1>1, <1>2, <2>2, <2>3
  <2> QED
    BY <1>2, <2>1, <2>2, <2>3, <2>4
<1>4. \A i \in 1 .. Len(pq) : ~(Key(i) < Key(1))
  BY <1>3
<1> QED
  BY <1>1, <1>2, <1>4

-----------------------------------------------------------------------------
(* Swaps.                                                                   *)

\* Swapping two positions swaps their keys, and keeps the indices right.
LEMMA SwapFacts ==
  ASSUME PQTypeOK, IndexTracksPosition, NEW i \in 1 .. Len(pq), NEW j \in 1 .. Len(pq),
         Swap(i, j), UNCHANGED priority
  PROVE  /\ pq' \in Seq(Items) /\ Len(pq') = Len(pq)
         /\ index' \in [Items -> Nat] /\ IndexTracksPosition'
         /\ Key(i)' = Key(j) /\ Key(j)' = Key(i)
         /\ \A k \in 1 .. Len(pq) : k # i /\ k # j => Key(k)' = Key(k)
         /\ {pq'[k] : k \in 1 .. Len(pq')} = {pq[k] : k \in 1 .. Len(pq)}
<1> DEFINE n == Len(pq)
<1>1. /\ pq \in Seq(Items) /\ n \in Nat /\ index \in [Items -> Nat]
      /\ \A k \in 1 .. n : pq[k] \in Items
  BY KeyTypes DEF PQTypeOK
<1>2. /\ pq' \in Seq(Items) /\ Len(pq') = n
      /\ pq'[i] = pq[j] /\ pq'[j] = pq[i]
      /\ \A k \in 1 .. n : k # i /\ k # j => pq'[k] = pq[k]
  BY <1>1 DEF Swap
<1>3. /\ index' \in [Items -> Nat]
      /\ index'[pq[i]] = j /\ index'[pq[j]] = i
      /\ \A x \in Items : x # pq[i] /\ x # pq[j] => index'[x] = index[x]
  <2>1. pq[i] = pq[j] => i = j
    BY DEF IndexTracksPosition
  <2>2. PICK a \in Items, b \in Items : a = pq[i] /\ b = pq[j]
    BY <1>1
  <2>3. index' = [index EXCEPT ![b] = i, ![a] = j]
    BY <2>2 DEF Swap
  <2> QED
    BY <1>1, <2>1, <2>2, <2>3
<1> HIDE DEF n
<1>4. IndexTracksPosition'
  <2>1. ASSUME NEW k \in 1 .. n PROVE index'[pq'[k]] = k
    <3>1. CASE k = i \/ k = j
      BY <1>2, <1>3, <3>1
    <3>2. CASE k # i /\ k # j
      <4>1. index[pq[k]] = k /\ index[pq[i]] = i /\ index[pq[j]] = j
        BY DEF IndexTracksPosition, n
      <4> QED
        BY <1>1, <1>2, <1>3, <3>2, <4>1
    <3> QED
      BY <3>1, <3>2
  <2>2. ASSUME NEW x \in Items, index'[x] # 0 PROVE index'[x] <= n /\ pq'[index'[x]] = x
    <3>1. CASE x = pq[i]
      BY <1>2, <1>3, <3>1 DEF n
    <3>2. CASE x = pq[j]
      BY <1>2, <1>3, <3>2 DEF n
    <3>3. CASE x # pq[i] /\ x # pq[j]
      <4>1. index'[x] = index[x] /\ index[x] <= n /\ pq[index[x]] = x /\ index[x] \in 1 .. n
        BY <1>1, <1>3, <2>2, <3>3 DEF IndexTracksPosition, n
      <4> QED
        BY <1>2, <3>3, <4>1
    <3> QED
      BY <3>1, <3>2, <3>3
  <2> QED
    BY <1>2, <2>1, <2>2 DEF IndexTracksPosition
<1>5. /\ Key(i)' = Key(j) /\ Key(j)' = Key(i)
      /\ \A k \in 1 .. Len(pq) : k # i /\ k # j => Key(k)' = Key(k)
  BY <1>2 DEF Key, n
<1>6. {pq'[k] : k \in 1 .. n} = {pq[k] : k \in 1 .. n}
  <2>1. i \in 1 .. n /\ j \in 1 .. n
    BY DEF n
  <2>2. \A k \in 1 .. n : \E m \in 1 .. n : pq'[k] = pq[m]
    BY <1>2, <2>1
  <2>3. \A k \in 1 .. n : \E m \in 1 .. n : pq[k] = pq'[m]
    BY <1>2, <2>1
  <2>4. \A k \in 1 .. n : pq'[k] \in {pq[m] : m \in 1 .. n}
    BY <2>2
  <2>5. \A k \in 1 .. n : pq[k] \in {pq'[m] : m \in 1 .. n}
    BY <2>3
  <2> QED
    BY <2>4, <2>5
<1> QED
  BY <1>2, <1>3, <1>4, <1>5, <1>6 DEF n

-----------------------------------------------------------------------------
(* down.                                                                    *)

\* The child that down compares with is no greater than any other.
LEMMA LesserChildFacts ==
  ASSUME PQInv, mode \in {"fix", "pop"}, 2 * at <= Bound
  PROVE  /\ LesserChild \in at + 1 .. Bound /\ Parent(LesserChild) = at
         /\ \A i \in 2 .. Bound : Parent(i) = at => Key(LesserChild) <= Key(i)
<1>1. /\ Len(pq) \in Nat /\ Bound \in Int /\ Bound <= Len(pq)
      /\ at \in Nat /\ at >= 1
  BY DEF PQInv, PQTypeOK, Bound
<1>2. \A i \in 1 .. Bound : Key(i) \in Int
  BY <1>1, KeyTypes DEF PQInv
<1>3. LesserChild \in {2 * at, 2 * at + 1} /\ LesserChild <= Bound
  BY <1>1 DEF LesserChild
<1>4. Parent(LesserChild) = at
  <2>1. LesserChild \in Nat
    BY <1>1, <1>3
  <2> QED
    BY <1>1, <1>3, <2>1, ParentChild
<1>5. ASSUME NEW i \in 2 .. Bound, Parent(i) = at PROVE Key(LesserChild) <= Key(i)
  <2>1. i = 2 * at \/ i = 2 * at + 1
    BY <1>1, <1>5, ParentChild
  <2>2. Key(2 * at) \in Int /\ (2 * at + 1 <= Bound => Key(2 * at + 1) \in Int)
    BY <1>1, <1>2
  <2> QED
    BY <1>1, <2>1, <2>2 DEF LesserChild, Less
<1> QED
  BY <1>1, <1>3, <1>4, <1>5

\* A swap of down moves the hole to the lesser child.
LEMMA DownPQInv == ASSUME PQInv, Down PROVE PQInv'
<1>0. PQTypeOK /\ IndexTracksPosition /\ HeapButHole /\ Bridged /\ LastIsLeast /\ Started
  BY DEF PQInv
<1>1. /\ mode \in {"fix", "pop"} /\ 2 * at <= Bound /\ Less(LesserChild, at)
      /\ Swap(at, LesserChild) /\ at' = LesserChild
      /\ UNCHANGED <<priority, mode, start, popped>>
  BY DEF Down, Sinks
<1>2. /\ LesserChild \in at + 1 .. Bound /\ Parent(LesserChild) = at
      /\ \A i \in 2 .. Bound : Parent(i) = at => Key(LesserChild) <= Key(i)
  BY <1>1, LesserChildFacts
<1>3. /\ Len(pq) \in Nat /\ Bound \in Int /\ Bound <= Len(pq)
      /\ (mode = "pop" => Bound = Len(pq) - 1)
      /\ at \in 1 .. Len(pq) /\ start \in Nat
  BY <1>0, <1>1 DEF PQTypeOK, Bound
<1>4. PICK a \in Nat, c \in Nat, n \in Nat, len \in Nat :
        /\ a = at /\ c = LesserChild /\ n = Bound /\ len = Len(pq)
        /\ a \in 1 .. len /\ c \in a + 1 .. n /\ n <= len
  <2>1. /\ at \in Nat /\ LesserChild \in Nat /\ Bound \in Nat /\ Len(pq) \in Nat
        /\ at \in 1 .. Len(pq) /\ LesserChild \in at + 1 .. Bound /\ Bound <= Len(pq)
    BY <1>2, <1>3
  <2> QED
    BY <2>1
<1>5. /\ pq' \in Seq(Items) /\ Len(pq') = len
      /\ index' \in [Items -> Nat] /\ IndexTracksPosition'
      /\ Key(a)' = Key(c) /\ Key(c)' = Key(a)
      /\ \A k \in 1 .. len : k # a /\ k # c => Key(k)' = Key(k)
  <2>1. a \in 1 .. Len(pq) /\ c \in 1 .. Len(pq) /\ Swap(a, c)
    BY <1>1, <1>4
  <2> QED
    BY <1>0, <1>1, <1>4, <2>1, SwapFacts
<1>6. /\ Bound' = n /\ at' = c
      /\ \A k \in 1 .. len : Key(k) \in Int
  BY <1>0, <1>1, <1>4, <1>5, KeyTypes DEF Bound
<1>7. /\ Key(c) < Key(a) /\ Parent(c) = a
      /\ \A i \in 2 .. n : Parent(i) = a => Key(c) <= Key(i)
  BY <1>1, <1>2, <1>4 DEF Less
<1>8. PQTypeOK'
  <2>1. at' \in Nat /\ at' \in 1 .. Len(pq')
    BY <1>4, <1>5, <1>6
  <2> QED
    BY <1>0, <1>1, <1>5, <2>1 DEF PQTypeOK
<1>9. Started' /\ c # start
  BY <1>0, <1>1, <1>4, <1>6 DEF Started
<1>10. \A i \in 2 .. n : Parent(i) \in 1 .. i - 1 /\ i \in 1 .. len
  BY <1>4, ParentLess
<1>11. \A i \in 2 .. n : i # a /\ Parent(i) # a => Key(Parent(i)) <= Key(i)
  BY <1>0, <1>1, <1>4 DEF HeapButHole, InOrder
<1>12. HeapButHole'
  <2>1. ASSUME NEW i \in 2 .. n, Parent(i) # c  PROVE Key(Parent(i))' <= Key(i)'
    <3>0. PICK p \in Nat : p = Parent(i) /\ p \in 1 .. i - 1 /\ p \in 1 .. len /\ i \in 1 .. len
      <4>1. Parent(i) \in 1 .. i - 1 /\ i \in 1 .. len
        BY <1>10
      <4>2. Parent(i) \in Nat /\ Parent(i) \in 1 .. len
        BY <1>4, <4>1
      <4> QED
        BY <4>1, <4>2
    <3> SUFFICES Key(p)' <= Key(i)'
      BY <3>0
    <3>1. CASE i = c
      BY <1>4, <1>5, <1>6, <1>7, <3>0, <3>1
    <3>2. CASE i # c /\ p = a
      <4>1. Key(c) <= Key(i)
        <5>1. Parent(i) = a
          BY <3>0, <3>2
        <5> QED
          BY <1>7, <5>1
      <4>2. i # a
        BY <3>0, <3>2
      <4>3. Key(i)' = Key(i) /\ Key(p)' = Key(c)
        BY <1>5, <3>0, <3>2, <4>2
      <4> QED
        BY <4>1, <4>3
    <3>3. CASE i = a
      <4>1. Key(p) <= Key(c)
        BY <1>0, <1>1, <1>4, <1>7, <3>0, <3>3 DEF Bridged
      <4> QED
        BY <1>4, <1>5, <2>1, <3>0, <3>3, <4>1
    <3>4. CASE i # c /\ i # a /\ p # a
      <4>1. Key(p) <= Key(i)
        BY <1>11, <3>0, <3>4
      <4> QED
        BY <1>5, <2>1, <3>0, <3>4, <4>1
    <3> QED
      BY <3>1, <3>2, <3>3, <3>4
  <2>2. ASSUME NEW i \in 2 .. n, InOrder(i)'  PROVE Parent(i) # c
    BY <1>1, <1>6, <2>2 DEF InOrder
  <2> QED
    BY <1>6, <2>1, <2>2 DEF HeapButHole
<1>13. Bridged'
  <2>1. ASSUME NEW i \in 2 .. n, Parent(i) = c  PROVE Key(a)' <= Key(i)'
    <3>1. i # c /\ i # a /\ i \in 1 .. len /\ Parent(i) # a
      BY <1>4, <1>10, <2>1
    <3>2. Key(c) <= Key(i)
      BY <1>11, <2>1, <3>1
    <3> QED
      BY <1>5, <3>1, <3>2
  <2> QED
    BY <1>6, <1>7, <2>1 DEF Bridged
<1>14. LastIsLeast'
  <2> SUFFICES ASSUME mode = "pop", NEW k \in 1 .. len
               PROVE  Key(len)' <= Key(k)'
    BY <1>1, <1>5 DEF LastIsLeast
  <2>1. len # a /\ len # c /\ len \in 1 .. len
    BY <1>3, <1>4
  <2>2. \A m \in 1 .. len : Key(len) <= Key(m)
    BY <1>0, <1>4 DEF LastIsLeast
  <2>3. Key(k)' = Key(k) \/ Key(k)' = Key(a) \/ Key(k)' = Key(c)
    BY <1>5
  <2> QED
    BY <1>4, <1>5, <2>1, <2>2, <2>3
<1> QED
  BY <1>5, <1>8, <1>9, <1>12, <1>13, <1>14 DEF PQInv

\* When the item at the hole does not sink, nothing is out of order with its
\* children, nor anything else unless the item may still have to rise.
LEMMA Settled ==
  ASSUME PQInv, mode \in {"fix", "pop"}, ~Sinks
  PROVE  \A i \in 2 .. Bound :
           i # at \/ mode = "pop" \/ at # start => Key(Parent(i)) <= Key(i)
<1> SUFFICES ASSUME NEW i \in 2 .. Bound, i # at \/ mode = "pop" \/ at # start
             PROVE  Key(Parent(i)) <= Key(i)
  OBVIOUS
<1>1. /\ Len(pq) \in Nat /\ Bound \in Int /\ Bound <= Len(pq) /\ at \in 1 .. Len(pq)
      /\ \A k \in 1 .. Len(pq) : Key(k) \in Int
  BY KeyTypes DEF PQInv, PQTypeOK, Bound
<1>2. CASE Parent(i) # at
  BY <1>2 DEF PQInv, HeapButHole, InOrder
<1>3. CASE Parent(i) = at
  <2>1. 2 * at <= Bound
    <3>1. i = 2 * at \/ i = 2 * at + 1
      BY <1>1, <1>3, ParentChild
    <3> QED
      BY <1>1, <3>1
  <2>2. LesserChild \in 1 .. Len(pq) /\ Key(LesserChild) <= Key(i)
    BY <1>1, <1>3, <2>1, LesserChildFacts
  <2>3. ~(Key(LesserChild) < Key(at))
    BY <2>1 DEF Sinks, Less
  <2>4. i \in 1 .. Len(pq)
    BY <1>1
  <2>5. Key(at) \in Int /\ Key(i) \in Int /\ Key(LesserChild) \in Int
    BY <1>1, <2>2, <2>4
  <2> QED
    BY <1>3, <2>2, <2>3, <2>5
<1> QED
  BY <1>2, <1>3

\* When an updated item cannot sink, it has sunk or may rise.
LEMMA FixedPQInv == ASSUME PQInv, Fixed PROVE PQInv'
<1>1. /\ mode = "fix" /\ ~Sinks /\ UNCHANGED <<pq, priority, index, popped>>
      /\ \/ at = start /\ mode' = "up" /\ UNCHANGED <<at, start>>
         \/ at # start /\ mode' = "idle" /\ at' = 0 /\ start' = 0
  BY DEF Fixed, Stop
<1>2. /\ \A k \in Nat : Key(k)' = Key(k)
      /\ Bound = Len(pq) /\ Bound' = Len(pq) /\ Len(pq) \in Nat
  BY <1>1 DEF Key, Bound, PQInv, PQTypeOK
<1>3. \A i \in 2 .. Len(pq) : Parent(i) \in Nat /\ i \in Nat
  BY <1>2, ParentLess
<1>4. \A i \in 2 .. Len(pq) : i # at \/ at # start => Key(Parent(i)) <= Key(i)
  BY <1>1, <1>2, Settled
<1>5. PQTypeOK' /\ IndexTracksPosition' /\ LastIsLeast' /\ Started'
  BY <1>1 DEF PQInv, PQTypeOK, IndexTracksPosition, LastIsLeast, Started
<1>6. HeapButHole'
  <2>1. ASSUME NEW i \in 2 .. Len(pq), InOrder(i)'  PROVE Key(Parent(i))' <= Key(i)'
    <3>1. i # at \/ at # start
      BY <1>1, <2>1 DEF InOrder
    <3>2. PICK r \in Nat : r = Parent(i)
      BY <1>3
    <3>3. Key(r)' = Key(r) /\ Key(i)' = Key(i)
      BY <1>2, <1>3
    <3> QED
      BY <1>4, <3>1, <3>2, <3>3
  <2> QED
    BY <1>2, <2>1 DEF HeapButHole
<1>7. Bridged'
  <2>1. CASE mode' = "up"
    <3>1. at' = at /\ at \in Nat /\ (at > 1 => Parent(at) \in Nat)
      BY <1>1, <2>1, ParentLess DEF PQInv, PQTypeOK
    <3>2. ASSUME at > 1, NEW i \in 2 .. Len(pq), Parent(i) = at
          PROVE  Key(Parent(at)) <= Key(i)
      BY <1>1, <1>2, <3>2 DEF PQInv, Bridged
    <3>3. PICK a \in Nat : a = at
      BY <3>1
    <3>4. ASSUME a > 1, NEW i \in 2 .. Len(pq), Parent(i) = a
          PROVE  Key(Parent(a))' <= Key(i)'
      <4>1. Parent(a) \in Nat /\ i \in Nat /\ Key(Parent(a)) <= Key(i)
        BY <1>3, <3>1, <3>2, <3>3, <3>4
      <4>2. PICK r \in Nat : r = Parent(a)
        BY <4>1
      <4> QED
        BY <1>2, <4>1, <4>2
    <3> QED
      BY <1>2, <3>1, <3>3, <3>4 DEF Bridged
  <2>2. CASE mode' = "idle"
    BY <2>2 DEF Bridged
  <2> QED
    BY <1>1, <2>1, <2>2
<1> QED
  BY <1>5, <1>6, <1>7 DEF PQInv

-----------------------------------------------------------------------------
(* up.                                                                      *)

\* A swap of up moves the hole to the parent.
LEMMA UpPQInv == ASSUME PQInv, Up PROVE PQInv'
<1>0. PQTypeOK /\ IndexTracksPosition /\ HeapButHole /\ Bridged
  BY DEF PQInv
<1>1. /\ mode = "up" /\ at > 1 /\ Less(at, Parent(at)) /\ Swap(Parent(at), at)
      /\ at' = Parent(at) /\ UNCHANGED <<priority, mode, start, popped>>
  BY DEF Up, Rises, Parent
<1>2. Len(pq) \in Nat /\ at \in Nat /\ at \in 1 .. Len(pq) /\ Parent(at) \in 1 .. at - 1
  BY <1>0, <1>1, ParentLess DEF PQTypeOK
<1>3. PICK a \in Nat, p \in Nat, len \in Nat :
        /\ a = at /\ p = Parent(a) /\ len = Len(pq)
        /\ a \in 2 .. len /\ p \in 1 .. a - 1
  <2>1. Parent(at) \in Nat /\ at \in 2 .. Len(pq)
    BY <1>1, <1>2
  <2> QED
    BY <1>2, <2>1
<1>4. /\ pq' \in Seq(Items) /\ Len(pq') = len
      /\ index' \in [Items -> Nat] /\ IndexTracksPosition'
      /\ Key(p)' = Key(a) /\ Key(a)' = Key(p)
      /\ \A k \in 1 .. len : k # a /\ k # p => Key(k)' = Key(k)
  <2>1. a \in 1 .. Len(pq) /\ p \in 1 .. Len(pq) /\ Swap(p, a)
    BY <1>1, <1>3
  <2> QED
    BY <1>0, <1>1, <1>3, <2>1, SwapFacts
<1>5. /\ Bound = len /\ Bound' = len /\ at' = p /\ Key(a) < Key(p)
      /\ \A k \in 1 .. len : Key(k) \in Int
  BY <1>0, <1>1, <1>3, <1>4, KeyTypes DEF Bound, Less
<1>6. \A i \in 2 .. len : i # a => Key(Parent(i)) <= Key(i)
  BY <1>0, <1>1, <1>3, <1>5 DEF HeapButHole, InOrder
<1>7. \A i \in 2 .. len : Parent(i) = a => Key(p) <= Key(i)
  BY <1>0, <1>1, <1>3, <1>5 DEF Bridged
<1>8. \A i \in 2 .. len : Parent(i) \in 1 .. i - 1 /\ i \in 1 .. len /\ Parent(i) \in Nat
  BY <1>3, ParentLess
<1>9. PQTypeOK' /\ LastIsLeast' /\ Started'
  <2>1. at' \in Nat /\ at' \in 1 .. Len(pq')
    BY <1>3, <1>4, <1>5
  <2> QED
    BY <1>0, <1>1, <1>4, <2>1 DEF PQTypeOK, LastIsLeast, Started
<1>10. HeapButHole'
  <2>1. ASSUME NEW i \in 2 .. len, i # p  PROVE Key(Parent(i))' <= Key(i)'
    <3>0. PICK q \in Nat : q = Parent(i) /\ q \in 1 .. i - 1 /\ q \in 1 .. len /\ i \in 1 .. len
      <4>1. Parent(i) \in 1 .. i - 1 /\ i \in 1 .. len /\ Parent(i) \in Nat
        BY <1>8
      <4>2. Parent(i) \in 1 .. len
        BY <1>3, <4>1
      <4> QED
        BY <4>1, <4>2
    <3> SUFFICES Key(q)' <= Key(i)'
      BY <3>0
    <3>1. CASE i = a
      BY <1>3, <1>4, <1>5, <3>0, <3>1
    <3>2. CASE i # a /\ q = p
      <4>1. Key(i)' = Key(i) /\ Key(q)' = Key(a)
        BY <1>4, <2>1, <3>0, <3>2
      <4>2. Key(p) <= Key(i)
        BY <1>6, <3>0, <3>2
      <4>3. Key(a) \in Int /\ Key(p) \in Int /\ Key(i) \in Int
        BY <1>3, <1>5, <3>0, <3>2
      <4> QED
        BY <1>5, <4>1, <4>2, <4>3
    <3>3. CASE i # a /\ q = a
      <4>1. Key(i)' = Key(i) /\ Key(q)' = Key(p)
        BY <1>4, <2>1, <3>0, <3>3
      <4> QED
        BY <1>7, <3>0, <3>3, <4>1
    <3>4. CASE i # a /\ q # a /\ q # p
      <4>1. Key(i)' = Key(i) /\ Key(q)' = Key(q)
        BY <1>4, <2>1, <3>0, <3>4
      <4> QED
        BY <1>6, <3>0, <3>4, <4>1
    <3> QED
      BY <3>1, <3>2, <3>3, <3>4
  <2>2. ASSUME NEW i \in 2 .. len, InOrder(i)'  PROVE i # p
    BY <1>1, <1>5, <2>2 DEF InOrder
  <2> QED
    BY <1>5, <2>1, <2>2 DEF HeapButHole
<1>11. Bridged'
  <2>1. ASSUME p > 1, NEW i \in 2 .. len, Parent(i) = p  PROVE Key(Parent(p))' <= Key(i)'
    <3>1. p \in 2 .. len /\ p # a
      BY <1>3, <2>1
    <3>2. PICK r \in Nat : r = Parent(p) /\ r \in 1 .. p - 1
      BY <1>8, <3>1
    <3>3. Key(r)' = Key(r) /\ Key(r) <= Key(p) /\ r \in 1 .. len
      <4>1. r \in 1 .. len /\ r # p /\ r # a
        BY <1>3, <3>2
      <4> QED
        BY <1>4, <1>6, <3>1, <3>2, <4>1
    <3>4. i # p /\ i \in 1 .. len
      BY <1>8, <2>1
    <3>5. CASE i = a
      BY <1>4, <3>2, <3>3, <3>5
    <3>6. CASE i # a
      <4>1. Key(i)' = Key(i) /\ Key(p) <= Key(i)
        BY <1>4, <1>6, <2>1, <3>4, <3>6
      <4>2. Key(r) \in Int /\ Key(p) \in Int /\ Key(i) \in Int
        BY <1>3, <1>5, <3>3, <3>4
      <4> QED
        BY <3>2, <3>3, <4>1, <4>2
    <3> QED
      BY <3>5, <3>6
  <2> QED
    BY <1>5, <2>1 DEF Bridged
<1> QED
  BY <1>4, <1>9, <1>10, <1>11 DEF PQInv

\* An item that cannot rise closes the hole.
LEMMA RisenPQInv == ASSUME PQInv, Risen PROVE PQInv'
<1>1. /\ mode = "up" /\ ~(at > 1 /\ Less(at, Parent(at)))
      /\ mode' = "idle" /\ at' = 0 /\ start' = 0
      /\ UNCHANGED <<pq, priority, index, popped>>
  BY DEF Risen, Rises, Stop, Parent
<1>2. PQTypeOK' /\ IndexTracksPosition'
  BY <1>1 DEF PQInv, PQTypeOK, IndexTracksPosition
<1>3. /\ Len(pq) \in Nat /\ at \in Nat /\ Bound = Len(pq)
      /\ \A k \in 1 .. Len(pq) : Key(k) \in Int
  BY <1>1, KeyTypes DEF PQInv, PQTypeOK, Bound
<1>4. ASSUME NEW i \in 2 .. Len(pq) PROVE Key(Parent(i))' <= Key(i)'
  <2>0. PICK r \in Nat : r = Parent(i) /\ r \in 1 .. i - 1 /\ i \in 1 .. Len(pq) /\ r \in 1 .. Len(pq)
    <3>1. Parent(i) \in 1 .. i - 1
      BY <1>3, ParentLess
    <3> QED
      BY <1>3, <3>1
  <2>1. Key(r)' = Key(r) /\ Key(i)' = Key(i)
    BY <1>1 DEF Key
  <2>2. CASE i = at
    <3>1. ~(Key(i) < Key(r))
      BY <1>1, <1>3, <2>0, <2>2 DEF Less
    <3> QED
      BY <1>3, <2>0, <2>1, <3>1
  <2>3. CASE i # at
    <3>1. Key(r) <= Key(i)
      BY <1>1, <1>3, <2>0, <2>3 DEF PQInv, HeapButHole, InOrder
    <3> QED
      BY <2>0, <2>1, <3>1
  <2> QED
    BY <2>2, <2>3
<1>5. (HeapButHole /\ Bridged /\ LastIsLeast /\ Started)'
  BY <1>1, <1>3, <1>4 DEF HeapButHole, Bridged, LastIsLeast, Started, Bound
<1> QED
  BY <1>2, <1>5 DEF PQInv

-----------------------------------------------------------------------------
(* heap.Push.                                                               *)

\* Appending an item opens a hole at the end.
LEMMA PushPQInv ==
  ASSUME PQInv, NEW x \in Items, NEW p \in Priorities, Push(x, p)  PROVE PQInv'
<1>1. /\ mode = "idle" /\ index[x] = 0
      /\ priority' = [priority EXCEPT ![x] = p] /\ pq' = Append(pq, x)
      /\ index' = [index EXCEPT ![x] = Len(pq) + 1]
      /\ mode' = "up" /\ at' = Len(pq) + 1 /\ UNCHANGED <<start, popped>>
  BY DEF Push
<1>2. PICK n \in Nat : n = Len(pq)
  BY DEF PQInv, PQTypeOK
<1>3. /\ pq \in Seq(Items) /\ index \in [Items -> Nat]
      /\ priority \in [Items -> Priorities]
      /\ \A k \in 1 .. n : pq[k] \in Items /\ index[pq[k]] = k
      /\ \A y \in Items : index[y] # 0 => index[y] <= n /\ pq[index[y]] = y
  BY <1>2, KeyTypes DEF PQInv, PQTypeOK, IndexTracksPosition
<1>4. /\ pq' \in Seq(Items) /\ Len(pq') = n + 1 /\ pq'[n + 1] = x
      /\ \A k \in 1 .. n : pq'[k] = pq[k]
  BY <1>1, <1>2, <1>3
<1>5. \A k \in 1 .. n : pq[k] # x /\ Key(k)' = Key(k)
  <2> SUFFICES ASSUME NEW k \in 1 .. n PROVE pq[k] # x /\ Key(k)' = Key(k)
    OBVIOUS
  <2>1. pq[k] # x /\ pq[k] \in Items
    BY <1>1, <1>3
  <2> QED
    BY <1>1, <1>3, <1>4, <2>1 DEF Key
<1>6. PQTypeOK'
  BY <1>1, <1>2, <1>3, <1>4 DEF PQInv, PQTypeOK
<1>7. IndexTracksPosition'
  <2>1. index'[x] = n + 1 /\ \A y \in Items : y # x => index'[y] = index[y]
    BY <1>1, <1>2, <1>3
  <2>2. ASSUME NEW k \in 1 .. n + 1 PROVE index'[pq'[k]] = k
    <3>1. CASE k = n + 1
      BY <1>4, <2>1, <3>1
    <3>2. CASE k # n + 1
      <4>1. k \in 1 .. n
        BY <3>2
      <4> QED
        BY <1>3, <1>4, <1>5, <2>1, <4>1
    <3> QED
      BY <3>1, <3>2
  <2>3. ASSUME NEW y \in Items, index'[y] # 0 PROVE index'[y] <= n + 1 /\ pq'[index'[y]] = y
    <3>1. CASE y = x
      BY <1>4, <2>1, <3>1
    <3>2. CASE y # x
      <4>1. index'[y] = index[y] /\ index[y] \in 1 .. n /\ pq[index[y]] = y
        BY <1>3, <2>1, <2>3, <3>2
      <4> QED
        BY <1>4, <4>1
    <3> QED
      BY <3>1, <3>2
  <2> QED
    BY <1>4, <2>2, <2>3 DEF IndexTracksPosition
<1>8. \A i \in 2 .. n + 1 : Parent(i) \in 1 .. i - 1
  BY ParentLess
<1>9. Bound' = n + 1 /\ Bound = n
  BY <1>1, <1>2, <1>4 DEF Bound
<1>10. HeapButHole'
  <2>1. ASSUME NEW i \in 2 .. n + 1, i # n + 1  PROVE Key(Parent(i))' <= Key(i)'
    <3>1. PICK r \in Nat : r = Parent(i) /\ r \in 1 .. n /\ i \in 2 .. n /\ i \in 1 .. n
      <4>1. Parent(i) \in 1 .. i - 1
        BY <1>8
      <4> QED
        BY <2>1, <4>1
    <3>2. Key(r) <= Key(i)
      BY <1>1, <1>9, <3>1 DEF PQInv, HeapButHole, InOrder
    <3>3. Key(r)' = Key(r) /\ Key(i)' = Key(i)
      BY <1>5, <3>1
    <3> QED
      BY <3>1, <3>2, <3>3
  <2>2. ASSUME NEW i \in 2 .. n + 1, InOrder(i)'  PROVE i # n + 1
    BY <1>1, <1>2, <2>2 DEF InOrder
  <2> QED
    BY <1>9, <2>1, <2>2 DEF HeapButHole
<1>11. Bridged'
  <2>1. ASSUME NEW i \in 2 .. n + 1, Parent(i) = n + 1 PROVE FALSE
    BY <1>8, <2>1
  <2> QED
    BY <1>1, <1>2, <1>9, <2>1 DEF Bridged
<1>12. LastIsLeast' /\ Started'
  BY <1>1 DEF LastIsLeast, Started
<1> QED
  BY <1>6, <1>7, <1>10, <1>11, <1>12 DEF PQInv

-----------------------------------------------------------------------------
(* heap.Pop.                                                                *)

\* Swapping the root with the last item opens a hole at the root.
LEMMA StartPopPQInv == ASSUME PQInv, StartPop PROVE PQInv'
<1>1. /\ mode = "idle" /\ pq # <<>> /\ Swap(1, Len(pq))
      /\ mode' = "pop" /\ at' = 1 /\ start' = 1 /\ UNCHANGED <<priority, popped>>
  BY DEF StartPop
<1>2. PICK n \in Nat : n = Len(pq) /\ n >= 1
  BY <1>1 DEF PQInv, PQTypeOK
<1>3. /\ pq' \in Seq(Items) /\ Len(pq') = n
      /\ index' \in [Items -> Nat] /\ IndexTracksPosition'
      /\ Key(1)' = Key(n) /\ Key(n)' = Key(1)
      /\ \A k \in 1 .. n : k # 1 /\ k # n => Key(k)' = Key(k)
  <2>1. 1 \in 1 .. Len(pq) /\ n \in 1 .. Len(pq) /\ Swap(1, n)
    BY <1>1, <1>2
  <2> QED
    BY <1>1, <1>2, <2>1, SwapFacts DEF PQInv
<1>4. /\ Bound = n /\ Bound' = n - 1
      /\ \A i \in 2 .. n : Key(Parent(i)) <= Key(i)
  BY <1>1, <1>2, <1>3 DEF Bound, PQInv, HeapButHole, InOrder
<1>5. /\ \A i \in 1 .. n : Key(1) <= Key(i)
      /\ \A i \in 1 .. n : Key(i) \in Int
  BY <1>2, <1>4, RootIsLeast, KeyTypes DEF PQInv
<1>6. PQTypeOK' /\ Started' /\ Bridged'
  BY <1>1, <1>2, <1>3 DEF PQInv, PQTypeOK, Started, Bridged
<1>7. HeapButHole'
  <2>1. ASSUME NEW i \in 2 .. n - 1, Parent(i) # 1  PROVE Key(Parent(i))' <= Key(i)'
    <3>1. PICK r \in Nat : /\ r = Parent(i) /\ r # 1 /\ r # n /\ i # 1 /\ i # n
                           /\ r \in 1 .. n /\ i \in 1 .. n /\ i \in 2 .. n
      <4>1. Parent(i) \in 1 .. i - 1
        BY ParentLess
      <4> QED
        BY <1>2, <2>1, <4>1
    <3>2. Key(r)' = Key(r) /\ Key(i)' = Key(i) /\ Key(r) <= Key(i)
      BY <1>3, <1>4, <3>1
    <3> QED
      BY <3>1, <3>2
  <2>2. ASSUME NEW i \in 2 .. n - 1, InOrder(i)'  PROVE Parent(i) # 1
    BY <1>1, <2>2 DEF InOrder
  <2> QED
    BY <1>4, <2>1, <2>2 DEF HeapButHole
<1>8. LastIsLeast'
  <2>1. ASSUME NEW k \in 1 .. n PROVE Key(n)' <= Key(k)'
    <3>1. n \in 1 .. n /\ 1 \in 1 .. n
      BY <1>2
    <3>2. Key(k)' = Key(k) \/ Key(k)' = Key(1) \/ Key(k)' = Key(n)
      BY <1>3
    <3> QED
      BY <1>3, <1>5, <3>1, <3>2
  <2> QED
    BY <1>3, <2>1 DEF LastIsLeast
<1> QED
  BY <1>3, <1>6, <1>7, <1>8 DEF PQInv

\* Cutting the last item off leaves a heap.
LEMMA PopPQInv == ASSUME PQInv, Pop PROVE PQInv'
<1>1. /\ mode = "pop" /\ ~Sinks /\ popped' = pq[Len(pq)]
      /\ pq' = SubSeq(pq, 1, Len(pq) - 1) /\ index' = [index EXCEPT ![pq[Len(pq)]] = 0]
      /\ mode' = "idle" /\ at' = 0 /\ start' = 0 /\ UNCHANGED priority
  BY DEF Pop, Stop
<1>2. PICK n \in Nat : n = Len(pq) /\ n >= 1
  BY <1>1 DEF PQInv, PQTypeOK
<1>3. /\ pq \in Seq(Items) /\ index \in [Items -> Nat]
      /\ \A k \in 1 .. n : pq[k] \in Items /\ index[pq[k]] = k
      /\ \A y \in Items : index[y] # 0 => index[y] <= n /\ pq[index[y]] = y
  BY <1>2, KeyTypes DEF PQInv, PQTypeOK, IndexTracksPosition
<1>4. /\ pq' \in Seq(Items) /\ Len(pq') = n - 1
      /\ \A k \in 1 .. n - 1 : pq'[k] = pq[k]
  BY <1>1, <1>2, <1>3
<1>5. PICK z \in Items : z = pq[n]
  BY <1>2, <1>3
<1>6. /\ index' = [index EXCEPT ![z] = 0] /\ index[z] = n
      /\ popped' = z
  BY <1>1, <1>2, <1>3, <1>5
<1>7. PQTypeOK'
  BY <1>1, <1>3, <1>4, <1>6 DEF PQInv, PQTypeOK
<1>8. IndexTracksPosition'
  <2>1. ASSUME NEW k \in 1 .. n - 1 PROVE index'[pq'[k]] = k
    <3>1. k \in 1 .. n /\ k # n
      BY <1>2
    <3>2. index[pq[k]] = k /\ pq[k] \in Items /\ pq[k] # z
      BY <1>3, <1>6, <3>1
    <3> QED
      BY <1>3, <1>4, <1>6, <3>2
  <2>2. ASSUME NEW y \in Items, index'[y] # 0 PROVE index'[y] <= n - 1 /\ pq'[index'[y]] = y
    <3>1. y # z /\ index'[y] = index[y]
      BY <1>3, <1>6, <2>2
    <3>2. index[y] \in 1 .. n /\ pq[index[y]] = y
      BY <1>3, <2>2, <3>1
    <3>3. index[y] \in 1 .. n - 1
      BY <1>5, <3>1, <3>2
    <3> QED
      BY <1>4, <3>1, <3>2, <3>3
  <2> QED
    BY <1>4, <2>1, <2>2 DEF IndexTracksPosition
<1>9. Bound = n - 1 /\ Bound' = n - 1
  BY <1>1, <1>2, <1>4 DEF Bound
<1>10. HeapButHole'
  <2>1. ASSUME NEW i \in 2 .. n - 1  PROVE Key(Parent(i))' <= Key(i)'
    <3>1. PICK r \in Nat : r = Parent(i) /\ r \in 1 .. n - 1 /\ i \in 1 .. n - 1
      <4>1. Parent(i) \in 1 .. i - 1
        BY ParentLess
      <4> QED
        BY <4>1
    <3>2. Key(r) <= Key(i)
      BY <1>1, <1>9, <3>1, Settled
    <3>3. Key(r)' = Key(r) /\ Key(i)' = Key(i)
      BY <1>1, <1>4, <3>1 DEF Key
    <3> QED
      BY <3>1, <3>2, <3>3
  <2> QED
    BY <1>9, <2>1 DEF HeapButHole
<1>11. Bridged' /\ LastIsLeast' /\ Started'
  BY <1>1 DEF Bridged, LastIsLeast, Started
<1> QED
  BY <1>7, <1>8, <1>10, <1>11 DEF PQInv

-----------------------------------------------------------------------------
(* update.                                                                  *)

\* Assigning a priority opens a hole where the item is.
LEMMA UpdatePQInv ==
  ASSUME PQInv, NEW x \in Items, NEW p \in Priorities, Update(x, p)  PROVE PQInv'
<1>1. /\ mode = "idle" /\ priority' = [priority EXCEPT ![x] = p]
      /\ UNCHANGED <<pq, index, popped>>
      /\ \/ index[x] = 0 /\ UNCHANGED <<mode, at, start>>
         \/ index[x] # 0 /\ mode' = "fix" /\ at' = index[x] /\ start' = index[x]
  BY DEF Update
<1>2. PICK n \in Nat : n = Len(pq)
  BY DEF PQInv, PQTypeOK
<1>3. PICK a \in Nat : a = index[x]
  BY DEF PQInv, PQTypeOK
<1>4. /\ Bound = n /\ Bound' = n
      /\ \A i \in 2 .. n : Key(Parent(i)) <= Key(i)
  BY <1>1, <1>2 DEF PQInv, Bound, HeapButHole, InOrder
<1>5. \A k \in 1 .. n : k # a => Key(k)' = Key(k)
  <2> SUFFICES ASSUME NEW k \in 1 .. n, k # a PROVE Key(k)' = Key(k)
    OBVIOUS
  <2>1. pq[k] \in Items /\ index[pq[k]] = k
    BY <1>2, KeyTypes DEF PQInv, IndexTracksPosition
  <2>2. pq[k] # x
    BY <1>3, <2>1
  <2> QED
    BY <1>1, <2>1, <2>2 DEF Key, PQInv, PQTypeOK
<1>6. IndexTracksPosition' /\ LastIsLeast'
  BY <1>1 DEF PQInv, IndexTracksPosition, LastIsLeast
<1>7. \A i \in 2 .. n : Parent(i) \in 1 .. i - 1 /\ Parent(i) \in 1 .. n /\ i \in 1 .. n
  BY <1>2, ParentLess
<1>8. ASSUME NEW i \in 2 .. n, i # a, Parent(i) # a  PROVE Key(Parent(i))' <= Key(i)'
  <2>1. PICK r \in Nat : r = Parent(i) /\ r \in 1 .. n /\ i \in 1 .. n
    BY <1>7
  <2> QED
    BY <1>4, <1>5, <1>8, <2>1
<1>9. CASE a = 0
  <2>1. PQTypeOK' /\ Bridged' /\ Started'
    BY <1>1, <1>3, <1>9 DEF PQInv, PQTypeOK, Bridged, Started
  <2>2. \A i \in 2 .. n : i # a /\ Parent(i) # a
    BY <1>7, <1>9
  <2>3. HeapButHole'
    BY <1>4, <1>8, <2>2 DEF HeapButHole
  <2> QED
    BY <1>6, <2>1, <2>3 DEF PQInv
<1>10. CASE a # 0
  <2>1. a \in 1 .. n /\ mode' = "fix" /\ at' = a /\ start' = a
    BY <1>1, <1>2, <1>3, <1>10 DEF PQInv, IndexTracksPosition
  <2>2. PQTypeOK' /\ Started'
    BY <1>1, <1>2, <2>1 DEF PQInv, PQTypeOK, Started
  <2>3. HeapButHole'
    <3>1. ASSUME NEW i \in 2 .. n, InOrder(i)'  PROVE i # a /\ Parent(i) # a
      BY <2>1, <3>1 DEF InOrder
    <3> QED
      BY <1>4, <1>8, <3>1 DEF HeapButHole
  <2>4. Bridged'
    <3>1. ASSUME a > 1, NEW i \in 2 .. n, Parent(i) = a  PROVE Key(Parent(a))' <= Key(i)'
      <4>1. PICK r \in Nat : r = Parent(a) /\ r \in 1 .. a - 1 /\ r \in 1 .. n
        BY <1>7, <2>1, <3>1
      <4>2. Key(r) <= Key(a) /\ Key(a) <= Key(i)
        <5>1. a \in 2 .. n
          BY <2>1, <3>1
        <5> QED
          BY <1>4, <3>1, <4>1, <5>1
      <4>3. Key(r) \in Int /\ Key(a) \in Int /\ Key(i) \in Int /\ i # a /\ r # a
        BY <1>2, <1>7, <2>1, <3>1, <4>1, KeyTypes DEF PQInv
      <4>4. Key(r)' = Key(r) /\ Key(i)' = Key(i)
        BY <1>5, <1>7, <4>1, <4>3
      <4> QED
        BY <4>1, <4>2, <4>3, <4>4
    <3> QED
      BY <1>4, <2>1, <3>1 DEF Bridged
  <2> QED
    BY <1>6, <2>2, <2>3, <2>4 DEF PQInv
<1> QED
  BY <1>9, <1>10

-----------------------------------------------------------------------------

\* The empty queue is a heap.
LEMMA InitPQInv == PQInit => PQInv
<1> SUFFICES ASSUME PQInit PROVE PQInv
  OBVIOUS
<1>1. PQTypeOK
  <2>1. (CHOOSE p \in Priorities : TRUE) \in Priorities
    BY PQueueAssumption
  <2> QED
    BY <2>1 DEF PQInit, PQTypeOK
<1> QED
  BY <1>1 DEF PQInit, PQInv, IndexTracksPosition, HeapButHole, Bridged, LastIsLeast,
              Started, Bound

\* Each step preserves the invariant.
LEMMA NextPQInv == PQInv /\ [PQNext]_pqvars => PQInv'
<1> SUFFICES ASSUME PQInv, [PQNext]_pqvars PROVE PQInv'
  OBVIOUS
<1>1. CASE \E x \in Items, p \in Priorities : Push(x, p) \/ Update(x, p)
  BY <1>1, PushPQInv, UpdatePQInv
<1>2. CASE Up \/ Risen \/ Down \/ StartPop \/ Pop \/ Fixed
  BY <1>2, UpPQInv, RisenPQInv, DownPQInv, StartPopPQInv, PopPQInv, FixedPQInv
<1>3. CASE UNCHANGED pqvars
  BY <1>3 DEF PQInv, PQTypeOK, IndexTracksPosition, HeapButHole, Bridged, LastIsLeast,
              Started, Bound, InOrder, Key, pqvars
<1> QED
  BY <1>1, <1>2, <1>3 DEF PQNext

\* The inductive invariant of the priority queue.
THEOREM PQueueInvariance == PQSpec => []PQInv
BY InitPQInv, NextPQInv, PTL DEF PQSpec

\* The algorithms of the heap stay within the slice.
THEOREM PQueueTypeCorrect == PQSpec => []PQTypeOK
<1>1. PQInv => PQTypeOK
  BY DEF PQInv
<1> QED
  BY <1>1, PQueueInvariance, PTL

\* Whatever is done to a queue, each item knows where it is.
THEOREM IndexIsPosition == PQSpec => []IndexTracksPosition
<1>1. PQInv => IndexTracksPosition
  BY DEF PQInv
<1> QED
  BY <1>1, PQueueInvariance, PTL

\* Push, Pop and update restore the order of the heap.
THEOREM HeapIsOrdered == PQSpec => []HeapOrdered
<1>1. PQInv => HeapOrdered
  BY DEF PQInv, HeapButHole, InOrder, HeapOrdered, Bound, Parent
<1> QED
  BY <1>1, PQueueInvariance, PTL

\* Peak shows an item of least priority.
THEOREM PeakShowsLeast == PQSpec => []PeakIsLeast
<1>1. PQInv => PeakIsLeast
  <2> SUFFICES ASSUME PQInv, mode = "idle"
               PROVE  \A i \in 1 .. Len(pq) : Key(1) <= Key(i)
    BY DEF PeakIsLeast
  <2>1. \A i \in 2 .. Len(pq) : Key(Parent(i)) <= Key(i)
    BY DEF PQInv, HeapButHole, InOrder, Bound
  <2> QED
    BY <2>1, RootIsLeast DEF PQInv
<1> QED
  BY <1>1, PQueueInvariance, PTL

-----------------------------------------------------------------------------
(* The refinement.  Swaps only move items about; the abstract steps are the *)
(* Append of Push, the assignment of update, and PQueue.Pop.                *)

\* The abstract queue depends on the items held and their priorities only.
LEMMA QueueUnmoved ==
  ASSUME Queued' = Queued, UNCHANGED <<priority, popped>>
  PROVE  UNCHANGED <<QueuedPriorities, popped>>
BY DEF QueuedPriorities

\* Swaps are invisible to the abstract queue.
LEMMA SwapKeepsQueue ==
  ASSUME PQInv, Up \/ Down \/ StartPop
  PROVE  UNCHANGED <<QueuedPriorities, popped>>
<1>1. \E i, j \in 1 .. Len(pq) : Swap(i, j)
  <2>1. CASE Up
    <3>1. at \in 1 .. Len(pq) /\ at > 1 /\ Swap(at \div 2, at)
      BY <2>1 DEF Up, Rises, PQInv, PQTypeOK
    <3>2. at \div 2 \in 1 .. Len(pq)
      BY <3>1 DEF PQInv, PQTypeOK
    <3> QED
      BY <3>1, <3>2
  <2>2. CASE Down
    <3>1. mode \in {"fix", "pop"} /\ 2 * at <= Bound /\ Swap(at, LesserChild)
      BY <2>2 DEF Down, Sinks
    <3>2. LesserChild \in at + 1 .. Bound
      BY <3>1, LesserChildFacts
    <3>3. at \in 1 .. Len(pq) /\ LesserChild \in 1 .. Len(pq)
      BY <3>1, <3>2 DEF PQInv, PQTypeOK, Bound
    <3> QED
      BY <3>1, <3>3
  <2>3. CASE StartPop
    <3>1. 1 \in 1 .. Len(pq) /\ Len(pq) \in 1 .. Len(pq) /\ Swap(1, Len(pq))
      BY <2>3 DEF StartPop, PQInv, PQTypeOK
    <3> QED
      BY <3>1
  <2> QED
    BY <2>1, <2>2, <2>3
<1>2. UNCHANGED <<priority, popped>>
  BY DEF Up, Down, StartPop
<1>3. Queued' = Queued
  BY <1>1, <1>2, SwapFacts DEF Queued, PQInv
<1> QED
  BY <1>2, <1>3, QueueUnmoved

\* Push adds its item to the abstract queue.
LEMMA PushAdds ==
  ASSUME PQInv, NEW x \in Items, NEW p \in Priorities, Push(x, p)
  PROVE  MinQ!Add(x, p)
<1>1. /\ index[x] = 0 /\ priority' = [priority EXCEPT ![x] = p] /\ pq' = Append(pq, x)
      /\ UNCHANGED popped
  BY DEF Push
<1>2. PICK n \in Nat : n = Len(pq)
  BY DEF PQInv, PQTypeOK
<1>3. /\ Len(pq') = n + 1 /\ pq'[n + 1] = x
      /\ \A k \in 1 .. n : pq'[k] = pq[k] /\ pq[k] \in Items /\ pq[k] # x
  BY <1>1, <1>2, KeyTypes DEF PQInv, PQTypeOK, IndexTracksPosition
<1>4. x \notin Queued /\ Queued \subseteq Items
  BY <1>2, <1>3 DEF Queued
<1>5. Queued' = Queued \cup {x}
  <2>1. \A k \in 1 .. n + 1 : pq'[k] \in Queued \cup {x}
    <3> SUFFICES ASSUME NEW k \in 1 .. n + 1, k # n + 1 PROVE pq'[k] \in Queued
      BY <1>3
    <3>1. k \in 1 .. n
      OBVIOUS
    <3> QED
      BY <1>2, <1>3, <3>1 DEF Queued
  <2>2. \A k \in 1 .. n : k \in 1 .. n + 1
    OBVIOUS
  <2>3. Queued \cup {x} \subseteq Queued'
    <3>1. \A k \in 1 .. n : pq[k] \in Queued'
      BY <1>3, <2>2 DEF Queued
    <3>2. x \in Queued'
      BY <1>3 DEF Queued
    <3> QED
      BY <1>2, <3>1, <3>2 DEF Queued
  <2>4. Queued' \subseteq Queued \cup {x}
    BY <1>3, <2>1 DEF Queued
  <2> QED
    BY <2>3, <2>4
<1>6. priority'[x] = p /\ \A y \in Queued : priority'[y] = priority[y]
  BY <1>1, <1>4 DEF PQInv, PQTypeOK
<1> QED
  BY <1>1, <1>4, <1>5, <1>6 DEF MinQ!Add, QueuedPriorities

\* update changes the priority of an item that is queued.
LEMMA UpdateChanges ==
  ASSUME PQInv, NEW x \in Items, NEW p \in Priorities, Update(x, p)
  PROVE  MinQ!Change(x, p) \/ UNCHANGED <<QueuedPriorities, popped>>
<1>1. priority' = [priority EXCEPT ![x] = p] /\ UNCHANGED <<pq, popped>>
  BY DEF Update
<1>2. Queued' = Queued /\ Queued \subseteq Items
  BY <1>1, KeyTypes DEF Queued, PQInv
<1>3. /\ priority' \in [Items -> Priorities] /\ priority'[x] = p
      /\ \A y \in Items : y # x => priority'[y] = priority[y]
  BY <1>1 DEF PQInv, PQTypeOK
<1>4. CASE x \in Queued
  BY <1>1, <1>2, <1>3, <1>4 DEF MinQ!Change, QueuedPriorities
<1>5. CASE x \notin Queued
  <2>1. \A y \in Queued : priority'[y] = priority[y]
    BY <1>2, <1>3, <1>5
  <2> QED
    BY <1>1, <1>2, <2>1 DEF QueuedPriorities
<1> QED
  BY <1>4, <1>5

\* Pop takes a least item out of the abstract queue.
LEMMA PopTakesLeast ==
  ASSUME PQInv, Pop
  PROVE  \E x \in Items : MinQ!TakeLeast(x)
<1>1. /\ mode = "pop" /\ popped' = pq[Len(pq)]
      /\ pq' = SubSeq(pq, 1, Len(pq) - 1) /\ UNCHANGED priority
  BY DEF Pop
<1>2. PICK n \in Nat : n = Len(pq) /\ n >= 1
  BY <1>1 DEF PQInv, PQTypeOK
<1>3. /\ Len(pq') = n - 1
      /\ \A k \in 1 .. n - 1 : pq'[k] = pq[k]
      /\ \A k \in 1 .. n : pq[k] \in Items /\ index[pq[k]] = k
  BY <1>1, <1>2, KeyTypes DEF PQInv, PQTypeOK, IndexTracksPosition
<1>4. PICK z \in Items : z = pq[n]
  BY <1>2, <1>3
<1>5. z \in Queued /\ \A y \in Queued : priority[z] <= priority[y]
  BY <1>1, <1>2, <1>4 DEF Queued, PQInv, LastIsLeast, Key
<1>6. Queued' = Queued \ {z}
  <2>1. \A k \in 1 .. n - 1 : k \in 1 .. n /\ pq[k] # z
    BY <1>2, <1>3, <1>4
  <2>2. \A k \in 1 .. n : pq[k] # z => k \in 1 .. n - 1
    BY <1>4
  <2>3. Queued' \subseteq Queued \ {z}
    BY <1>2, <1>3, <2>1 DEF Queued
  <2>4. Queued \ {z} \subseteq Queued'
    BY <1>2, <1>3, <2>2 DEF Queued
  <2> QED
    BY <2>3, <2>4
<1>7. MinQ!TakeLeast(z)
  BY <1>1, <1>2, <1>4, <1>5, <1>6 DEF MinQ!TakeLeast, QueuedPriorities
<1> QED
  BY <1>7

\* A PQueue hands out least items, each once, whatever is pushed and updated.
THEOREM PQueueImplementsMinQueue == PQSpec => ImplementsMinQueue
<1>1. PQInit => MinQ!QInit(NoItem)
  <2> SUFFICES ASSUME PQInit PROVE QueuedPriorities = <<>> /\ popped = NoItem
    BY DEF MinQ!QInit
  <2>1. Queued = {}
    BY DEF PQInit, Queued
  <2> QED
    BY <2>1 DEF PQInit, QueuedPriorities
<1>2. PQInv /\ [PQNext]_pqvars => [MinQ!QNext]_MinQ!qvars
  <2> SUFFICES ASSUME PQInv, [PQNext]_pqvars
               PROVE  MinQ!QNext \/ UNCHANGED <<QueuedPriorities, popped>>
    BY DEF MinQ!qvars
  <2>1. CASE \E x \in Items, p \in Priorities : Push(x, p) \/ Update(x, p)
    BY <2>1, PushAdds, UpdateChanges DEF MinQ!QNext
  <2>2. CASE Up \/ Down \/ StartPop
    BY <2>2, SwapKeepsQueue
  <2>3. CASE Pop
    BY <2>3, PopTakesLeast DEF MinQ!QNext
  <2>4. CASE Risen \/ Fixed \/ UNCHANGED pqvars
    <3>1. UNCHANGED <<pq, priority, popped>>
      BY <2>4 DEF Risen, Fixed, pqvars
    <3> QED
      BY <3>1, QueueUnmoved DEF Queued
  <2> QED
    BY <2>1, <2>2, <2>3, <2>4 DEF PQNext
<1> QED
  BY <1>1, <1>2, PQueueInvariance, PTL DEF PQSpec, ImplementsMinQueue
=============================================================================
