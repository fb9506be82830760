------------------------- MODULE BaspDeliveryProofs -------------------------
(***************************************************************************)
(* Proofs about basp::message_queue and about the delivery of actor        *)
(* messages on a BASP connection that uses it.  For every set of receivers *)
(* and every number of messages, the queue ships IDs gaplessly in order,   *)
(* keeps its assertions, drains, and delivers as a single thread would.    *)
(* For any number of workers, the workers and the inline handler never     *)
(* violate the assertions of the queue, lose no message except the ones    *)
(* they give up, and deliver in order.                                     *)
(***************************************************************************)
EXTENDS BaspDelivery, TLAPS, WellFoundedInduction, SequenceTheorems

-----------------------------------------------------------------------------
(* The message queue *)

(* Every nonempty set of natural numbers has a least element. *)
LEMMA LeastNat ==
  ASSUME NEW T, T \subseteq Nat, T # {}
  PROVE  \E x \in T : \A y \in T : x <= y
<1>1. PICK x \in T : \A y \in T : ~(<<y, x>> \in OpToRel(<, Nat))
  BY NatLessThanWellFounded, WFMin
<1>2. \A y \in T : ~(y < x)
  BY <1>1 DEF OpToRel
<1>3. QED
  BY <1>2

(* The entries of a vector of messages have natural numbers as IDs. *)
LEMMA MsgIds ==
  ASSUME NEW q \in Seq(ActorMsg), NEW i \in 1 .. Len(q)
  PROVE  q[i] \in ActorMsg /\ q[i].id \in Ids /\ q[i].id \in Nat
<1>1. q[i] \in ActorMsg
  BY ElementOfSeq
<1>2. q[i].id \in Ids
  BY <1>1 DEF ActorMsg
<1>3. QED
  BY <1>1, <1>2, MQAssumption DEF Ids

(* What the delivery loop of push() computes: the longest run of           *)
(* consecutive IDs at the front of the vector.                             *)
LEMMA ReadyRunProps ==
  ASSUME NEW q \in Seq(ActorMsg), NEW next \in Nat
  PROVE  /\ ReadyRun(q, next) \in 0 .. Len(q)
         /\ \A i \in 1 .. ReadyRun(q, next) : q[i].id = next + i - 1
         /\ ReadyRun(q, next) < Len(q)
              => q[ReadyRun(q, next) + 1].id # next + ReadyRun(q, next)
<1> DEFINE T == {k \in 0 .. Len(q) : k < Len(q) => q[k + 1].id # next + k}
<1>1. T \subseteq Nat /\ Len(q) \in T
  OBVIOUS
<1>2. PICK k \in T : \A y \in T : k <= y
  BY <1>1, LeastNat
<1>3. \A i \in 1 .. k : q[i].id = next + i - 1
  <2> SUFFICES ASSUME NEW i \in 1 .. k PROVE q[i].id = next + i - 1
    OBVIOUS
  <2> k \in 0 .. Len(q)
    OBVIOUS
  <2> HIDE DEF T
  <2>0. i - 1 < k /\ i - 1 \in 0 .. Len(q)
    OBVIOUS
  <2>1. i - 1 \notin T
    BY <1>2, <2>0
  <2>2. q[(i - 1) + 1].id = next + (i - 1)
    BY <2>0, <2>1 DEF T
  <2>3. (i - 1) + 1 = i /\ next + (i - 1) = next + i - 1
    OBVIOUS
  <2>4. QED
    BY <2>2, <2>3
<1>4. QED
  BY <1>2, <1>3 DEF ReadyRun

(* What std::find_if computes in push(): the first position whose ID is    *)
(* not smaller than the new one.                                           *)
LEMMA InsertionPointProps ==
  ASSUME NEW q \in Seq(ActorMsg), NEW id \in Nat
  PROVE  /\ InsertionPoint(q, id) \in 1 .. (Len(q) + 1)
         /\ \A i \in 1 .. (InsertionPoint(q, id) - 1) : q[i].id < id
         /\ InsertionPoint(q, id) <= Len(q) => q[InsertionPoint(q, id)].id >= id
<1> DEFINE T == {k \in 1 .. (Len(q) + 1) : k <= Len(q) => q[k].id >= id}
<1>1. T \subseteq Nat /\ Len(q) + 1 \in T
  OBVIOUS
<1>2. PICK k \in T : \A y \in T : k <= y
  BY <1>1, LeastNat
<1>3. \A i \in 1 .. (k - 1) : q[i].id < id
  <2> SUFFICES ASSUME NEW i \in 1 .. (k - 1) PROVE q[i].id < id
    OBVIOUS
  <2> k \in 1 .. (Len(q) + 1)
    OBVIOUS
  <2> HIDE DEF T
  <2>1. i \in 1 .. Len(q) /\ i < k
    OBVIOUS
  <2>2. i \notin T
    BY <1>2, <2>1
  <2>3. q[i].id \in Nat
    BY <2>1, MsgIds
  <2>4. QED
    BY <2>1, <2>2, <2>3 DEF T
<1>4. QED
  BY <1>2, <1>3 DEF InsertionPoint

(* vector::emplace(position, message). *)
LEMMA InsertAtProps ==
  ASSUME NEW S, NEW s \in Seq(S), NEW e \in S, NEW k \in 1 .. (Len(s) + 1)
  PROVE  /\ InsertAt(s, k, e) \in Seq(S)
         /\ Len(InsertAt(s, k, e)) = Len(s) + 1
         /\ \A i \in 1 .. (Len(s) + 1) :
              InsertAt(s, k, e)[i] = IF i < k THEN s[i]
                                     ELSE IF i = k THEN e ELSE s[i - 1]
<1> DEFINE a == SubSeq(s, 1, k - 1)
           b == SubSeq(s, k, Len(s))
<1>1. a \in Seq(S) /\ Len(a) = k - 1 /\ \A i \in 1 .. (k - 1) : a[i] = s[i]
  BY SubSeqProperties
<1>2. /\ b \in Seq(S)
      /\ Len(b) = Len(s) - k + 1
      /\ \A i \in 1 .. (Len(s) - k + 1) : b[i] = s[k + i - 1]
  BY SubSeqProperties
<1> HIDE DEF a, b
<1>3. /\ a \o <<e>> \in Seq(S)
      /\ Len(a \o <<e>>) = k
      /\ \A i \in 1 .. k : (a \o <<e>>)[i] = IF i < k THEN a[i] ELSE e
  BY <1>1
<1>4. InsertAt(s, k, e) = (a \o <<e>>) \o b
  BY DEF InsertAt, a, b
<1> DEFINE c == a \o <<e>>
<1> HIDE DEF c
<1>5. /\ c \in Seq(S) /\ Len(c) = k
      /\ \A i \in 1 .. k : c[i] = IF i < k THEN s[i] ELSE e
  BY <1>1, <1>3 DEF c
<1>6. /\ c \o b \in Seq(S)
      /\ Len(c \o b) = Len(s) + 1
      /\ \A i \in 1 .. (Len(s) + 1) :
           (c \o b)[i] = IF i <= k THEN c[i] ELSE b[i - k]
  BY <1>2, <1>5, ConcatProperties
<1>7. \A i \in 1 .. (Len(s) + 1) : i > k => b[i - k] = s[i - 1]
  <2> SUFFICES ASSUME NEW i \in 1 .. (Len(s) + 1), i > k
               PROVE  b[i - k] = s[i - 1]
    OBVIOUS
  <2>1. i - k \in 1 .. (Len(s) - k + 1) /\ k + (i - k) - 1 = i - 1
    OBVIOUS
  <2>2. QED
    BY <1>2, <2>1
<1>8. QED
  BY <1>4, <1>5, <1>6, <1>7 DEF c

-----------------------------------------------------------------------------
(* Shipping the message everyone waits for, and what waited for it,        *)
(* preserves the invariant.                                                *)
LEMMA ShipHeadStep ==
  ASSUME MQInv, NEW msg \in ActorMsg, msg.id \in issued,
         msg.id = next_undelivered, ShipHead(msg),
         issued' = issued \ {msg.id}, next_id' = next_id
  PROVE  MQInv'
<1> DEFINE n == next_undelivered
           k == ReadyRun(pending, n + 1)
           L == Len(pending)
<1>1. n \in Nat /\ next_id \in Nat /\ pending \in Seq(ActorMsg)
      /\ L \in Nat /\ DOMAIN pending = 1 .. L
      /\ shipped \in Seq(ActorMsg) /\ Len(shipped) = n
      /\ n \in Ids /\ n < next_id
  BY MQAssumption DEF MQInv, MQTypeOK, ShipsInOrder, Ids, IssuedInWindow
<1>2. /\ k \in 0 .. L
      /\ \A i \in 1 .. k : pending[i].id = n + i
      /\ k < L => pending[k + 1].id # n + 1 + k
  <2>1. /\ k \in 0 .. L
        /\ \A i \in 1 .. k : pending[i].id = (n + 1) + i - 1
        /\ k < L => pending[k + 1].id # (n + 1) + k
    <3>1. n + 1 \in Nat
      BY <1>1
    <3> HIDE DEF n
    <3>2. QED
      BY <1>1, <3>1, ReadyRunProps
  <2>2. QED
    BY <2>1, <1>1
<1>3. /\ shipped' = (shipped \o <<msg>>) \o SubSeq(pending, 1, k)
      /\ pending' = SubSeq(pending, k + 1, L)
      /\ next_undelivered' = n + 1 + k
  BY DEF ShipHead
<1> HIDE DEF n, k, L
<1>4. /\ pending' \in Seq(ActorMsg)
      /\ Len(pending') = L - k
      /\ DOMAIN pending' = 1 .. (L - k)
      /\ \A j \in 1 .. (L - k) : pending'[j] = pending[k + j]
  <2> DEFINE d == SubSeq(pending, k + 1, L)
  <2>1. /\ k + 1 \in 1 .. (Len(pending) + 1)
        /\ L \in ((k + 1) - 1) .. Len(pending)
    BY <1>1, <1>2 DEF L
  <2>2. /\ d \in Seq(ActorMsg)
        /\ Len(d) = L - (k + 1) + 1
        /\ \A j \in 1 .. (L - (k + 1) + 1) : d[j] = pending[(k + 1) + j - 1]
    BY <1>1, <2>1, SubSeqProperties
  <2> HIDE DEF d
  <2>3. /\ d \in Seq(ActorMsg)
        /\ Len(d) = L - k
        /\ \A j \in 1 .. (L - k) : d[j] = pending[k + j]
    <3>1. L \in Int /\ k \in Int
      BY <1>1, <1>2
    <3>2. /\ L - (k + 1) + 1 = L - k
          /\ \A j \in 1 .. (L - k) : (k + 1) + j - 1 = k + j
      BY <3>1
    <3>3. QED
      BY <2>2, <3>2
  <2>4. DOMAIN d = 1 .. (L - k)
    BY <2>3
  <2>5. pending' = d
    BY <1>3 DEF d
  <2>6. QED
    BY <2>3, <2>4, <2>5
<1>5. /\ shipped' \in Seq(ActorMsg)
      /\ Len(shipped') = n + 1 + k
      /\ DOMAIN shipped' = 1 .. (n + 1 + k)
      /\ \A i \in 1 .. (n + 1 + k) :
           shipped'[i] = IF i <= n THEN shipped[i]
                         ELSE IF i = n + 1 THEN msg ELSE pending[i - n - 1]
  <2> DEFINE a == shipped \o <<msg>>
             b == SubSeq(pending, 1, k)
  <2>1. /\ a \in Seq(ActorMsg) /\ Len(a) = n + 1
        /\ \A i \in 1 .. (n + 1) : a[i] = IF i <= n THEN shipped[i] ELSE msg
    BY <1>1
  <2>2. /\ b \in Seq(ActorMsg) /\ Len(b) = k
        /\ \A i \in 1 .. k : b[i] = pending[i]
    BY <1>1, <1>2, SubSeqProperties DEF L
  <2>3. shipped' = a \o b
    BY <1>3
  <2> HIDE DEF a, b
  <2>4. /\ a \o b \in Seq(ActorMsg)
        /\ Len(a \o b) = n + 1 + k
        /\ \A i \in 1 .. (n + 1 + k) :
             (a \o b)[i] = IF i <= n + 1 THEN a[i] ELSE b[i - (n + 1)]
    <3>1. /\ a \o b \in Seq(ActorMsg)
          /\ Len(a \o b) = Len(a) + Len(b)
          /\ \A i \in 1 .. (Len(a) + Len(b)) :
               (a \o b)[i] = IF i <= Len(a) THEN a[i] ELSE b[i - Len(a)]
      BY <2>1, <2>2, ConcatProperties
    <3>2. Len(a) + Len(b) = n + 1 + k
      BY <2>1, <2>2
    <3>3. QED
      BY <2>1, <3>1, <3>2
  <2>5. DOMAIN (a \o b) = 1 .. (n + 1 + k)
    BY <2>4
  <2>6. ASSUME NEW i \in 1 .. (n + 1 + k)
        PROVE  (a \o b)[i] = IF i <= n THEN shipped[i]
                              ELSE IF i = n + 1 THEN msg ELSE pending[i - n - 1]
    <3>1. CASE i <= n + 1
      BY <1>1, <2>1, <2>4, <3>1
    <3>2. CASE i > n + 1
      <4>1. i - (n + 1) \in 1 .. k /\ i - (n + 1) = i - n - 1
        BY <1>1, <1>2, <3>2
      <4>2. QED
        BY <1>1, <2>2, <2>4, <3>2, <4>1
    <3>3. i <= n + 1 \/ i > n + 1
      BY <1>1, <1>2
    <3>4. QED
      BY <3>1, <3>2, <3>3, Zenon
  <2>7. QED
    BY <2>3, <2>4, <2>5, <2>6
<1>6. \A i \in 1 .. L : /\ pending[i].id \in Ids
                        /\ pending[i].id \in Nat
                        /\ pending[i].id > n
                        /\ pending[i].id < next_id
                        /\ \A j \in 1 .. (i - 1) : pending[j].id < pending[i].id
  BY <1>1, MsgIds DEF MQInv, PendingIsBlocked, n, L
<1>7. n + 1 + k <= next_id
  <2>1. CASE k = 0
    BY <1>1, <2>1
  <2>2. CASE k > 0
    <3>1. k \in 1 .. L /\ k \in 1 .. k
      BY <1>1, <1>2, <2>2
    <3>2. pending[k].id = n + k /\ pending[k].id < next_id
      BY <3>1, <1>2, <1>6
    <3>3. QED
      BY <3>2, <1>1, <1>2
  <2>3. QED
    BY <1>1, <1>2, <2>1, <2>2
<1>8. MQTypeOK'
  <2>1. next_undelivered' \in Nat
    BY <1>1, <1>2, <1>3
  <2>2. next_id' \in 0 .. (MaxId + 1) /\ issued' \subseteq Ids
    BY DEF MQInv, MQTypeOK
  <2>3. QED
    BY <1>4, <1>5, <2>1, <2>2 DEF MQTypeOK
<1>9. ShipsInOrder'
  <2> SUFFICES ASSUME NEW i \in 1 .. (n + 1 + k) PROVE shipped'[i].id = i - 1
    BY <1>3, <1>5 DEF ShipsInOrder
  <2>1. CASE i <= n
    <3>1. i \in DOMAIN shipped
      BY <1>1, <2>1
    <3>2. shipped[i].id = i - 1
      BY <3>1 DEF MQInv, ShipsInOrder
    <3>3. QED
      BY <1>5, <2>1, <3>2
  <2>2. CASE i = n + 1
    BY <1>1, <1>5, <2>2 DEF n
  <2>3. CASE i > n + 1
    <3>1. i - n - 1 \in 1 .. k
      BY <1>1, <1>2, <2>3
    <3>2. pending[i - n - 1].id = n + (i - n - 1)
      BY <1>2, <3>1
    <3>3. QED
      BY <1>1, <1>2, <1>5, <2>3, <3>2
  <2>4. QED
    BY <1>1, <1>2, <2>1, <2>2, <2>3
<1>10. k < L => pending[k + 1].id > n + 1 + k
  <2> HAVE k < L
  <2>1. k + 1 \in 1 .. L
    BY <1>1, <1>2
  <2>2. CASE k = 0
    BY <1>1, <1>2, <1>6, <2>1, <2>2
  <2>3. CASE k > 0
    <3>1. k \in 1 .. ((k + 1) - 1) /\ k \in 1 .. k
      BY <1>1, <1>2, <2>3
    <3>2. pending[k].id < pending[k + 1].id /\ pending[k].id = n + k
      BY <1>2, <1>6, <2>1, <3>1
    <3>3. pending[k + 1].id \in Nat /\ pending[k + 1].id # n + 1 + k
      BY <1>2, <1>6, <2>1
    <3>4. QED
      BY <1>1, <1>2, <3>2, <3>3
  <2>4. QED
    BY <1>1, <1>2, <2>2, <2>3
<1>11. PendingIsBlocked'
  <2> SUFFICES ASSUME NEW i \in 1 .. (L - k)
               PROVE  /\ pending'[i].id > n + 1 + k
                      /\ \A j \in 1 .. (i - 1) : pending'[j].id < pending'[i].id
    BY <1>3, <1>4 DEF PendingIsBlocked
  <2>1. k + i \in 1 .. L /\ pending'[i] = pending[k + i]
    BY <1>1, <1>2, <1>4
  <2>2. pending[k + i].id > n + 1 + k
    <3>1. CASE i = 1
      BY <1>1, <1>2, <1>10, <2>1, <3>1
    <3>2. CASE i > 1
      <4>1. k + 1 \in 1 .. ((k + i) - 1) /\ k < L /\ k + 1 \in 1 .. L
        BY <1>1, <1>2, <3>2
      <4>2. pending[k + 1].id < pending[k + i].id
        BY <1>6, <2>1, <4>1
      <4>3. QED
        BY <1>1, <1>2, <1>6, <1>10, <2>1, <4>1, <4>2
    <3>3. QED
      BY <3>1, <3>2
  <2>3. ASSUME NEW j \in 1 .. (i - 1)
        PROVE  pending'[j].id < pending'[i].id
    <3>1. /\ k + j \in 1 .. ((k + i) - 1)
          /\ pending'[j] = pending[k + j]
      <4>1. j \in 1 .. (L - k)
        BY <1>1, <1>2
      <4>2. QED
        BY <1>1, <1>2, <1>4, <4>1
    <3>2. QED
      BY <1>6, <2>1, <3>1
  <2>4. QED
    BY <2>1, <2>2, <2>3
<1>12. \A i \in DOMAIN pending' : pending'[i].id < next_id'
  <2> SUFFICES ASSUME NEW i \in 1 .. (L - k) PROVE pending'[i].id < next_id
    BY <1>1, <1>2, <1>4
  <2>1. k + i \in 1 .. L /\ pending'[i] = pending[k + i]
    BY <1>1, <1>2, <1>4
  <2>2. QED
    BY <1>6, <2>1
<1>13. IssuedInWindow'
  <2> SUFFICES ASSUME NEW id \in issued, id # n
               PROVE  /\ n + 1 + k <= id
                      /\ id < next_id
                      /\ \A i \in 1 .. (L - k) : pending'[i].id # id
    BY <1>3, <1>4 DEF IssuedInWindow, n
  <2>1. /\ id \in Nat /\ n <= id /\ id < next_id
        /\ \A i \in 1 .. L : pending[i].id # id
    BY <1>1, MQAssumption DEF MQInv, MQTypeOK, IssuedInWindow, Ids, n, L
  <2>2. n + 1 + k <= id
    <3> SUFFICES ASSUME id < n + 1 + k PROVE FALSE
      BY <1>1, <1>2, <2>1
    <3>1. id - n \in 1 .. k /\ id - n \in 1 .. L
      BY <1>1, <1>2, <2>1
    <3>2. pending[id - n].id = n + (id - n)
      BY <1>2, <3>1
    <3>3. QED
      BY <1>1, <2>1, <3>1, <3>2
  <2>3. ASSUME NEW i \in 1 .. (L - k) PROVE pending'[i].id # id
    BY <1>1, <1>2, <1>4, <2>1
  <2>4. QED
    BY <2>1, <2>2, <2>3
<1>14. NoneForgotten'
  <2> SUFFICES ASSUME NEW id \in (n + 1 + k) .. (next_id - 1)
               PROVE  \/ id \in issued \ {n}
                      \/ \E i \in 1 .. (L - k) : pending'[i].id = id
    BY <1>3, <1>4 DEF NoneForgotten, n
  <2>1. id \in n .. (next_id - 1) /\ id # n
    BY <1>1, <1>2
  <2>2. CASE id \in issued
    BY <2>1, <2>2
  <2>3. CASE \E i \in 1 .. L : pending[i].id = id
    <3>1. PICK i \in 1 .. L : pending[i].id = id
      BY <2>3
    <3>2. ~(i <= k)
      <4> SUFFICES ASSUME i <= k PROVE FALSE
        OBVIOUS
      <4>1. pending[i].id = n + i
        BY <1>1, <1>2
      <4>2. QED
        BY <1>1, <1>2, <3>1, <4>1
    <3>3. i - k \in 1 .. (L - k) /\ k + (i - k) = i
      BY <1>1, <1>2, <3>2
    <3>4. pending'[i - k] = pending[i]
      BY <1>4, <3>3
    <3>5. QED
      BY <3>1, <3>3, <3>4
  <2>4. QED
    BY <1>1, <2>1, <2>2, <2>3 DEF MQInv, NoneForgotten, n, L
<1>15. QED
  BY <1>3, <1>7, <1>8, <1>9, <1>11, <1>12, <1>13, <1>14 DEF MQInv

(* Stashing a message that got ready too early preserves the invariant. *)
LEMMA StashStep ==
  ASSUME MQInv, NEW msg \in ActorMsg, msg.id \in issued,
         msg.id # next_undelivered, Stash(msg),
         issued' = issued \ {msg.id}, next_id' = next_id
  PROVE  MQInv'
<1> DEFINE n == next_undelivered
           L == Len(pending)
           x == msg.id
           p == InsertionPoint(pending, x)
<1>1. /\ n \in Nat /\ next_id \in Nat /\ pending \in Seq(ActorMsg)
      /\ L \in Nat /\ DOMAIN pending = 1 .. L
      /\ x \in Nat /\ n < x /\ x < next_id
      /\ \A i \in 1 .. L : pending[i].id # x
  <2>1. /\ n \in Nat /\ next_id \in Nat /\ pending \in Seq(ActorMsg)
        /\ issued \subseteq Ids
    BY MQAssumption DEF MQInv, MQTypeOK
  <2>0. x \in Nat
    <3>1. x \in Ids
      BY <2>1
    <3> HIDE DEF x
    <3>2. QED
      BY <3>1, MQAssumption DEF Ids
  <2>2. L \in Nat /\ DOMAIN pending = 1 .. L
    BY <2>1
  <2>3. n <= x /\ x < next_id /\ \A i \in DOMAIN pending : pending[i].id # x
    BY DEF MQInv, IssuedInWindow
  <2>4. QED
    BY <2>0, <2>1, <2>2, <2>3
<1>2. /\ p \in 1 .. (L + 1)
      /\ \A i \in 1 .. (p - 1) : pending[i].id < x
      /\ p <= L => pending[p].id >= x
  <2> HIDE DEF x
  <2>1. QED
    BY <1>1, InsertionPointProps
<1>3. pending' = InsertAt(pending, p, msg) /\ UNCHANGED <<next_undelivered, shipped>>
  BY DEF Stash
<1> HIDE DEF n, L, x, p
<1>4. /\ pending' \in Seq(ActorMsg)
      /\ Len(pending') = L + 1
      /\ DOMAIN pending' = 1 .. (L + 1)
      /\ \A i \in 1 .. (L + 1) :
           pending'[i] = IF i < p THEN pending[i]
                         ELSE IF i = p THEN msg ELSE pending[i - 1]
  <2> DEFINE d == InsertAt(pending, p, msg)
  <2>1. /\ d \in Seq(ActorMsg)
        /\ Len(d) = L + 1
        /\ \A i \in 1 .. (L + 1) :
             d[i] = IF i < p THEN pending[i]
                    ELSE IF i = p THEN msg ELSE pending[i - 1]
    BY <1>1, <1>2, InsertAtProps DEF L
  <2> HIDE DEF d
  <2>2. DOMAIN d = 1 .. (L + 1)
    BY <2>1
  <2>3. pending' = d
    BY <1>3 DEF d
  <2>4. QED
    BY <2>1, <2>2, <2>3
<1>5. \A i \in 1 .. L : /\ pending[i].id \in Nat
                        /\ pending[i].id > n
                        /\ pending[i].id < next_id
                        /\ \A j \in 1 .. (i - 1) : pending[j].id < pending[i].id
  BY <1>1, MsgIds DEF MQInv, PendingIsBlocked, n, L
<1>6. \A i \in p .. L : pending[i].id > x
  <2> SUFFICES ASSUME NEW i \in p .. L PROVE pending[i].id > x
    OBVIOUS
  <2>1. i \in 1 .. L /\ p \in 1 .. L /\ pending[p].id > x
    <3>1. i \in 1 .. L /\ p \in 1 .. L /\ p <= L
      BY <1>1, <1>2
    <3>2. QED
      BY <1>1, <1>2, <1>5, <3>1
  <2>2. CASE i = p
    BY <2>1, <2>2
  <2>3. CASE i > p
    <3>1. p \in 1 .. (i - 1)
      BY <1>1, <1>2, <2>1, <2>3
    <3>2. pending[p].id < pending[i].id
      BY <1>5, <2>1, <3>1
    <3>3. QED
      BY <1>1, <1>5, <2>1, <3>2
  <2>4. QED
    BY <1>1, <1>2, <2>2, <2>3
<1>7. MQTypeOK'
  BY <1>3, <1>4 DEF MQInv, MQTypeOK
<1>8. ShipsInOrder'
  BY <1>3 DEF MQInv, ShipsInOrder
<1>9. \A i \in 1 .. (L + 1) :
        /\ pending'[i].id \in Nat
        /\ pending'[i].id > n
        /\ pending'[i].id < next_id
        /\ i < p => pending'[i] = pending[i]
        /\ i = p => pending'[i] = msg
        /\ i > p => i - 1 \in p .. L /\ pending'[i] = pending[i - 1]
  <2> SUFFICES ASSUME NEW i \in 1 .. (L + 1)
               PROVE  /\ pending'[i].id \in Nat
                      /\ pending'[i].id > n
                      /\ pending'[i].id < next_id
                      /\ i < p => pending'[i] = pending[i]
                      /\ i = p => pending'[i] = msg
                      /\ i > p => i - 1 \in p .. L /\ pending'[i] = pending[i - 1]
    OBVIOUS
  <2>1. CASE i < p
    <3>1. i \in 1 .. L
      BY <1>1, <1>2, <2>1
    <3>2. QED
      BY <1>1, <1>2, <1>4, <1>5, <2>1, <3>1
  <2>2. CASE i = p
    BY <1>1, <1>2, <1>4, <2>2 DEF x
  <2>3. CASE i > p
    <3>1. i - 1 \in 1 .. L /\ i - 1 \in p .. L
      BY <1>1, <1>2, <2>3
    <3>2. QED
      BY <1>1, <1>2, <1>4, <1>5, <2>3, <3>1
  <2>4. QED
    BY <1>1, <1>2, <2>1, <2>2, <2>3
<1>10. PendingIsBlocked'
  <2> SUFFICES ASSUME NEW i \in 1 .. (L + 1), NEW j \in 1 .. (i - 1)
               PROVE  pending'[j].id < pending'[i].id
    BY <1>3, <1>4, <1>9 DEF PendingIsBlocked, n
  <2>1. j \in 1 .. (L + 1)
    BY <1>1
  <2>2. CASE i < p
    <3>1. i \in 1 .. L /\ j < p
      BY <1>1, <1>2, <2>2
    <3>2. QED
      BY <1>5, <1>9, <2>1, <2>2, <3>1
  <2>3. CASE i = p
    <3>1. j \in 1 .. (p - 1) /\ j < p
      BY <2>3, <1>2
    <3>2. QED
      BY <1>2, <1>9, <2>1, <2>3, <3>1 DEF x
  <2>4. CASE i > p
    <3>1. i - 1 \in p .. L /\ i - 1 \in 1 .. L /\ pending'[i] = pending[i - 1]
      BY <1>1, <1>2, <1>9, <2>4
    <3>2. CASE j < p
      <4>1. j \in 1 .. ((i - 1) - 1) /\ pending'[j] = pending[j]
        BY <1>1, <1>2, <1>9, <2>1, <2>4, <3>2
      <4>2. QED
        BY <1>5, <3>1, <4>1
    <3>3. CASE j = p
      BY <1>6, <1>9, <2>1, <3>1, <3>3, <1>1, <1>5 DEF x
    <3>4. CASE j > p
      <4>1. j - 1 \in 1 .. ((i - 1) - 1) /\ pending'[j] = pending[j - 1]
        BY <1>1, <1>2, <1>9, <2>1, <3>4
      <4>2. QED
        BY <1>5, <3>1, <4>1
    <3>5. QED
      BY <1>1, <1>2, <3>2, <3>3, <3>4
  <2>5. QED
    BY <1>1, <1>2, <2>2, <2>3, <2>4
<1>11. \A i \in DOMAIN pending' : pending'[i].id < next_id'
  BY <1>4, <1>9
<1>12. IssuedInWindow'
  <2> SUFFICES ASSUME NEW id \in issued, id # x
               PROVE  /\ n <= id
                      /\ id < next_id
                      /\ \A i \in 1 .. (L + 1) : pending'[i].id # id
    BY <1>3, <1>4 DEF IssuedInWindow, n, x
  <2>1. /\ n <= id /\ id < next_id
        /\ \A i \in 1 .. L : pending[i].id # id
    BY <1>1 DEF MQInv, IssuedInWindow, n
  <2>2. ASSUME NEW i \in 1 .. (L + 1) PROVE pending'[i].id # id
    <3>1. CASE i < p
      <4>1. i \in 1 .. L /\ pending'[i] = pending[i]
        BY <1>1, <1>2, <1>9, <3>1
      <4>2. QED
        BY <2>1, <4>1
    <3>2. CASE i = p
      BY <1>9, <3>2 DEF x
    <3>3. CASE i > p
      <4>1. i - 1 \in 1 .. L /\ pending'[i] = pending[i - 1]
        BY <1>1, <1>2, <1>9, <3>3
      <4>2. QED
        BY <2>1, <4>1
    <3>4. QED
      BY <1>1, <1>2, <3>1, <3>2, <3>3
  <2>3. QED
    BY <2>1, <2>2
<1>13. NoneForgotten'
  <2> SUFFICES ASSUME NEW id \in n .. (next_id - 1)
               PROVE  \/ id \in issued \ {x}
                      \/ \E i \in 1 .. (L + 1) : pending'[i].id = id
    BY <1>3, <1>4 DEF NoneForgotten, n, x
  <2>1. CASE id = x
    <3>1. p \in 1 .. (L + 1) /\ pending'[p] = msg
      BY <1>1, <1>2, <1>9
    <3>2. QED
      BY <2>1, <3>1 DEF x
  <2>2. CASE id \in issued /\ id # x
    BY <2>2
  <2>3. CASE \E i \in 1 .. L : pending[i].id = id
    <3>1. PICK i \in 1 .. L : pending[i].id = id
      BY <2>3
    <3>2. CASE i < p
      <4>1. i \in 1 .. (L + 1) /\ pending'[i] = pending[i]
        BY <1>1, <1>9, <3>2
      <4>2. QED
        BY <3>1, <4>1
    <3>3. CASE i >= p
      <4>1. /\ i + 1 \in 1 .. (L + 1)
            /\ i + 1 > p
            /\ (i + 1) - 1 = i
        BY <1>1, <1>2, <3>3
      <4>2. pending'[i + 1] = pending[(i + 1) - 1]
        BY <1>9, <4>1
      <4>3. QED
        BY <3>1, <4>1, <4>2
    <3>4. QED
      BY <1>1, <1>2, <3>2, <3>3
  <2>4. id \in issued \/ \E i \in 1 .. L : pending[i].id = id
    BY <1>1 DEF MQInv, NoneForgotten, n
  <2>5. QED
    BY <2>1, <2>2, <2>3, <2>4
<1>14. QED
  BY <1>3, <1>7, <1>8, <1>10, <1>11, <1>12, <1>13 DEF MQInv

(* Drawing an ID preserves the invariant. *)
LEMMA NewIdStep == MQInv /\ NewId => MQInv'
<1> SUFFICES ASSUME MQInv, NewId PROVE MQInv'
  OBVIOUS
<1>1. /\ next_id \in Nat /\ next_undelivered \in Nat /\ next_id <= MaxId
      /\ next_undelivered <= next_id /\ MaxId \in Nat
      /\ next_id' = next_id + 1 /\ issued' = issued \cup {next_id}
      /\ UNCHANGED <<next_undelivered, pending, shipped>>
      /\ DOMAIN pending = 1 .. Len(pending)
  BY MQAssumption DEF MQInv, MQTypeOK, NewId
<1>2. \A i \in DOMAIN pending : pending[i].id \in Nat /\ pending[i].id < next_id
  BY <1>1, MsgIds DEF MQInv, MQTypeOK
<1>3. MQTypeOK'
  BY <1>1 DEF MQInv, MQTypeOK, Ids
<1>4. ShipsInOrder' /\ PendingIsBlocked'
  BY <1>1 DEF MQInv, ShipsInOrder, PendingIsBlocked
<1>5. next_undelivered' <= next_id' /\ \A i \in DOMAIN pending' : pending'[i].id < next_id'
  BY <1>1, <1>2
<1>6. IssuedInWindow'
  <2>1. \A id \in issued : id \in Nat
    BY <1>1 DEF MQInv, MQTypeOK, Ids
  <2>2. QED
    BY <1>1, <1>2, <2>1 DEF MQInv, IssuedInWindow
<1>7. NoneForgotten'
  BY <1>1 DEF MQInv, NoneForgotten
<1>8. QED
  BY <1>3, <1>4, <1>5, <1>6, <1>7 DEF MQInv

(* push() and drop() preserve the invariant. *)
LEMMA PushStep ==
  ASSUME MQInv, NEW id \in issued, NEW r \in Receivers \cup {NoReceiver},
         Push(id, r)
  PROVE  MQInv'
<1> DEFINE msg == [id |-> id, receiver |-> r]
<1>1. msg \in ActorMsg /\ msg.id = id
  BY DEF MQInv, MQTypeOK, ActorMsg
<1>2. PushMsg(msg) /\ issued' = issued \ {id} /\ next_id' = next_id
  BY DEF Push
<1> HIDE DEF msg
<1>3. CASE id = next_undelivered
  BY <1>1, <1>2, <1>3, ShipHeadStep DEF PushMsg
<1>4. CASE id # next_undelivered
  BY <1>1, <1>2, <1>4, StashStep DEF PushMsg
<1>5. QED
  BY <1>3, <1>4

(* Every operation of the queue preserves the invariant. *)
LEMMA MQStep == MQInv /\ [MQNext]_mqVars => MQInv'
<1> SUFFICES ASSUME MQInv, [MQNext]_mqVars PROVE MQInv'
  OBVIOUS
<1>1. CASE NewId
  BY <1>1, NewIdStep
<1>2. ASSUME NEW id \in issued, NEW r \in Receivers, Push(id, r)
      PROVE  MQInv'
  BY <1>2, PushStep
<1>3. ASSUME NEW id \in issued, Drop(id)
      PROVE  MQInv'
  BY <1>3, PushStep DEF Drop
<1>4. CASE UNCHANGED mqVars
  BY <1>4 DEF mqVars, MQInv, MQTypeOK, ShipsInOrder, PendingIsBlocked,
              IssuedInWindow, NoneForgotten
<1>5. QED
  BY <1>1, <1>2, <1>3, <1>4 DEF MQNext

(* The invariant holds of the empty queue. *)
LEMMA MQInitInv == MQInit => MQInv
BY MQAssumption DEF MQInit, MQInv, MQTypeOK, ShipsInOrder, PendingIsBlocked,
                    IssuedInWindow, NoneForgotten, ActorMsg, Ids

(* The invariant of message_queue holds in every state, for any number of  *)
(* IDs and receivers.                                                      *)
THEOREM QueueInvariant == MQSpec => []MQInv
<1>1. QED
  BY MQInitInv, MQStep, PTL DEF MQSpec

(* The queue ships 0, 1, 2, ... in this order (message_queue.hpp:17). *)
THEOREM QueueShipsInOrder == MQSpec => []ShipsInOrder
<1>1. MQInv => ShipsInOrder
  BY DEF MQInv
<1>2. QED
  BY <1>1, QueueInvariant, PTL

(* The CAF_ASSERTs at the top of push() never fire. *)
THEOREM QueueAssertions == MQSpec => []IssuedInWindow
<1>1. MQInv => IssuedInWindow
  BY DEF MQInv
<1>2. QED
  BY <1>1, QueueInvariant, PTL

(* The invariant implies that a queue whose callers are done is empty. *)
LEMMA InvDrains == MQInv => QueueDrains
<1> SUFFICES ASSUME MQInv, issued = {}
             PROVE  pending = <<>> /\ next_undelivered = next_id
  BY DEF QueueDrains
<1>1. /\ next_undelivered \in Nat /\ next_id \in Nat
      /\ next_undelivered <= next_id
      /\ pending \in Seq(ActorMsg) /\ DOMAIN pending = 1 .. Len(pending)
  BY MQAssumption DEF MQInv, MQTypeOK
<1>2. next_undelivered = next_id
  <2> SUFFICES ASSUME next_undelivered # next_id PROVE FALSE
    OBVIOUS
  <2>1. next_undelivered \in next_undelivered .. (next_id - 1)
    BY <1>1
  <2>2. PICK i \in DOMAIN pending : pending[i].id = next_undelivered
    BY <2>1 DEF MQInv, NoneForgotten
  <2>3. QED
    BY <1>1, <2>2 DEF MQInv, PendingIsBlocked
<1>3. pending = <<>>
  <2> SUFFICES ASSUME pending # <<>> PROVE FALSE
    OBVIOUS
  <2>1. 1 \in DOMAIN pending
    BY <1>1, EmptySeq
  <2>2. pending[1].id \in Nat
    BY <1>1, <2>1, MsgIds
  <2>3. pending[1].id > next_undelivered /\ pending[1].id < next_id
    BY <2>1 DEF MQInv, PendingIsBlocked
  <2>4. QED
    BY <1>1, <1>2, <2>2, <2>3
<1>4. QED
  BY <1>2, <1>3

(* Once all IDs were pushed or dropped, nothing stays behind. *)
THEOREM QueueEmpties == MQSpec => []QueueDrains
<1>1. QED
  BY InvDrains, QueueInvariant, PTL

-----------------------------------------------------------------------------
(* Every operation of the queue is a step of the single thread or leaves   *)
(* its view unchanged.                                                     *)
LEMMA RefinesStep ==
  MQInv /\ MQInv' /\ [MQNext]_mqVars => [Abstract!ODNext]_(Abstract!odVars)
<1> SUFFICES ASSUME MQInv, MQInv', [MQNext]_mqVars
             PROVE  [Abstract!ODNext]_(Abstract!odVars)
  OBVIOUS
<1> USE DEF Abstract!ODNext, Abstract!odVars
<1>1. CASE NewId
  BY <1>1 DEF NewId, Abstract!Take
<1>2. ASSUME NEW id \in issued, NEW r \in Receivers \cup {NoReceiver},
             Push(id, r)
      PROVE  [Abstract!ODNext]_(Abstract!odVars)
  <2> DEFINE msg == [id |-> id, receiver |-> r]
             k == ReadyRun(pending, id + 1)
  <2>1. CASE id # next_undelivered
    BY <1>2, <2>1 DEF Push, PushMsg, Stash
  <2>2. CASE id = next_undelivered
    <3>1. /\ shipped' = (shipped \o <<msg>>) \o SubSeq(pending, 1, k)
          /\ next_id' = next_id
      BY <1>2, <2>2 DEF Push, PushMsg, ShipHead
    <3>2. /\ shipped \in Seq(ActorMsg) /\ pending \in Seq(ActorMsg)
          /\ shipped' \in Seq(ActorMsg) /\ msg \in ActorMsg
          /\ id \in Nat
      BY MQAssumption DEF MQInv, MQTypeOK, ActorMsg, Ids
    <3>3. k \in 0 .. Len(pending)
      <4>1. id + 1 \in Nat
        BY <3>2
      <4>2. QED
        BY <3>2, <4>1, ReadyRunProps
    <3> DEFINE a == <<msg>> \o SubSeq(pending, 1, k)
    <3>4. a \in Seq(ActorMsg) /\ Len(a) = 1 + k
      <4>1. /\ SubSeq(pending, 1, k) \in Seq(ActorMsg)
            /\ Len(SubSeq(pending, 1, k)) = k
        BY <3>2, <3>3, SubSeqProperties
      <4>2. QED
        BY <3>2, <3>3, <4>1, ConcatProperties
    <3>5. shipped' = shipped \o a
      <4>1. SubSeq(pending, 1, k) \in Seq(ActorMsg) /\ <<msg>> \in Seq(ActorMsg)
        BY <3>2, <3>3, SubSeqProperties
      <4>2. QED
        <5> DEFINE b == SubSeq(pending, 1, k)
                   c == <<msg>>
        <5> HIDE DEF b, c
        <5>1. b \in Seq(ActorMsg) /\ c \in Seq(ActorMsg)
          BY <4>1 DEF b, c
        <5>2. (shipped \o c) \o b = shipped \o (c \o b)
          <6> DEFINE q == shipped
          <6>1. q \in Seq(ActorMsg)
            BY <3>2
          <6> HIDE DEF q
          <6>2. (q \o c) \o b = q \o (c \o b)
            BY <5>1, <6>1
          <6>3. QED
            BY <6>2 DEF q
        <5>3. QED
          BY <3>1, <5>2 DEF b, c
    <3> HIDE DEF a, k, msg
    <3>6. /\ Len(shipped) \in Nat /\ Len(shipped') \in Nat
          /\ Len(shipped') = Len(shipped) + 1 + k
          /\ k \in Nat
      <4>1. Len(shipped \o a) = Len(shipped) + Len(a)
        BY <3>2, <3>4, ConcatProperties
      <4>2. Len(shipped) \in Nat /\ Len(shipped') \in Nat /\ k \in Nat
        BY <3>2, <3>3, LenProperties
      <4>3. QED
        BY <3>4, <3>5, <4>1, <4>2
    <3>7. Len(shipped') <= next_id
      BY <3>1 DEF MQInv, ShipsInOrder
    <3>8. SubSeq(shipped', 1, Len(shipped)) = shipped
      BY <3>2, <3>4, <3>5, ConcatSimplifications, SubSeqOfConcat1, SubSeqFull
    <3>9. \A i \in (Len(shipped) + 1) .. Len(shipped') : shipped'[i].id = i - 1
      <4>1. DOMAIN shipped' = 1 .. Len(shipped')
        BY <3>2
      <4>2. QED
        BY <3>6, <4>1 DEF MQInv, ShipsInOrder
    <3>10. QED
      <4>1. Len(shipped) < Len(shipped')
        BY <3>6
      <4>2. Abstract!Finish
        BY <3>1, <3>7, <3>8, <3>9, <4>1, Zenon DEF Abstract!Finish
      <4>3. QED
        BY <4>2
  <2>3. QED
    BY <2>1, <2>2
<1>3. CASE UNCHANGED mqVars
  BY <1>3 DEF mqVars
<1>4. QED
  BY <1>1, <1>2, <1>3 DEF MQNext, Drop

(* The queue implements the abstract specification: it delivers messages   *)
(* "in the same order as if they were deserialized by a single thread".    *)
THEOREM QueueRefines == MQSpec => SingleThreaded
<1>1. MQInit => Abstract!ODInit
  BY DEF MQInit, Abstract!ODInit
<1>2. QED
  BY <1>1, RefinesStep, QueueInvariant, PTL
     DEF MQSpec, SingleThreaded, Abstract!ODSpec

-----------------------------------------------------------------------------
(* Delivery *)

(* Initially no ID was drawn. *)
LEMMA BDInitInv == Init => BDInv
<1> SUFFICES ASSUME Init PROVE BDInv
  OBVIOUS
<1>1. MQInv
  BY MQInitInv DEF Init
<1>2. Active = {} /\ Undone = {}
  BY DEF Init, Active, Undone
<1>3. TypeOK
  BY <1>1 DEF Init, TypeOK, MQInv
<1>4. OwnedIds
  BY <1>2 DEF Init, MQInit, OwnedIds
<1>5. QED
  BY <1>1, <1>3, <1>4 DEF Init, BDInv, Handlers

(* Every step of the connection is an operation of the queue or leaves the *)
(* queue alone.                                                            *)
LEMMA BDStepsQueue == TypeOK /\ [Next]_bdVars => [MQNext]_mqVars
<1> SUFFICES ASSUME TypeOK, [Next]_bdVars PROVE [MQNext]_mqVars
  OBVIOUS
<1>1. ASSUME NEW w \in Workers, NEW p \in Payloads, Launch(w, p)
      PROVE  MQNext
  BY <1>1 DEF Launch, Accept, MQNext
<1>2. ASSUME NEW p \in Payloads, RunInline(p) PROVE MQNext
  BY <1>2 DEF RunInline, Accept, MQNext
<1>3. ASSUME NEW h \in Handlers, Resolve(h) PROVE UNCHANGED mqVars
  BY <1>3 DEF Resolve
<1>4. ASSUME NEW h \in Handlers, Ship(h) PROVE MQNext
  <2>1. task[h] \in Task
    BY <1>4 DEF Ship, TypeOK
  <2>2. task[h].payload \in Payload
    BY <2>1, BDAssumption DEF Task
  <2>3. task[h].payload.dst \in Receivers \cup {NoReceiver}
    BY <2>2 DEF Payload
  <2>4. task[h].id \in issued /\ Push(task[h].id, task[h].payload.dst)
    BY <1>4 DEF Ship, Push
  <2>5. QED
    BY <2>3, <2>4 DEF MQNext, Drop
<1>5. ASSUME NEW h \in Handlers, Return(h) PROVE UNCHANGED mqVars
  BY <1>5 DEF Return
<1>6. ASSUME NEW a \in Receivers, Terminate(a) PROVE UNCHANGED mqVars
  BY <1>6 DEF Terminate
<1>7. CASE UNCHANGED bdVars
  BY <1>7 DEF bdVars
<1>8. QED
  BY <1>1, <1>2, <1>3, <1>4, <1>5, <1>6, <1>7 DEF Next

(* Drawing an ID for an idle handler preserves the ownership of IDs. *)
LEMMA AcceptStep ==
  ASSUME BDInv, NEW h \in Handlers, NEW p \in Payloads,
         Accept(h, p), task[h] = Idle, hub' \subseteq hub, h \notin hub'
  PROVE  BDInv'
<1> DEFINE t == [stage |-> "scheduled", id |-> next_id, payload |-> p]
<1>1. /\ next_id \in Nat /\ next_id <= MaxId /\ next_id' = next_id + 1
      /\ issued' = issued \cup {next_id} /\ issued \subseteq Ids
      /\ task' = [task EXCEPT ![h] = t]
      /\ task \in [Handlers -> Task \cup {Idle}]
      /\ abandoned' = abandoned /\ registry' = registry /\ abandoned \subseteq Ids
  BY MQAssumption DEF BDInv, TypeOK, MQTypeOK, Accept, NewId
<1>2. t \in Task /\ t # Idle /\ t.id = next_id /\ t.stage # "done"
  <2>1. t \in Task
    BY <1>1 DEF Task, Ids
  <2>2. QED
    BY <2>1, BDAssumption
<1>3. MQInv'
  BY NewIdStep DEF BDInv, Accept
<1> HIDE DEF t
<1>4. TypeOK'
  BY <1>1, <1>2, <1>3 DEF BDInv, TypeOK, MQInv
<1>5. /\ Active' = Active \cup {h} /\ Undone' = Undone \cup {h}
      /\ task'[h] = t /\ \A g \in Active : g # h /\ task'[g] = task[g]
      /\ Undone \subseteq Active /\ Active \subseteq Handlers
  BY <1>1, <1>2 DEF Active, Undone
<1>6. \A id \in Ids : id \in Nat
  BY MQAssumption DEF Ids
<1>7. \A g \in Active : task[g].id \in Nat /\ task[g].id < next_id
  <2>1. \A g \in Active : task[g] \in Task
    BY <1>1 DEF Active
  <2>2. QED
    BY <2>1, <1>6 DEF Task, BDInv, OwnedIds
<1>8. \A id \in issued : id \in Nat /\ id < next_id
  BY <1>1, <1>6 DEF BDInv, MQInv, IssuedInWindow
<1>9. \A id \in abandoned : id \in Nat /\ id < next_id
  BY <1>1, <1>6 DEF BDInv
<1>10. OwnedIds'
  <2>1. \A g \in Undone' : task'[g].id \in issued' \ abandoned'
    BY <1>1, <1>2, <1>5, <1>9 DEF BDInv, OwnedIds
  <2>2. \A g \in Active' : task'[g].id < next_id'
    BY <1>1, <1>2, <1>5, <1>7
  <2>3. \A g, f \in Active' : task'[g].id = task'[f].id => g = f
    BY <1>1, <1>2, <1>5, <1>7 DEF BDInv, OwnedIds
  <2>4. \A id \in issued' : id \in abandoned' \/ \E g \in Undone' : task'[g].id = id
    BY <1>1, <1>2, <1>5 DEF BDInv, OwnedIds
  <2>5. QED
    BY <2>1, <2>2, <2>3, <2>4 DEF OwnedIds
<1>11. \A w \in hub' : task'[w] = Idle
  BY <1>1 DEF BDInv, TypeOK, Handlers
<1>12. \A id \in abandoned' : id < next_id'
  BY <1>1, <1>9
<1>13. QED
  BY <1>3, <1>4, <1>10, <1>11, <1>12 DEF BDInv

(* Moving a task on without handing its ID to the queue. *)
LEMMA ResolveStep ==
  ASSUME BDInv, NEW h \in Handlers, Resolve(h)
  PROVE  BDInv'
<1>1. /\ task \in [Handlers -> Task \cup {Idle}] /\ task[h] \in Task
      /\ task[h] # Idle /\ task[h].stage = "scheduled" /\ task[h].id \in Ids
      /\ hub' = hub /\ registry' = registry
  <2>1. task[h] \in Task
    BY DEF BDInv, TypeOK, Resolve
  <2>2. QED
    BY <2>1 DEF BDInv, TypeOK, Resolve, Task
<1>2. /\ next_id' = next_id /\ issued' = issued /\ UNCHANGED mqVars
  BY DEF Resolve, mqVars
<1>3. PICK s \in {"resolved", "done"} :
        /\ task' = [task EXCEPT ![h].stage = s]
        /\ abandoned' = IF s = "done" THEN abandoned \cup {task[h].id} ELSE abandoned
  BY DEF Resolve
<1>4. /\ task'[h] \in Task /\ task'[h].stage = s /\ task'[h].id = task[h].id
      /\ task'[h] # Idle
  BY <1>1, <1>3, BDAssumption DEF Task
<1>5. \A g \in Handlers : g # h => task'[g] = task[g]
  BY <1>1, <1>3
<1>6. task' \in [Handlers -> Task \cup {Idle}]
  BY <1>1, <1>3, <1>4
<1>7. MQInv'
  BY <1>2 DEF BDInv, mqVars, MQInv, MQTypeOK, ShipsInOrder, PendingIsBlocked,
              IssuedInWindow, NoneForgotten
<1>8. TypeOK'
  BY <1>1, <1>3, <1>6, <1>7 DEF BDInv, TypeOK, MQInv
<1>9. /\ Active' = Active /\ h \in Undone /\ h \in Active
      /\ Undone' = IF s = "done" THEN Undone \ {h} ELSE Undone
  BY <1>1, <1>3, <1>4, <1>5 DEF Active, Undone
<1>10. \A g \in Active : task'[g].id = task[g].id
  BY <1>4, <1>5 DEF Active
<1>11. Undone \subseteq Active
  BY DEF Undone
<1>12. OwnedIds'
  <2>1. \A g \in Undone' : task'[g].id \in issued' \ abandoned'
    BY <1>2, <1>3, <1>9, <1>10, <1>11 DEF BDInv, OwnedIds
  <2>2. \A g \in Active' : task'[g].id < next_id'
    BY <1>2, <1>9, <1>10 DEF BDInv, OwnedIds
  <2>3. \A g, f \in Active' : task'[g].id = task'[f].id => g = f
    BY <1>9, <1>10 DEF BDInv, OwnedIds
  <2>4. \A id \in issued' : id \in abandoned' \/ \E g \in Undone' : task'[g].id = id
    BY <1>2, <1>3, <1>9, <1>10, <1>11 DEF BDInv, OwnedIds
  <2>5. QED
    BY <2>1, <2>2, <2>3, <2>4 DEF OwnedIds
<1>13. \A w \in hub' : task'[w] = Idle
  BY <1>1, <1>5 DEF BDInv, TypeOK, Handlers
<1>14. \A id \in abandoned' : id < next_id'
  BY <1>2, <1>3, <1>9 DEF BDInv, OwnedIds
<1>15. QED
  BY <1>7, <1>8, <1>12, <1>13, <1>14 DEF BDInv

(* Pushing the ID of a task takes it out of the hands of the handler. *)
LEMMA ShipStep ==
  ASSUME BDInv, NEW h \in Handlers, Ship(h)
  PROVE  BDInv'
<1>1. /\ task \in [Handlers -> Task \cup {Idle}] /\ task[h] \in Task
      /\ task[h] # Idle /\ task[h].stage = "resolved"
      /\ hub' = hub /\ registry' = registry /\ abandoned' = abandoned
      /\ task' = [task EXCEPT ![h].stage = "done"]
  BY DEF BDInv, TypeOK, Ship
<1>2. next_id' = next_id /\ issued' = issued \ {task[h].id}
  BY DEF Ship, Push
<1>3. MQInv'
  <2>1. task[h].payload \in Payload
    BY <1>1, BDAssumption DEF Task
  <2>2. task[h].payload.dst \in Receivers \cup {NoReceiver}
    BY <2>1 DEF Payload
  <2>3. task[h].id \in issued /\ Push(task[h].id, task[h].payload.dst)
    BY DEF Ship, Push
  <2>4. QED
    BY <2>2, <2>3, PushStep DEF BDInv
<1>4. /\ task'[h] \in Task /\ task'[h].stage = "done" /\ task'[h].id = task[h].id
      /\ task'[h] # Idle
  BY <1>1, BDAssumption DEF Task
<1>5. \A g \in Handlers : g # h => task'[g] = task[g]
  BY <1>1
<1>6. task' \in [Handlers -> Task \cup {Idle}]
  BY <1>1, <1>4
<1>7. TypeOK'
  BY <1>1, <1>3, <1>6 DEF BDInv, TypeOK, MQInv
<1>8. /\ Active' = Active /\ h \in Undone /\ h \in Active
      /\ Undone' = Undone \ {h}
  BY <1>1, <1>4, <1>5 DEF Active, Undone
<1>9. \A g \in Active : task'[g].id = task[g].id
  BY <1>4, <1>5 DEF Active
<1>10. Undone \subseteq Active
  BY DEF Undone
<1>11. OwnedIds'
  <2>1. \A g \in Undone' : task'[g].id \in issued' \ abandoned'
    BY <1>1, <1>2, <1>8, <1>9, <1>10 DEF BDInv, OwnedIds
  <2>2. \A g \in Active' : task'[g].id < next_id'
    BY <1>2, <1>8, <1>9 DEF BDInv, OwnedIds
  <2>3. \A g, f \in Active' : task'[g].id = task'[f].id => g = f
    BY <1>8, <1>9 DEF BDInv, OwnedIds
  <2>4. \A id \in issued' : id \in abandoned' \/ \E g \in Undone' : task'[g].id = id
    BY <1>1, <1>2, <1>8, <1>9, <1>10 DEF BDInv, OwnedIds
  <2>5. QED
    BY <2>1, <2>2, <2>3, <2>4 DEF OwnedIds
<1>12. \A w \in hub' : task'[w] = Idle
  BY <1>1, <1>5 DEF BDInv, TypeOK, Handlers
<1>13. QED
  BY <1>1, <1>2, <1>3, <1>7, <1>11, <1>12 DEF BDInv

(* A handler that is done becomes idle. *)
LEMMA ReturnStep ==
  ASSUME BDInv, NEW h \in Handlers, Return(h)
  PROVE  BDInv'
<1>1. /\ task \in [Handlers -> Task \cup {Idle}]
      /\ task[h] # Idle /\ task[h].stage = "done"
      /\ registry' = registry /\ abandoned' = abandoned
      /\ task' = [task EXCEPT ![h] = Idle]
      /\ hub' = IF h \in Workers THEN hub \cup {h} ELSE hub
  BY DEF BDInv, TypeOK, Return
<1>2. next_id' = next_id /\ issued' = issued /\ UNCHANGED mqVars
  BY DEF Return, mqVars
<1>3. MQInv'
  BY <1>2 DEF BDInv, mqVars, MQInv, MQTypeOK, ShipsInOrder, PendingIsBlocked,
              IssuedInWindow, NoneForgotten
<1>4. TypeOK'
  BY <1>1, <1>3 DEF BDInv, TypeOK, MQInv
<1>5. /\ Active' = Active \ {h} /\ Undone' = Undone /\ Undone \subseteq Active
      /\ \A g \in Active' : task'[g] = task[g]
  BY <1>1 DEF Active, Undone
<1>6. h \notin Undone
  BY <1>1 DEF Undone
<1>7. OwnedIds'
  BY <1>1, <1>2, <1>5, <1>6 DEF BDInv, OwnedIds
<1>8. \A w \in hub' : task'[w] = Idle
  BY <1>1 DEF BDInv, TypeOK, Handlers
<1>9. QED
  BY <1>1, <1>2, <1>3, <1>4, <1>7, <1>8 DEF BDInv

(* The invariant is inductive. *)
LEMMA BDStep == BDInv /\ [Next]_bdVars => BDInv'
<1> SUFFICES ASSUME BDInv, [Next]_bdVars PROVE BDInv'
  OBVIOUS
<1>1. ASSUME NEW w \in Workers, NEW p \in Payloads, Launch(w, p)
      PROVE  BDInv'
  BY <1>1, AcceptStep DEF Launch, BDInv, Handlers
<1>2. ASSUME NEW p \in Payloads, RunInline(p) PROVE BDInv'
  BY <1>2, AcceptStep DEF RunInline, Accept, Handlers
<1>3. ASSUME NEW h \in Handlers, Resolve(h) PROVE BDInv'
  BY <1>3, ResolveStep
<1>4. ASSUME NEW h \in Handlers, Ship(h) PROVE BDInv'
  BY <1>4, ShipStep
<1>5. ASSUME NEW h \in Handlers, Return(h) PROVE BDInv'
  BY <1>5, ReturnStep
<1>6. ASSUME NEW a \in Receivers, Terminate(a) PROVE BDInv'
  BY <1>6 DEF Terminate, mqVars, BDInv, TypeOK, MQInv, MQTypeOK, ShipsInOrder,
              PendingIsBlocked, IssuedInWindow, NoneForgotten, OwnedIds, Active,
              Undone
<1>7. CASE UNCHANGED bdVars
  BY <1>7 DEF bdVars, mqVars, BDInv, TypeOK, MQInv, MQTypeOK, ShipsInOrder,
              PendingIsBlocked, IssuedInWindow, NoneForgotten, OwnedIds, Active,
              Undone
<1>8. QED
  BY <1>1, <1>2, <1>3, <1>4, <1>5, <1>6, <1>7 DEF Next

(* The ownership of message IDs holds in every state of a connection. *)
THEOREM DeliveryInvariant == Spec => []BDInv
<1>1. QED
  BY BDInitInv, BDStep, PTL DEF Spec

(* No handler ever calls push() with an ID that its assertions reject or   *)
(* that another handler holds.                                             *)
THEOREM DeliveryAssertions == Spec => []PushAssertions
<1>1. BDInv => PushAssertions
  <2> SUFFICES ASSUME BDInv, NEW h \in Active, task[h].stage = "resolved"
               PROVE  /\ next_undelivered <= task[h].id
                      /\ task[h].id < next_id
                      /\ \A i \in DOMAIN pending : pending[i].id # task[h].id
                      /\ \A g \in Active \ {h} : task[g].id # task[h].id
    BY DEF PushAssertions
  <2>1. h \in Undone
    BY DEF Undone
  <2>2. task[h].id \in issued
    BY <2>1 DEF BDInv, OwnedIds
  <2>3. \A g \in Active \ {h} : task[g].id # task[h].id
    BY DEF BDInv, OwnedIds
  <2>4. QED
    BY <2>2, <2>3 DEF BDInv, MQInv, IssuedInWindow
<1>2. QED
  BY <1>1, DeliveryInvariant, PTL

(* No message is lost between the wire and the actors except the ones that *)
(* handle_remote_message gives up.                                         *)
THEOREM DeliveryLosesNone == Spec => []NoneLost
<1>1. BDInv => NoneLost
  <2> SUFFICES ASSUME BDInv PROVE NoneLost
    OBVIOUS
  <2>0. next_undelivered \in Nat
    BY DEF BDInv, TypeOK, MQTypeOK
  <2> SUFFICES ASSUME NEW id \in 0 .. (next_id - 1), id >= next_undelivered
               PROVE  \/ \E i \in DOMAIN pending : pending[i].id = id
                      \/ \E h \in Active : task[h].id = id /\ task[h].stage # "done"
                      \/ id \in abandoned
    BY <2>0 DEF NoneLost
  <2>1. id \in next_undelivered .. (next_id - 1)
    BY MQAssumption DEF BDInv, TypeOK, MQTypeOK
  <2>2. id \in issued \/ \E i \in DOMAIN pending : pending[i].id = id
    BY <2>1 DEF BDInv, MQInv, NoneForgotten
  <2>3. id \in issued => id \in abandoned \/ \E h \in Undone : task[h].id = id
    BY DEF BDInv, OwnedIds
  <2>4. QED
    BY <2>2, <2>3 DEF Undone
<1>2. QED
  BY <1>1, DeliveryInvariant, PTL

(* Both at once: each ID is in exactly one place. *)
THEOREM DeliveryAccounts == Spec => []IdsAccounted
<1>1. PushAssertions /\ NoneLost => IdsAccounted
  BY DEF IdsAccounted
<1>2. QED
  BY <1>1, DeliveryAssertions, DeliveryLosesNone, PTL

(* An idle connection keeps messages back only behind an ID that           *)
(* handle_remote_message gave up without dropping it.                      *)
THEOREM DeliveryWaits == Spec => []OnlyAbandonedBlocks
<1>1. BDInv => OnlyAbandonedBlocks
  <2> SUFFICES ASSUME BDInv, Active = {}, pending # <<>>
               PROVE  next_undelivered \in abandoned
    BY DEF OnlyAbandonedBlocks
  <2>1. /\ pending \in Seq(ActorMsg)
        /\ next_undelivered \in Nat /\ next_id \in Nat
        /\ 1 \in DOMAIN pending
    BY MQAssumption DEF BDInv, TypeOK, MQTypeOK
  <2>2. pending[1] \in ActorMsg
    BY <2>1
  <2>3. pending[1].id \in Nat
    BY <2>2, MQAssumption DEF ActorMsg, Ids
  <2>4. next_undelivered \in next_undelivered .. (next_id - 1)
    BY <2>1, <2>3 DEF BDInv, MQInv, PendingIsBlocked
  <2>5. \A i \in DOMAIN pending : pending[i].id # next_undelivered
    BY <2>1 DEF BDInv, MQInv, PendingIsBlocked
  <2>6. next_undelivered \in issued
    BY <2>4, <2>5 DEF BDInv, MQInv, NoneForgotten
  <2>7. QED
    BY <2>6 DEF BDInv, OwnedIds, Undone
<1>2. QED
  BY <1>1, DeliveryInvariant, PTL

(* The connection uses the queue as its contract demands, hence it         *)
(* delivers as a single thread would.                                      *)
THEOREM DeliveryRefines == Spec => SingleThreaded
<1>1. Init => MQInit
  BY DEF Init
<1>2. BDInv => TypeOK
  BY DEF BDInv
<1>3. Spec => MQSpec
  BY <1>1, <1>2, BDStepsQueue, DeliveryInvariant, PTL DEF Spec, MQSpec
<1>4. QED
  BY <1>3, QueueRefines, PTL
=============================================================================
