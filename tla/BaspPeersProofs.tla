-------------------------- MODULE BaspPeersProofs --------------------------
(***************************************************************************)
(* Proofs about two nodes that talk BASP: for any actors, listeners and    *)
(* lookups, whatever a foreign peer sends, a listener hears at most once;  *)
(* between nodes that run this code it hears of the actor that it asked    *)
(* for, and no proxy goes while its actor runs and its node has not        *)
(* stopped.                                                                *)
(***************************************************************************)
EXTENDS BaspPeers, FiniteSetTheorems, SequenceTheorems, TLAPS

-----------------------------------------------------------------------------
(* The inductive invariant *)

pending(n) == app[n].pending_resolves
events(n) == queue[n].events

(* TypeOK with the domains of the functions and a first request ID. *)
App ==
  [state : States, hdr : Packets, peer_id : Nodes \cup {Nobody},
   pending_resolves : UNION {[S -> Listeners] : S \in SUBSET Nat},
   next_request_id : Nat \ {0}, reading : BOOLEAN, parent : BOOLEAN]

AppTyped ==
  /\ app \in [Nodes -> App]
  /\ \A n \in Nodes : DOMAIN pending(n) \subseteq 1 .. (app[n].next_request_id - 1)

QueueTyped ==
  queue \in [Nodes -> Queue(Events, Messages)] /\ writing \in [Nodes -> BOOLEAN]

WireTyped == wire \in [Nodes -> Seq(Packets)]
TasksTyped == tasks \in [Nodes -> Seq(Payloads)]
ProxiesTyped == proxies \in [Nodes -> SUBSET Actors]

ActorsTyped ==
  /\ life \in [Actors -> {"alive", "terminated", "unmonitored", "gone"}]
  /\ registry \subseteq Actors /\ named \subseteq Actors
  /\ monitors \in [Actors -> Nat]

UsersTyped ==
  /\ foreign \in BOOLEAN /\ calls \in 0 .. MaxCalls /\ intruded \in 0 .. MaxForeign
  /\ app_ids \in [Nodes -> SUBSET AppIds]
  /\ asked \in [Listeners -> Paths \cup {NoPath}]

AnswersTyped ==
  answers \in [Listeners -> Seq({"proxy", "nullptr", "sec", "error"}
                                  \X (Actors \cup {Nobody}))]

Typed ==
  /\ AppTyped /\ QueueTyped /\ WireTyped /\ TasksTyped /\ ProxiesTyped
  /\ ActorsTyped /\ UsersTyped /\ AnswersTyped

(* Once its multiplexer is gone, an endpoint neither reads nor writes. *)
Stopped == \A n \in Nodes : ~app[n].parent => ~writing[n] /\ ~app[n].reading

(* A lookup is in the queue of its node, in pending_resolves_, or answered;*)
(* the exception is that of endpoint_manager::resolve after the end of the *)
(* multiplexer.                                                            *)
LooksUp(n, k, l) ==
  k \in DOMAIN events(n) /\ events(n)[k].is = "resolve" /\ events(n)[k].listener = l
Awaits(n, r, l) == r \in DOMAIN pending(n) /\ pending(n)[r] = l

QueuedOnce ==
  \A l \in Listeners, n \in Nodes : \A k \in DOMAIN events(n) :
    LooksUp(n, k, l) =>
      /\ n = Asks[l].node /\ asked[l] = events(n)[k].path
      /\ \A j \in DOMAIN events(n) : LooksUp(n, j, l) => j = k
      /\ \A r \in DOMAIN pending(n) : ~Awaits(n, r, l)
      /\ app[n].parent => answers[l] = <<>>

PendingOnce ==
  \A l \in Listeners, n \in Nodes : \A r \in DOMAIN pending(n) :
    Awaits(n, r, l) =>
      /\ n = Asks[l].node /\ asked[l] \in Paths /\ answers[l] = <<>>
      /\ \A s \in DOMAIN pending(n) : Awaits(n, s, l) => s = r

(* The packets that n is going to handle. *)
Incoming(n) == ToSet(wire[n]) \cup {app[n].hdr}

(* Whoever tells the peer about an actor put it into the registry. *)
Known(a) == a \in registry \/ life[a] # "alive"
Down(a) == life[a] # "alive"

(* What these packets hold if both nodes run this code: *)

(* a lookup is that of the listener which waits under its ID, ... *)
GoodRequest(n, p) ==
  /\ p.payload.is = "path" /\ p.op \in Nat /\ p.op < app[n].next_request_id
  /\ p.op \in DOMAIN pending(n) => p.payload.path = asked[pending(n)[p.op]]

(* ... a response names an actor that this listener asked for, ... *)
GoodResponse(n, p) ==
  /\ p.payload.is = "aid" /\ p.op \in Nat /\ p.op < app[n].next_request_id
  /\ p.payload.aid # Nobody =>
       /\ Known(p.payload.aid)
       /\ p.op \in DOMAIN pending(n) =>
            /\ asked[pending(n)[p.op]].by # "other"
            /\ asked[pending(n)[p.op]].whom = p.payload.aid

(* ... and actors are known, or down. *)
GoodMessage(m) == m.is = "message" /\ (m.src # Nobody => Known(m.src))

GoodPacket(n, p) ==
  /\ p.type = "resolve_request" => GoodRequest(Peer(n), p)
  /\ p.type = "resolve_response" => GoodResponse(n, p)
  /\ p.type = "monitor_message" => p.op \in Actors /\ Known(p.op)
  /\ p.type = "down_message" => p.op \in Actors /\ Down(p.op)
  /\ p.type = "actor_message" => GoodMessage(p.payload)

GoodEvent(e) ==
  /\ e.is = "new_proxy" => Known(e.id)
  /\ e.is = "local_actor_down" => Down(e.id)

GoodTraffic ==
  ~foreign =>
    \A n \in Nodes :
      /\ \A p \in Incoming(n) : GoodPacket(n, p)
      /\ \A m \in ToSet(tasks[n]) : GoodMessage(m)
      /\ \A e \in ToSet(events(n)) : GoodEvent(e)

IInv ==
  /\ Typed /\ Stopped /\ QueuedOnce /\ PendingOnce /\ RightAnswer /\ GoodTraffic

-----------------------------------------------------------------------------
(* Data *)

(* Each of the two nodes is the peer of the other. *)
LEMMA PeerFacts ==
  ASSUME NEW n \in Nodes
  PROVE  /\ Peer(n) \in Nodes /\ Peer(n) # n /\ Peer(Peer(n)) = n
         /\ \A m \in Nodes : m = n \/ m = Peer(n)
<1>1. PICK x, y \in Nodes : x # y /\ Nodes = {x, y}
  BY PeersAssumption
<1>2. \E m \in Nodes : m # n
  BY <1>1
<1>3. Peer(n) \in Nodes /\ Peer(n) # n
  BY <1>2 DEF Peer
<1>4. \E m \in Nodes : m # Peer(n)
  BY <1>3
<1>5. Peer(Peer(n)) \in Nodes /\ Peer(Peer(n)) # Peer(n)
  BY <1>4 DEF Peer
<1> QED
  BY <1>1, <1>3, <1>5

(* What a payload holds, by its kind. *)
LEMMA PayloadFacts ==
  ASSUME NEW pl \in Payloads
  PROVE  /\ pl.is = "path" => pl.path \in Paths
         /\ pl.is = "aid" => pl.aid \in Actors \cup {Nobody}
         /\ pl.is = "message" =>
              pl.src \in Actors \cup {Nobody} /\ pl.dst \in Actors \cup {Nobody}
         /\ pl.is = "handshake" => pl.node \in Nodes \cup {Nobody}
  BY DEF Payloads, Empty, Garbage

(* The payloads that this code writes. *)
LEMMA PayloadTypes ==
  /\ Empty \in Payloads /\ [is |-> "reason"] \in Payloads
  /\ \A path \in Paths : [is |-> "path", path |-> path] \in Payloads
  /\ \A a \in Actors \cup {Nobody} : [is |-> "aid", aid |-> a] \in Payloads
  /\ \A m \in Messages : m \in Payloads
  BY DEF Payloads, Messages

(* A packet made of a header and a payload. *)
LEMMA PacketType ==
  ASSUME NEW t \in message_types \cup {"other"}, NEW op \in Nat \cup Actors,
         NEW pl \in Payloads
  PROVE  /\ packet(t, op, pl) \in Packets /\ packet(t, op, pl).type = t
         /\ packet(t, op, pl).op = op /\ packet(t, op, pl).payload = pl
  BY DEF Packets, packet

(* What a packet consists of. *)
LEMMA PacketFacts ==
  ASSUME NEW p \in Packets
  PROVE  /\ p.type \in message_types \cup {"other"} /\ p.op \in Nat \cup Actors
         /\ p.payload \in Payloads
  BY DEF Packets

(* hdr_ before the first packet. *)
LEMMA NoPacketType == NoPacket \in Packets /\ NoPacket.type = "other"
<1>1. NoPacket = packet("other", 0, Empty)
  BY DEF NoPacket
<1> QED
  BY <1>1, PacketType, PayloadTypes

(* What an event holds, by its kind. *)
LEMMA EventFacts ==
  ASSUME NEW e \in Events
  PROVE  /\ e.is \in {"resolve", "new_proxy", "local_actor_down"}
         /\ e.is = "resolve" => e.path \in Paths /\ e.listener \in Listeners
         /\ e.is # "resolve" => e.id \in Actors
  BY DEF Events

(* A listener that did not ask has no path. *)
LEMMA NoPathFacts == NoPath \notin Paths
  BY DEF NoPath, Paths

(* The lists in TypeOK and in the invariant say the same. *)
LEMMA TypedTypes ==
  ASSUME Typed
  PROVE  TypeOK
<1>1. ASSUME NEW n \in Nodes
      PROVE  IsApp(app[n])
  <2>1. app[n] \in App
    BY <1>1 DEF Typed, AppTyped
  <2>2. PICK S \in SUBSET Nat : pending(n) \in [S -> Listeners]
    BY <2>1 DEF App, pending
  <2>3. \A i \in DOMAIN pending(n) : pending(n)[i] \in Listeners
    BY <2>2
  <2>4. DOMAIN pending(n) \subseteq 1 .. (app[n].next_request_id - 1)
    BY <1>1 DEF Typed, AppTyped
  <2> QED
    BY <2>1, <2>3, <2>4 DEF IsApp, App, pending
<1>2. \A n \in Nodes : queue[n] \in Queue(Events, Messages) /\ wire[n] \in Seq(Packets)
  BY DEF Typed, QueueTyped, WireTyped
<1>3. /\ foreign \in BOOLEAN /\ calls \in 0 .. MaxCalls /\ intruded \in 0 .. MaxForeign
      /\ app_ids \in [Nodes -> SUBSET AppIds]
      /\ asked \in [Listeners -> Paths \cup {NoPath}]
  BY DEF Typed, UsersTyped
<1>4. writing \in [Nodes -> BOOLEAN] /\ tasks \in [Nodes -> Seq(Payloads)]
      /\ proxies \in [Nodes -> SUBSET Actors]
  BY DEF Typed, QueueTyped, TasksTyped, ProxiesTyped
<1>5. ActorsTyped /\ AnswersTyped
  BY DEF Typed
<1> QED
  BY <1>1, <1>2, <1>3, <1>4, <1>5 DEF TypeOK, ActorsTyped, AnswersTyped

-----------------------------------------------------------------------------
(* Request IDs *)

(* The lookups that a write event handles get consecutive IDs, each its    *)
(* own.                                                                    *)
LEMMA RequestIds ==
  ASSUME NEW a \in App, NEW es \in Seq(Events)
  PROVE  /\ Cardinality(Lookups(es)) \in Nat
         /\ \A i \in Lookups(es) :
              /\ request_id(a, es, i) \in Nat
              /\ a.next_request_id <= request_id(a, es, i)
              /\ request_id(a, es, i) < a.next_request_id + Cardinality(Lookups(es))
         /\ \A i, k \in Lookups(es) :
              request_id(a, es, i) = request_id(a, es, k) => i = k
<1> DEFINE L == Lookups(es)
           B(i) == {j \in L : j < i}
<1>1. L \subseteq 1 .. Len(es)
  BY DEF Lookups
<1>2. IsFiniteSet(L)
  BY <1>1, FS_Interval, FS_Subset
<1>3. a.next_request_id \in Nat
  BY DEF App
<1>4. \A i \in L : request_id(a, es, i) = a.next_request_id + Cardinality(B(i))
  BY DEF request_id
<1> HIDE DEF L
<1>5. Cardinality(L) \in Nat
  BY <1>2, FS_CardinalityType
<1>6. \A i : IsFiniteSet(B(i)) /\ Cardinality(B(i)) \in Nat
  BY <1>2, FS_Subset, FS_CardinalityType
<1>7. ASSUME NEW i \in L
      PROVE  /\ IsFiniteSet(B(i) \cup {i})
             /\ Cardinality(B(i) \cup {i}) = Cardinality(B(i)) + 1
  <2>1. i \notin B(i)
    BY <1>1
  <2> HIDE DEF B
  <2> QED
    BY <1>6, <2>1, FS_AddElement
<1>8. ASSUME NEW i \in L
      PROVE  Cardinality(B(i)) < Cardinality(L)
  <2>1. B(i) \cup {i} \subseteq L
    OBVIOUS
  <2>2. Cardinality(B(i) \cup {i}) <= Cardinality(L)
    BY <1>2, <2>1, FS_Subset
  <2> HIDE DEF B
  <2>3. PICK x \in Nat, y \in Nat : x = Cardinality(B(i)) /\ y = Cardinality(L)
    BY <1>5, <1>6
  <2>4. x + 1 <= y
    BY <1>7, <2>2, <2>3
  <2> QED
    BY <2>3, <2>4
<1>9. ASSUME NEW i \in L, NEW k \in L, i < k
      PROVE  Cardinality(B(i)) < Cardinality(B(k))
  <2>1. B(i) \cup {i} \subseteq B(k)
    <3>1. \A j \in L : j \in Nat
      BY <1>1
    <3>2. \A j \in L : j < i => j < k
      BY <1>9, <3>1
    <3> QED
      BY <1>9, <3>2
  <2> HIDE DEF B
  <2>2. Cardinality(B(i) \cup {i}) <= Cardinality(B(k))
    BY <1>6, <2>1, FS_Subset
  <2> QED
    BY <1>6, <1>7, <2>2
<1> HIDE DEF B
<1>10. ASSUME NEW i \in L, NEW k \in L, request_id(a, es, i) = request_id(a, es, k)
       PROVE  i = k
  <2>1. Cardinality(B(i)) = Cardinality(B(k))
    BY <1>3, <1>4, <1>6, <1>10
  <2>2. i \in Nat /\ k \in Nat
    BY <1>1
  <2>3. ~(i < k) /\ ~(k < i)
    BY <1>6, <1>9, <2>1
  <2> QED
    BY <2>2, <2>3
<1>11. \A i \in L : /\ request_id(a, es, i) \in Nat
                    /\ a.next_request_id <= request_id(a, es, i)
                    /\ request_id(a, es, i) < a.next_request_id + Cardinality(L)
  BY <1>3, <1>4, <1>5, <1>6, <1>8
<1> QED
  BY <1>5, <1>10, <1>11 DEF L

(* pending_resolves_ keeps its entries and gets one for every lookup. *)
LEMMA PendingFacts ==
  ASSUME NEW a \in App, NEW es \in Seq(Events),
         DOMAIN a.pending_resolves \subseteq 1 .. (a.next_request_id - 1)
  PROVE  LET f == Pending(a, es)
         IN  /\ f \in UNION {[S -> Listeners] : S \in SUBSET Nat}
             /\ DOMAIN f \subseteq
                  1 .. (a.next_request_id + Cardinality(Lookups(es)) - 1)
             /\ \A r \in DOMAIN a.pending_resolves :
                  r \in DOMAIN f /\ f[r] = a.pending_resolves[r]
             /\ \A i \in Lookups(es) :
                  /\ request_id(a, es, i) \in DOMAIN f
                  /\ f[request_id(a, es, i)] = es[i].listener
             /\ \A r \in DOMAIN f :
                  \/ r \in DOMAIN a.pending_resolves
                  \/ \E i \in Lookups(es) : r = request_id(a, es, i)
<1> DEFINE g == a.pending_resolves
           id(i) == request_id(a, es, i)
           ids == {id(i) : i \in Lookups(es)}
           of(r) == CHOOSE i \in Lookups(es) : id(i) = r
           f == Pending(a, es)
<1>1. f = [r \in DOMAIN g \cup ids |-> IF r \in ids THEN es[of(r)].listener ELSE g[r]]
  BY DEF Pending
<1>2. \A i \in Lookups(es) : of(id(i)) = i
  <2> TAKE i \in Lookups(es)
  <2>1. of(id(i)) \in Lookups(es) /\ id(of(id(i))) = id(i)
    OBVIOUS
  <2> QED
    BY <2>1, RequestIds
<1>3. \A i \in Lookups(es) : es[i].listener \in Listeners
  <2> TAKE i \in Lookups(es)
  <2>1. es[i] \in Events /\ es[i].is = "resolve"
    BY DEF Lookups
  <2> QED
    BY <2>1, EventFacts
<1>4. PICK S \in SUBSET Nat : g \in [S -> Listeners]
  BY DEF App
<1>5. a.next_request_id \in Nat \ {0} /\ Cardinality(Lookups(es)) \in Nat
  BY RequestIds DEF App
<1>6. \A i \in Lookups(es) : id(i) \in Nat /\ a.next_request_id <= id(i)
                             /\ id(i) < a.next_request_id + Cardinality(Lookups(es))
  BY RequestIds
<1>7. \A r \in DOMAIN g : r \notin ids
  BY <1>5, <1>6
<1> HIDE DEF id, of, g, f
<1>8. DOMAIN f = DOMAIN g \cup ids
  BY <1>1
<1>9. \A r \in DOMAIN g : f[r] = g[r]
  BY <1>1, <1>7
<1>10. \A i \in Lookups(es) : id(i) \in DOMAIN f /\ f[id(i)] = es[i].listener
  BY <1>1, <1>2
<1>11. DOMAIN f \subseteq 1 .. (a.next_request_id + Cardinality(Lookups(es)) - 1)
  <2>1. PICK x \in Nat \ {0}, y \in Nat : x = a.next_request_id /\ y = Cardinality(Lookups(es))
    BY <1>5
  <2>2. DOMAIN g \subseteq 1 .. (x - 1)
    BY <2>1 DEF g
  <2>3. \A r \in ids : r \in Nat /\ x <= r /\ r < x + y
    BY <1>6, <2>1
  <2>4. DOMAIN f \subseteq 1 .. (x + y - 1)
    <3> SUFFICES ASSUME NEW r \in DOMAIN f
                 PROVE  r \in 1 .. (x + y - 1)
      OBVIOUS
    <3>1. CASE r \in DOMAIN g
      BY <2>2, <3>1
    <3>2. CASE r \in ids
      BY <2>3, <3>2
    <3> QED
      BY <1>8, <3>1, <3>2
  <2> QED
    BY <2>1, <2>4
<1>12. \A r \in DOMAIN f : f[r] \in Listeners
  BY <1>3, <1>4, <1>8, <1>9, <1>10
<1>13. f \in [DOMAIN f -> Listeners] /\ DOMAIN f \in SUBSET Nat
  <2>1. DOMAIN f \in SUBSET Nat
    BY <1>4, <1>6, <1>8
  <2>2. f = [r \in DOMAIN f |-> f[r]]
    BY <1>1
  <2> QED
    BY <1>12, <2>1, <2>2
<1>14. f \in UNION {[T -> Listeners] : T \in SUBSET Nat}
  BY <1>13
<1> QED
  BY <1>8, <1>9, <1>10, <1>11, <1>14 DEF g, id, f

-----------------------------------------------------------------------------
(* Steps that leave what was said before true *)

(* Actors do not come back, and IDs are not used again. *)
Grows ==
  /\ \A a \in Actors : (Known(a) => Known(a)') /\ (Down(a) => Down(a)')
  /\ \A n \in Nodes :
       /\ app[n].next_request_id <= app'[n].next_request_id
       /\ \A r \in DOMAIN pending(n)' :
            r < app[n].next_request_id =>
              /\ r \in DOMAIN pending(n) /\ pending(n)'[r] = pending(n)[r]
              /\ asked'[pending(n)[r]] = asked[pending(n)[r]]

(* What is new is good. *)
NewTraffic ==
  \A n \in Nodes :
    /\ \A p \in Incoming(n)' : p \in Incoming(n) \/ GoodPacket(n, p)'
    /\ \A m \in ToSet(tasks[n])' : m \in ToSet(tasks[n]) \/ GoodMessage(m)'
    /\ \A e \in ToSet(events(n))' : e \in ToSet(events(n)) \/ GoodEvent(e)'

(* No lookup is made or answered. *)
Keeps ==
  /\ asked' = asked /\ answers' = answers /\ foreign' = foreign
  /\ \A n \in Nodes :
       /\ pending(n)' = pending(n) /\ (app'[n].parent => app[n].parent)
       /\ \A k \in DOMAIN events(n)' :
            events(n)'[k].is = "resolve" =>
              k \in DOMAIN events(n) /\ events(n)'[k] = events(n)[k]

SameIds == \A n \in Nodes : app'[n].next_request_id = app[n].next_request_id

(* The application of a node: IDs that wait for a response were given out. *)
LEMMA AppFacts ==
  ASSUME AppTyped, NEW n \in Nodes
  PROVE  /\ app[n] \in App /\ app[n].next_request_id \in Nat \ {0}
         /\ DOMAIN pending(n) \subseteq Nat
         /\ DOMAIN pending(n) \subseteq 1 .. (app[n].next_request_id - 1)
         /\ \A r \in DOMAIN pending(n) : pending(n)[r] \in Listeners
         /\ \A r \in DOMAIN pending(n) : r < app[n].next_request_id
         /\ app[n].hdr \in Packets
<1>1. app[n] \in App /\ DOMAIN pending(n) \subseteq 1 .. (app[n].next_request_id - 1)
  BY DEF AppTyped
<1>2. app[n].next_request_id \in Nat \ {0} /\ app[n].hdr \in Packets
  BY <1>1 DEF App
<1>3. PICK S \in SUBSET Nat : pending(n) \in [S -> Listeners]
  BY <1>1 DEF App, pending
<1> HIDE DEF pending
<1>4. \A r \in DOMAIN pending(n) : r \in Nat /\ r < app[n].next_request_id
  BY <1>1, <1>2
<1> QED
  BY <1>1, <1>2, <1>3, <1>4

(* What was right about the sender of a message stays right. *)
LEMMA MessageStays ==
  ASSUME Grows, NEW m \in Payloads, GoodMessage(m)
  PROVE  GoodMessage(m)'
<1>1. m.src \in Actors \cup {Nobody}
  BY PayloadFacts DEF GoodMessage
<1> QED
  BY <1>1 DEF GoodMessage, Grows

(* What was right about an event stays right. *)
LEMMA EventStays ==
  ASSUME Grows, NEW e \in Events, GoodEvent(e)
  PROVE  GoodEvent(e)'
<1>1. e.is # "resolve" => e.id \in Actors
  BY EventFacts
<1> QED
  BY <1>1 DEF GoodEvent, Grows

(* What was right about a packet stays right. *)
LEMMA PacketStays ==
  ASSUME AppTyped, AppTyped', Grows, NEW n \in Nodes, NEW p \in Packets, GoodPacket(n, p)
  PROVE  GoodPacket(n, p)'
<1>1. p.payload \in Payloads
  BY PacketFacts
<1>2. p.type = "actor_message" => GoodMessage(p.payload)'
  BY <1>1, MessageStays DEF GoodPacket
<1>3. p.type \in {"monitor_message", "down_message"} => p.op \in Actors
  BY DEF GoodPacket
<1>4. /\ p.type = "monitor_message" => Known(p.op)'
      /\ p.type = "down_message" => Down(p.op)'
  BY <1>3 DEF GoodPacket, Grows
<1>5. ASSUME NEW m \in Nodes, p.op \in Nat, p.op < app[m].next_request_id
      PROVE  /\ p.op < app'[m].next_request_id
             /\ p.op \in DOMAIN pending(m)' =>
                  /\ p.op \in DOMAIN pending(m)
                  /\ asked'[pending(m)'[p.op]] = asked[pending(m)[p.op]]
  <2>1. app[m].next_request_id \in Nat /\ app'[m].next_request_id \in Nat
    BY AppFacts DEF AppTyped, App
  <2>2. app[m].next_request_id <= app'[m].next_request_id
    BY DEF Grows
  <2> QED
    BY <1>5, <2>1, <2>2 DEF Grows
<1>6. p.type = "resolve_request" => GoodRequest(Peer(n), p)'
  <2> HAVE p.type = "resolve_request"
  <2>1. GoodRequest(Peer(n), p) /\ Peer(n) \in Nodes
    BY PeerFacts DEF GoodPacket
  <2> QED
    BY <1>5, <2>1 DEF GoodRequest
<1>7. p.type = "resolve_response" => GoodResponse(n, p)'
  <2> HAVE p.type = "resolve_response"
  <2>1. GoodResponse(n, p)
    BY DEF GoodPacket
  <2>2. p.payload.aid \in Actors \cup {Nobody}
    BY <1>1, <2>1, PayloadFacts DEF GoodResponse
  <2>3. p.payload.aid # Nobody => Known(p.payload.aid)'
    BY <2>1, <2>2 DEF GoodResponse, Grows
  <2> QED
    BY <1>5, <2>1, <2>3 DEF GoodResponse
<1> QED
  BY <1>2, <1>3, <1>4, <1>6, <1>7 DEF GoodPacket

(* Packets, messages and events by their types. *)
LEMMA TrafficTypes ==
  ASSUME Typed, NEW n \in Nodes
  PROVE  /\ Incoming(n) \subseteq Packets /\ ToSet(tasks[n]) \subseteq Payloads
         /\ ToSet(events(n)) \subseteq Events
<1>1. wire[n] \in Seq(Packets) /\ tasks[n] \in Seq(Payloads)
  BY DEF Typed, WireTyped, TasksTyped
<1>2. events(n) \in Seq(Events)
  BY DEF Typed, QueueTyped, Queue, events
<1>3. app[n].hdr \in Packets
  BY AppFacts DEF Typed
<1> QED
  BY <1>1, <1>2, <1>3 DEF Incoming, ToSet

(* If what is new is right, then everything is. *)
LEMMA TrafficStep ==
  ASSUME Typed, AppTyped', GoodTraffic, foreign' = foreign,
         ~foreign => Grows /\ NewTraffic
  PROVE  GoodTraffic'
<1> SUFFICES ASSUME ~foreign, NEW n \in Nodes
             PROVE  (/\ \A p \in Incoming(n) : GoodPacket(n, p)
                     /\ \A m \in ToSet(tasks[n]) : GoodMessage(m)
                     /\ \A e \in ToSet(events(n)) : GoodEvent(e))'
  BY DEF GoodTraffic
<1>1. Grows /\ NewTraffic /\ AppTyped
  BY DEF Typed
<1>2. ASSUME NEW p \in Incoming(n)'
      PROVE  GoodPacket(n, p)'
  <2>1. CASE p \in Incoming(n)
    <3>1. GoodPacket(n, p) /\ p \in Packets
      BY <2>1, TrafficTypes DEF GoodTraffic
    <3> QED
      BY <1>1, <3>1, PacketStays
  <2> QED
    BY <1>1, <1>2, <2>1 DEF NewTraffic
<1>3. ASSUME NEW m \in ToSet(tasks[n])'
      PROVE  GoodMessage(m)'
  <2>1. CASE m \in ToSet(tasks[n])
    <3>1. GoodMessage(m) /\ m \in Payloads
      BY <2>1, TrafficTypes DEF GoodTraffic
    <3> QED
      BY <1>1, <3>1, MessageStays
  <2> QED
    BY <1>1, <1>3, <2>1 DEF NewTraffic
<1>4. ASSUME NEW e \in ToSet(events(n))'
      PROVE  GoodEvent(e)'
  <2>1. CASE e \in ToSet(events(n))
    <3>1. GoodEvent(e) /\ e \in Events
      BY <2>1, TrafficTypes DEF GoodTraffic
    <3> QED
      BY <1>1, <3>1, EventStays
  <2> QED
    BY <1>1, <1>4, <2>1 DEF NewTraffic
<1> QED
  BY <1>2, <1>3, <1>4

(* Listeners hear once if no lookup is made or answered. *)
LEMMA OnceStays ==
  ASSUME QueuedOnce, PendingOnce, RightAnswer, Keeps
  PROVE  QueuedOnce' /\ PendingOnce' /\ RightAnswer'
<1>1. \A n \in Nodes : \A l, k : LooksUp(n, k, l)' => LooksUp(n, k, l) /\ events(n)'[k] = events(n)[k]
  BY DEF Keeps, LooksUp
<1>2. \A n \in Nodes : \A l, r : Awaits(n, r, l)' = Awaits(n, r, l)
  BY DEF Keeps, Awaits
<1>3. \A n \in Nodes : pending(n)' = pending(n) /\ (app'[n].parent => app[n].parent)
  BY DEF Keeps
<1>4. asked' = asked /\ answers' = answers /\ foreign' = foreign
  BY DEF Keeps
<1>5. QueuedOnce'
  <2> SUFFICES ASSUME NEW l \in Listeners, NEW n \in Nodes, NEW k \in DOMAIN events(n)',
                      LooksUp(n, k, l)'
               PROVE  (/\ n = Asks[l].node /\ asked[l] = events(n)[k].path
                       /\ \A j \in DOMAIN events(n) : LooksUp(n, j, l) => j = k
                       /\ \A r \in DOMAIN pending(n) : ~Awaits(n, r, l)
                       /\ app[n].parent => answers[l] = <<>>)'
    BY DEF QueuedOnce
  <2>1. LooksUp(n, k, l) /\ events(n)'[k] = events(n)[k] /\ k \in DOMAIN events(n)
    BY <1>1 DEF LooksUp
  <2>2. /\ n = Asks[l].node /\ asked[l] = events(n)[k].path
        /\ \A j \in DOMAIN events(n) : LooksUp(n, j, l) => j = k
        /\ \A r \in DOMAIN pending(n) : ~Awaits(n, r, l)
        /\ app[n].parent => answers[l] = <<>>
    BY <2>1 DEF QueuedOnce
  <2>3. \A j : LooksUp(n, j, l)' => j = k
    <3> SUFFICES ASSUME NEW j, LooksUp(n, j, l)'
                 PROVE  j = k
      OBVIOUS
    <3>1. LooksUp(n, j, l) /\ j \in DOMAIN events(n)
      BY <1>1 DEF LooksUp
    <3> QED
      BY <2>2, <3>1
  <2> QED
    BY <1>2, <1>3, <1>4, <2>1, <2>2, <2>3
<1>6. PendingOnce'
  BY <1>2, <1>3, <1>4 DEF PendingOnce
<1>7. RightAnswer'
  BY <1>4 DEF RightAnswer
<1> QED
  BY <1>5, <1>6, <1>7

-----------------------------------------------------------------------------
(* What a step may do to a part of the state *)

(* The queues: at most n's gets events, all of them of E. *)
Queued(n, E) ==
  /\ QueueTyped'
  /\ \A m \in Nodes : writing'[m] => writing[m] \/ app[m].parent
  /\ \A m \in Nodes : \A k \in DOMAIN events(m)' :
       \/ k \in DOMAIN events(m) /\ events(m)'[k] = events(m)[k]
       \/ m = n /\ events(m)'[k] \in E

(* The wires: at most the one to n gets packets, all of them of P. *)
Wired(n, P) ==
  /\ WireTyped'
  /\ \A m \in Nodes : \A p \in ToSet(wire[m])' : p \in ToSet(wire[m]) \/ (m = n /\ p \in P)

(* The workers: at most n's get messages, all of them of T. *)
Tasked(n, T) ==
  /\ TasksTyped'
  /\ \A m \in Nodes : \A t \in ToSet(tasks[m])' : t \in ToSet(tasks[m]) \/ (m = n /\ t \in T)

(* The applications: neither lookups nor answers. *)
AppKept ==
  /\ AppTyped' /\ SameIds
  /\ \A m \in Nodes :
       /\ pending(m)' = pending(m) /\ (app'[m].parent => app[m].parent)
       /\ app'[m].hdr \in Incoming(m) \cup {NoPacket}

ActorsGrow == \A a \in Actors : (Known(a) => Known(a)') /\ (Down(a) => Down(a)')

OthersTyped == (ProxiesTyped /\ ActorsTyped /\ UsersTyped /\ AnswersTyped)'

(* The rest of the invariant after a step that neither makes nor answers   *)
(* lookups.                                                                *)
LEMMA QuietStep ==
  ASSUME IInv, NEW n \in Nodes, NEW E, NEW P, NEW T, NEW c \in Nodes,
         AppKept, Queued(n, E), Wired(c, P), Tasked(n, T), ActorsGrow, OthersTyped,
         Stopped', asked' = asked, answers' = answers, foreign' = foreign,
         \A e \in E : e.is # "resolve",
         ~foreign => /\ \A e \in E : GoodEvent(e)'
                     /\ \A p \in P : GoodPacket(c, p)'
                     /\ \A t \in T : GoodMessage(t)'
  PROVE  IInv'
<1>1. Typed /\ AppTyped
  BY DEF IInv, Typed
<1>2. Typed'
  BY DEF Typed, OthersTyped, AppKept, Queued, Wired, Tasked
<1>3. Keeps
  BY DEF Keeps, AppKept, Queued
<1>4. Grows
  <2>1. ASSUME NEW m \in Nodes
        PROVE  app[m].next_request_id <= app'[m].next_request_id
    BY <1>1, AppFacts DEF AppKept, SameIds
  <2>2. asked' = asked /\ \A m \in Nodes : pending(m)' = pending(m)
    BY DEF AppKept
  <2> QED
    BY <2>1, <2>2 DEF Grows, ActorsGrow
<1>5. QueuedOnce' /\ PendingOnce' /\ RightAnswer'
  BY <1>3, OnceStays DEF IInv
<1>6. ASSUME ~foreign
      PROVE  NewTraffic
  <2>0. /\ \A e \in E : GoodEvent(e)'
        /\ \A p \in P : GoodPacket(c, p)'
        /\ \A t \in T : GoodMessage(t)'
    BY <1>6
  <2>1. ASSUME NEW m \in Nodes, NEW p \in Incoming(m)'
        PROVE  p \in Incoming(m) \/ GoodPacket(m, p)'
    <3>1. p \in ToSet(wire[m])' \/ p = app'[m].hdr
      BY <2>1 DEF Incoming
    <3>2. CASE p \in ToSet(wire[m])'
      <4>1. p \in ToSet(wire[m]) \/ (m = c /\ p \in P)
        BY <3>2 DEF Wired
      <4> QED
        BY <2>0, <4>1 DEF Incoming
    <3>3. CASE p = app'[m].hdr
      <4>1. p \in Incoming(m) \/ p = NoPacket
        BY <3>3 DEF AppKept
      <4>2. p = NoPacket => GoodPacket(m, p)'
        BY NoPacketType DEF GoodPacket
      <4> QED
        BY <4>1, <4>2
    <3> QED
      BY <3>1, <3>2, <3>3
  <2>2. ASSUME NEW m \in Nodes, NEW t \in ToSet(tasks[m])'
        PROVE  t \in ToSet(tasks[m]) \/ GoodMessage(t)'
    BY <2>0, <2>2 DEF Tasked
  <2>3. ASSUME NEW m \in Nodes, NEW e \in ToSet(events(m))'
        PROVE  e \in ToSet(events(m)) \/ GoodEvent(e)'
    <3>1. PICK k \in DOMAIN events(m)' : e = events(m)'[k]
      BY <2>3 DEF ToSet
    <3>2. CASE k \in DOMAIN events(m) /\ e = events(m)[k]
      BY <3>2 DEF ToSet
    <3> QED
      BY <2>0, <3>1, <3>2 DEF Queued
  <2> QED
    BY <2>1, <2>2, <2>3 DEF NewTraffic
<1>7. GoodTraffic'
  BY <1>1, <1>2, <1>4, <1>6, TrafficStep DEF IInv, Typed
<1> QED
  BY <1>2, <1>5, <1>7 DEF IInv

(* A node that stopped is not woken up. *)
LEMMA StoppedStays ==
  ASSUME Stopped, NEW n, NEW E, Queued(n, E),
         \A m \in Nodes : /\ app'[m].parent = app[m].parent
                          /\ app'[m].reading => app[m].reading
  PROVE  Stopped'
  BY DEF Stopped, Queued

(* Nothing happens to a part. *)
LEMMA QueuedNone ==
  ASSUME QueueTyped, UNCHANGED <<queue, writing>>, NEW n
  PROVE  Queued(n, {})
<1>1. QueueTyped'
  BY DEF QueueTyped
<1>2. \A m : events(m)' = events(m) /\ writing'[m] = writing[m]
  BY DEF events
<1> QED
  BY <1>1, <1>2 DEF Queued

LEMMA WiredNone ==
  ASSUME WireTyped, UNCHANGED wire, NEW n
  PROVE  Wired(n, {})
  BY DEF Wired, WireTyped

LEMMA TaskedNone ==
  ASSUME TasksTyped, UNCHANGED tasks, NEW n
  PROVE  Tasked(n, {})
  BY DEF Tasked, TasksTyped

LEMMA AppNone ==
  ASSUME AppTyped, UNCHANGED app
  PROVE  AppKept /\ \A m \in Nodes : /\ app'[m].parent = app[m].parent
                                     /\ app'[m].reading = app[m].reading
<1>1. AppTyped'
  BY DEF AppTyped, pending
<1>2. \A m : pending(m)' = pending(m)
  BY DEF pending
<1> QED
  BY <1>1, <1>2 DEF AppKept, SameIds, Incoming

LEMMA ActorsNone ==
  ASSUME life' = life, registry \subseteq registry'
  PROVE  ActorsGrow
  BY DEF ActorsGrow, Known, Down

(* enqueue: the multiplexer is asked for write events if it exists. *)
LEMMA EnqueueFacts ==
  ASSUME QueueTyped, NEW n \in Nodes, NEW q \in Queue(Events, Messages), enqueue(n, q)
  PROVE  /\ QueueTyped' /\ queue'[n] = q
         /\ \A m \in Nodes : m # n => queue'[m] = queue[m]
         /\ \A m \in Nodes : writing'[m] => writing[m] \/ app[m].parent
<1>1. queue' = [queue EXCEPT ![n] = q] /\ writing' = [writing EXCEPT ![n] = @ \/ Wakes(n)]
  BY DEF enqueue
<1>2. queue' \in [Nodes -> Queue(Events, Messages)] /\ queue'[n] = q
      /\ \A m \in Nodes : m # n => queue'[m] = queue[m]
  BY <1>1 DEF QueueTyped
<1>3. writing' \in [Nodes -> BOOLEAN]
  BY <1>1, Zenon DEF QueueTyped
<1>4. \A m \in Nodes : writing'[m] => writing[m] \/ app[m].parent
  BY <1>1, Zenon DEF QueueTyped, Wakes
<1> QED
  BY <1>2, <1>3, <1>4 DEF QueueTyped

(* What push_event and push_message leave in a queue. *)
LEMMA PushFacts ==
  ASSUME NEW E, NEW M, NEW q \in Queue(E, M)
  PROVE  /\ \A e \in E : LET r == push_event(q, e)
                         IN  r \in Queue(E, M) /\ r.events = Append(q.events, e)
         /\ \A m \in M : LET r == push_message(q, m)
                         IN  r \in Queue(E, M) /\ r.events = q.events
<1>1. q.events \in Seq(E) /\ q.messages \in Seq(M)
  BY DEF Queue
<1>2. ASSUME NEW e \in E
      PROVE  LET r == push_event(q, e)
             IN  r \in Queue(E, M) /\ r.events = Append(q.events, e)
  <2>1. Append(q.events, e) \in Seq(E)
    BY <1>1
  <2> QED
    BY <2>1 DEF Queue, push_event
<1>3. ASSUME NEW m \in M
      PROVE  LET r == push_message(q, m)
             IN  r \in Queue(E, M) /\ r.events = q.events
  <2>1. Append(q.messages, m) \in Seq(M)
    BY <1>1
  <2> QED
    BY <2>1 DEF Queue, push_message
<1> QED
  BY <1>2, <1>3

(* enqueue_event adds one event to the queue of its manager. *)
LEMMA EventQueued ==
  ASSUME QueueTyped, NEW n \in Nodes, NEW e \in Events, enqueue_event(n, e)
  PROVE  Queued(n, {e}) /\ events(n)' = Append(events(n), e)
<1> DEFINE q == push_event(queue[n], e)
<1>1. queue[n] \in Queue(Events, Messages)
  BY DEF QueueTyped
<1>2. q \in Queue(Events, Messages) /\ q.events = Append(events(n), e)
  BY <1>1, PushFacts DEF events
<1>3. enqueue(n, q)
  BY DEF enqueue_event
<1> HIDE DEF q
<1>4. /\ QueueTyped' /\ queue'[n] = q
      /\ \A m \in Nodes : m # n => queue'[m] = queue[m]
      /\ \A m \in Nodes : writing'[m] => writing[m] \/ app[m].parent
  BY <1>2, <1>3, EnqueueFacts
<1>5. events(n)' = Append(events(n), e) /\ \A m \in Nodes : m # n => events(m)' = events(m)
  BY <1>2, <1>4 DEF events
<1>6. events(n) \in Seq(Events)
  BY <1>1 DEF events, Queue
<1>7. \A k \in DOMAIN events(n)' :
        \/ k \in DOMAIN events(n) /\ events(n)'[k] = events(n)[k]
        \/ events(n)'[k] = e
  BY <1>5, <1>6
<1> QED
  BY <1>4, <1>5, <1>7 DEF Queued

(* A message adds no event. *)
LEMMA MessageQueued ==
  ASSUME QueueTyped, NEW n \in Nodes, NEW m \in Messages,
         enqueue(n, push_message(queue[n], m))
  PROVE  Queued(n, {})
<1> DEFINE q == push_message(queue[n], m)
<1>1. queue[n] \in Queue(Events, Messages)
  BY DEF QueueTyped
<1>2. q \in Queue(Events, Messages) /\ q.events = events(n)
  BY <1>1, PushFacts DEF events
<1>3. enqueue(n, q)
  OBVIOUS
<1> HIDE DEF q
<1>4. /\ QueueTyped' /\ queue'[n] = q
      /\ \A x \in Nodes : x # n => queue'[x] = queue[x]
      /\ \A x \in Nodes : writing'[x] => writing[x] \/ app[x].parent
  BY <1>2, <1>3, EnqueueFacts
<1>5. \A x \in Nodes : events(x)' = events(x)
  BY <1>2, <1>4 DEF events
<1> QED
  BY <1>4, <1>5 DEF Queued

NewProxy(a) == [is |-> "new_proxy", id |-> a]
ActorDown(a) == [is |-> "local_actor_down", id |-> a]

(* Events about actors. *)
LEMMA ActorEvents ==
  ASSUME NEW a \in Actors
  PROVE  /\ NewProxy(a) \in Events /\ NewProxy(a).is = "new_proxy" /\ NewProxy(a).id = a
         /\ ActorDown(a) \in Events /\ ActorDown(a).is = "local_actor_down"
         /\ ActorDown(a).id = a
  BY DEF Events, NewProxy, ActorDown

(* get_or_put adds at most an event for a new proxy. *)
LEMMA GetOrPut ==
  ASSUME QueueTyped, ProxiesTyped, NEW n \in Nodes, NEW a \in Actors, get_or_put(n, a)
  PROVE  Queued(n, {NewProxy(a)}) /\ ProxiesTyped' /\ \A m \in Nodes : proxies[m] \subseteq proxies'[m]
<1>1. ProxiesTyped' /\ \A m \in Nodes : proxies[m] \subseteq proxies'[m]
  <2>1. proxies' = [proxies EXCEPT ![n] = proxies[n] \cup {a}]
    BY DEF get_or_put
  <2>2. proxies \in [Nodes -> SUBSET Actors] /\ proxies[n] \cup {a} \in SUBSET Actors
    BY DEF ProxiesTyped
  <2> QED
    BY <2>1, <2>2 DEF ProxiesTyped
<1>2. CASE a \in proxies[n]
  <2>1. Queued(n, {})
    BY <1>2, QueuedNone DEF get_or_put
  <2> QED
    BY <1>1, <2>1 DEF Queued
<1>3. CASE a \notin proxies[n]
  <2>1. enqueue_event(n, NewProxy(a))
    BY <1>3 DEF get_or_put, NewProxy
  <2> QED
    BY <1>1, <2>1, ActorEvents, EventQueued
<1> QED
  BY <1>2, <1>3

-----------------------------------------------------------------------------
(* Users and actors *)

(* The parts of the invariant. *)
LEMMA Parts ==
  ASSUME IInv
  PROVE  /\ AppTyped /\ QueueTyped /\ WireTyped /\ TasksTyped /\ ProxiesTyped
         /\ ActorsTyped /\ UsersTyped /\ AnswersTyped /\ Typed
         /\ Stopped /\ QueuedOnce /\ PendingOnce /\ RightAnswer /\ GoodTraffic
  BY DEF IInv, Typed

(* Nothing happens to the users' part of the state, to proxies, to answers. *)
LEMMA UsersNone ==
  ASSUME UsersTyped, UNCHANGED <<userVars, intruded>>
  PROVE  UsersTyped' /\ asked' = asked /\ foreign' = foreign
  BY DEF UsersTyped, userVars

LEMMA ProxiesNone ==
  ASSUME ProxiesTyped, UNCHANGED proxies
  PROVE  ProxiesTyped'
  BY DEF ProxiesTyped

LEMMA AnswersNone ==
  ASSUME AnswersTyped, UNCHANGED answers
  PROVE  AnswersTyped'
  BY DEF AnswersTyped

LEMMA ActorsSame ==
  ASSUME ActorsTyped, UNCHANGED actorVars
  PROVE  ActorsTyped' /\ ActorsGrow
  BY ActorsNone DEF ActorsTyped, actorVars

(* A step of actors alone. *)
LEMMA ActorOnly ==
  ASSUME IInv, UNCHANGED <<userVars, intruded, nodeVars, answers>>, ActorsTyped', ActorsGrow
  PROVE  IInv'
<1>1. PICK n \in Nodes : TRUE
  BY PeersAssumption
<1>2. UNCHANGED <<queue, writing>> /\ UNCHANGED wire /\ UNCHANGED tasks /\ UNCHANGED app
      /\ UNCHANGED proxies
  BY DEF nodeVars
<1>3. Queued(n, {}) /\ Wired(n, {}) /\ Tasked(n, {})
  BY <1>2, Parts, QueuedNone, WiredNone, TaskedNone
<1>4. AppKept /\ \A m \in Nodes : /\ app'[m].parent = app[m].parent
                                  /\ app'[m].reading = app[m].reading
  BY <1>2, Parts, AppNone
<1>5. Stopped'
  BY <1>3, <1>4, Parts, StoppedStays
<1>6. OthersTyped /\ asked' = asked /\ foreign' = foreign
  BY <1>2, Parts, UsersNone, ProxiesNone, AnswersNone DEF OthersTyped
<1> QED
  BY <1>1, <1>3, <1>4, <1>5, <1>6, QuietStep

(* middleman::publish *)
LEMMA PublishStep ==
  ASSUME IInv, NEW a \in Actors, Publish(a)
  PROVE  IInv'
<1>1. ActorsTyped' /\ ActorsGrow
  BY Parts, ActorsNone, PeersAssumption DEF Publish, ActorsTyped
<1> QED
  BY <1>1, ActorOnly DEF Publish

(* An actor that terminates stays known. *)
LEMMA TerminateStep ==
  ASSUME IInv, NEW a \in Actors, Terminate(a)
  PROVE  IInv'
<1>1. life' = [life EXCEPT ![a] = "terminated"] /\ UNCHANGED <<registry, named, monitors>>
  BY DEF Terminate
<1>2. life \in [Actors -> {"alive", "terminated", "unmonitored", "gone"}]
  BY Parts DEF ActorsTyped
<1>3. ActorsTyped' /\ ActorsGrow
  BY <1>1, <1>2, Parts DEF ActorsTyped, ActorsGrow, Known, Down
<1> QED
  BY <1>3, ActorOnly DEF Terminate

(* Only an actor that has terminated leaves the registry. *)
LEMMA LeaveRegistryStep ==
  ASSUME IInv, NEW a \in Actors, LeaveRegistry(a)
  PROVE  IInv'
<1>1. /\ life[a] = "unmonitored" /\ life' = [life EXCEPT ![a] = "gone"]
      /\ registry' = registry \ {a} /\ named' = named \ {a} /\ monitors' = monitors
  BY DEF LeaveRegistry
<1>2. life \in [Actors -> {"alive", "terminated", "unmonitored", "gone"}]
  BY Parts DEF ActorsTyped
<1>3. ActorsTyped' /\ ActorsGrow
  BY <1>1, <1>2, Parts DEF ActorsTyped, ActorsGrow, Known, Down
<1> QED
  BY <1>3, ActorOnly DEF LeaveRegistry

(* The event of a monitor is about an actor that has terminated. *)
LEMMA RunMonitorsStep ==
  ASSUME IInv, NEW a \in Actors, RunMonitors(a)
  PROVE  IInv'
<1>1. life[a] = "terminated" /\ UNCHANGED <<registry, named>>
  BY DEF RunMonitors
<1>2. life \in [Actors -> {"alive", "terminated", "unmonitored", "gone"}]
      /\ monitors \in [Actors -> Nat]
  BY Parts DEF ActorsTyped
<1>3. CASE monitors[a] = 0
  <2>1. life' = [life EXCEPT ![a] = "unmonitored"] /\ UNCHANGED <<monitors, queue, writing>>
    BY <1>3 DEF RunMonitors
  <2>2. ActorsTyped' /\ ActorsGrow
    BY <1>1, <1>2, <2>1, Parts DEF ActorsTyped, ActorsGrow, Known, Down
  <2>3. UNCHANGED <<userVars, intruded, nodeVars, answers>>
    BY <2>1 DEF RunMonitors, nodeVars
  <2> QED
    BY <2>2, <2>3, ActorOnly
<1>4. CASE monitors[a] # 0
  <2>1. /\ monitors' = [monitors EXCEPT ![a] = @ - 1] /\ life' = life
        /\ enqueue_event(Home[a], ActorDown(a))
    BY <1>4 DEF RunMonitors, ActorDown
  <2>2. PICK n \in Nodes : n = Home[a]
    BY PeersAssumption
  <2>3. Queued(n, {ActorDown(a)})
    BY <2>1, <2>2, Parts, ActorEvents, EventQueued
  <2>4. Wired(n, {}) /\ Tasked(n, {})
    BY Parts, WiredNone, TaskedNone DEF RunMonitors
  <2>5. AppKept /\ \A m \in Nodes : /\ app'[m].parent = app[m].parent
                                    /\ app'[m].reading = app[m].reading
    BY Parts, AppNone DEF RunMonitors
  <2>6. Stopped'
    BY <2>3, <2>5, Parts, StoppedStays
  <2>7. ActorsTyped' /\ ActorsGrow
    <3>1. monitors' \in [Actors -> Nat]
      BY <1>2, <1>4, <2>1
    <3> QED
      BY <1>1, <2>1, <3>1, Parts, ActorsNone DEF ActorsTyped
  <2>8. OthersTyped /\ asked' = asked /\ answers' = answers /\ foreign' = foreign
    BY <2>7, Parts, UsersNone, ProxiesNone, AnswersNone DEF OthersTyped, RunMonitors
  <2>9. GoodEvent(ActorDown(a))'
    BY <1>1, <2>1, ActorEvents DEF GoodEvent, Down
  <2>10. PICK E : E = {ActorDown(a)}
    OBVIOUS
  <2>11. \A e \in E : e.is # "resolve" /\ GoodEvent(e)'
    BY <2>9, <2>10, ActorEvents
  <2> QED
    BY <2>3, <2>4, <2>5, <2>6, <2>7, <2>8, <2>10, <2>11, QuietStep
<1> QED
  BY <1>3, <1>4

(* A message waits in the queue; its sender is put into the registry later. *)
LEMMA SendStep ==
  ASSUME IInv, NEW n \in Nodes, NEW src \in Actors \cup {Nobody}, NEW dst \in Actors,
         Send(n, src, dst)
  PROVE  IInv'
<1>1. PICK m : m = [is |-> "message", src |-> src, dst |-> dst]
  OBVIOUS
<1>2. m \in Messages
  BY <1>1 DEF Messages
<1>3. Queued(n, {})
  BY <1>1, <1>2, Parts, MessageQueued DEF Send
<1>4. Wired(n, {}) /\ Tasked(n, {})
  BY Parts, WiredNone, TaskedNone DEF Send
<1>5. AppKept /\ \A x \in Nodes : /\ app'[x].parent = app[x].parent
                                  /\ app'[x].reading = app[x].reading
  BY Parts, AppNone DEF Send
<1>6. Stopped'
  BY <1>3, <1>5, Parts, StoppedStays
<1>7. ActorsTyped' /\ ActorsGrow
  BY Parts, ActorsSame DEF Send
<1>8. UsersTyped' /\ asked' = asked /\ answers' = answers /\ foreign' = foreign
  BY Parts, PeersAssumption DEF Send, UsersTyped
<1>9. OthersTyped
  BY <1>7, <1>8, Parts, ProxiesNone, AnswersNone DEF OthersTyped, Send
<1> QED
  BY <1>3, <1>4, <1>5, <1>6, <1>7, <1>8, <1>9, QuietStep

(* Nothing is claimed of the packets of a foreign program. *)
LEMMA ForeignSendsStep ==
  ASSUME IInv, NEW p \in ForeignPackets, ForeignSends(p)
  PROVE  IInv'
<1>1. PICK n \in Nodes : n = Peer(Foreigner)
  BY PeersAssumption, PeerFacts
<1>2. foreign /\ wire' = [wire EXCEPT ![n] = Append(wire[n], p)] /\ p \in Packets
  BY <1>1, PeersAssumption DEF ForeignSends
<1>3. Wired(n, {p})
  <2>1. wire \in [Nodes -> Seq(Packets)] /\ Append(wire[n], p) \in Seq(Packets)
    BY <1>2, Parts DEF WireTyped
  <2>2. WireTyped' /\ wire'[n] = Append(wire[n], p) /\ \A m \in Nodes : m # n => wire'[m] = wire[m]
    BY <1>2, <2>1 DEF WireTyped
  <2>3. \A x \in ToSet(Append(wire[n], p)) : x \in ToSet(wire[n]) \/ x = p
    BY <2>1 DEF ToSet
  <2> QED
    BY <2>2, <2>3 DEF Wired
<1>4. Queued(n, {}) /\ Tasked(n, {})
  BY Parts, QueuedNone, TaskedNone DEF ForeignSends
<1>5. AppKept /\ \A m \in Nodes : /\ app'[m].parent = app[m].parent
                                  /\ app'[m].reading = app[m].reading
  BY Parts, AppNone DEF ForeignSends
<1>6. Stopped'
  BY <1>4, <1>5, Parts, StoppedStays
<1>7. ActorsTyped' /\ ActorsGrow
  BY Parts, ActorsSame DEF ForeignSends
<1>8. UsersTyped' /\ asked' = asked /\ answers' = answers /\ foreign' = foreign
  BY Parts, PeersAssumption DEF ForeignSends, UsersTyped, userVars
<1>9. OthersTyped
  BY <1>7, <1>8, Parts, ProxiesNone, AnswersNone DEF OthersTyped, ForeignSends
<1>10. PICK P : P = {p}
  OBVIOUS
<1> QED
  BY <1>2, <1>3, <1>4, <1>5, <1>6, <1>7, <1>8, <1>9, <1>10, QuietStep

(* A node that stops forgets neither lookups nor events. *)
LEMMA StopStep ==
  ASSUME IInv, NEW n \in Nodes, Stop(n)
  PROVE  IInv'
<1>1. app' = [app EXCEPT ![n].parent = FALSE, ![n].reading = FALSE]
      /\ writing' = [writing EXCEPT ![n] = FALSE] /\ proxies' = [proxies EXCEPT ![n] = {}]
  BY DEF Stop
<1>2. app \in [Nodes -> App] /\ app[n] \in App
  BY Parts DEF AppTyped
<1>3. PICK a : a = [app[n] EXCEPT !.parent = FALSE, !.reading = FALSE]
  OBVIOUS
<1>4. /\ a \in App /\ a.pending_resolves = app[n].pending_resolves /\ a.hdr = app[n].hdr
      /\ a.next_request_id = app[n].next_request_id /\ ~a.parent /\ ~a.reading
  BY <1>2, <1>3 DEF App
<1>5. app' = [app EXCEPT ![n] = a]
  BY <1>1, <1>3
<1>6. \A m \in Nodes : app'[m] = IF m = n THEN a ELSE app[m]
  BY <1>2, <1>5
<1>7. AppTyped' /\ SameIds /\ \A m \in Nodes : pending(m)' = pending(m)
  <2>1. SameIds /\ \A m \in Nodes : pending(m)' = pending(m)
    BY <1>4, <1>6 DEF SameIds, pending
  <2>2. app' \in [Nodes -> App]
    BY <1>2, <1>4, <1>5
  <2> QED
    BY <2>1, <2>2, Parts DEF AppTyped, SameIds
<1>8. AppKept
  BY <1>4, <1>6, <1>7 DEF AppKept, Incoming
<1>9. writing' \in [Nodes -> BOOLEAN] /\ \A m \in Nodes : writing'[m] => m # n /\ writing[m]
  BY <1>1, Parts, Zenon DEF QueueTyped
<1>10. Queued(n, {})
  <2>1. QueueTyped' /\ \A m \in Nodes : events(m)' = events(m)
    BY <1>9, Parts DEF QueueTyped, Stop, events
  <2> QED
    BY <1>9, <2>1 DEF Queued
<1>11. Stopped'
  BY <1>4, <1>6, <1>9, Parts DEF Stopped
<1>12. Wired(n, {}) /\ Tasked(n, {})
  BY Parts, WiredNone, TaskedNone DEF Stop
<1>13. ActorsTyped' /\ ActorsGrow
  BY Parts, ActorsSame DEF Stop
<1>14. UsersTyped' /\ asked' = asked /\ answers' = answers /\ foreign' = foreign
  BY Parts, UsersNone DEF Stop
<1>15. ProxiesTyped'
  BY <1>1, Parts DEF ProxiesTyped
<1>16. OthersTyped
  BY <1>13, <1>14, <1>15, Parts, AnswersNone DEF OthersTyped
<1> QED
  BY <1>8, <1>10, <1>11, <1>12, <1>13, <1>14, <1>16, QuietStep

(* endpoint_manager::resolve: nothing of an earlier lookup of the listener *)
(* is there.                                                               *)
LEMMA ResolveStep ==
  ASSUME IInv, NEW l \in Listeners, NEW path \in Paths, Resolve(l, path)
  PROVE  IInv'
<1>1. PICK n \in Nodes : n = Asks[l].node
  BY PeersAssumption
<1>2. PICK e : e = [is |-> "resolve", path |-> path, listener |-> l]
  OBVIOUS
<1>3. e \in Events /\ e.is = "resolve" /\ e.path = path /\ e.listener = l
  BY <1>2 DEF Events
<1>4. /\ asked[l] = NoPath /\ asked' = [asked EXCEPT ![l] = path] /\ enqueue_event(n, e)
      /\ calls < MaxCalls /\ calls' = calls + 1
      /\ IF queue[n].blocked /\ ~app[n].parent THEN Answer(l, "error", Nobody)
         ELSE UNCHANGED answers
      /\ UNCHANGED <<foreign, app_ids, intruded, app, wire, tasks, proxies, actorVars>>
  BY <1>1, <1>2 DEF Resolve
<1>5. asked \in [Listeners -> Paths \cup {NoPath}]
  BY Parts DEF UsersTyped
<1>6. asked'[l] = path /\ path # NoPath /\ \A x \in Listeners : x # l => asked'[x] = asked[x]
  BY <1>4, <1>5, NoPathFacts
<1>7. /\ \A m \in Nodes : \A k : ~LooksUp(m, k, l)
      /\ \A m \in Nodes : \A r : ~Awaits(m, r, l)
  <2>1. ASSUME NEW m \in Nodes, NEW k, LooksUp(m, k, l)
        PROVE  FALSE
    <3>1. k \in DOMAIN events(m) /\ events(m)[k].is = "resolve"
      BY <2>1 DEF LooksUp
    <3>2. events(m)[k] \in Events
      BY <3>1, Parts, TrafficTypes DEF ToSet
    <3>3. events(m)[k].path \in Paths
      BY <3>1, <3>2, EventFacts
    <3>4. asked[l] = events(m)[k].path
      BY <2>1, <3>1, Parts DEF QueuedOnce
    <3> QED
      BY <1>4, <3>3, <3>4, NoPathFacts
  <2>2. ASSUME NEW m \in Nodes, NEW r, Awaits(m, r, l)
        PROVE  FALSE
    <3>1. r \in DOMAIN pending(m)
      BY <2>2 DEF Awaits
    <3>2. asked[l] \in Paths
      BY <2>2, <3>1, Parts DEF PendingOnce
    <3> QED
      BY <1>4, <3>2, NoPathFacts
  <2> QED
    BY <2>1, <2>2
<1>8. answers[l] = <<>> /\ answers \in [Listeners -> Seq({"proxy", "nullptr", "sec", "error"}
                                  \X (Actors \cup {Nobody}))]
  <2>1. answers \in [Listeners -> Seq({"proxy", "nullptr", "sec", "error"}
                                  \X (Actors \cup {Nobody}))]
    BY Parts DEF AnswersTyped
  <2>2. DOMAIN answers[l] = {}
    BY <1>4, Parts DEF RightAnswer
  <2>3. PICK S, s : s = answers[l] /\ s \in Seq(S)
    BY <2>1
  <2>4. Len(s) \in Nat /\ DOMAIN s = 1 .. Len(s) /\ DOMAIN s = {}
    BY <2>2, <2>3
  <2>5. Len(s) = 0
    BY <2>4
  <2>6. s = <<>>
    BY <2>3, <2>5, EmptySeq
  <2> QED
    BY <2>1, <2>3, <2>6
<1>9. /\ \A x \in Listeners : x # l => answers'[x] = answers[x]
      /\ answers'[l] = <<>> \/ answers'[l] = <<<<"error", Nobody>>>>
      /\ app[n].parent => answers'[l] = <<>>
      /\ AnswersTyped'
  <2>1. CASE queue[n].blocked /\ ~app[n].parent
    <3>1. answers' = [answers EXCEPT ![l] = Append(<<>>, <<"error", Nobody>>)]
      BY <1>4, <1>8, <2>1 DEF Answer
    <3>2. PICK s : s = <<<<"error", Nobody>>>>
      OBVIOUS
    <3>3. s = Append(<<>>, <<"error", Nobody>>)
          /\ s \in Seq({"proxy", "nullptr", "sec", "error"} \X (Actors \cup {Nobody}))
      BY <3>2
    <3>4. answers' = [answers EXCEPT ![l] = s]
      BY <3>1, <3>3
    <3> QED
      BY <1>8, <2>1, <3>2, <3>3, <3>4 DEF AnswersTyped
  <2>2. CASE ~(queue[n].blocked /\ ~app[n].parent)
    BY <1>4, <1>8, <2>2 DEF AnswersTyped
  <2> QED
    BY <2>1, <2>2
<1>10. Queued(n, {e}) /\ events(n)' = Append(events(n), e) /\ events(n) \in Seq(Events)
  BY <1>3, <1>4, Parts, EventQueued DEF QueueTyped, Queue, events
<1>11. Wired(n, {}) /\ Tasked(n, {})
  BY <1>4, Parts, WiredNone, TaskedNone
<1>12. AppKept /\ app' = app
  BY <1>4, Parts, AppNone
<1>13. Stopped'
  BY <1>10, <1>12, Parts, StoppedStays
<1>14. ActorsTyped' /\ ActorsGrow
  BY <1>4, Parts, ActorsSame
<1>15. UsersTyped'
  BY <1>4, <1>5, Parts, PeersAssumption DEF UsersTyped
<1>16. Typed'
  BY <1>4, <1>9, <1>10, <1>11, <1>12, <1>14, <1>15, Parts, ProxiesNone
     DEF Typed, Queued, Wired, Tasked, AppKept
<1>17. \A m \in Nodes : \A k, x : LooksUp(m, k, x)' =>
         \/ LooksUp(m, k, x) /\ events(m)'[k] = events(m)[k] /\ x # l
         \/ x = l /\ m = n /\ k = Len(events(n)) + 1 /\ events(m)'[k] = e
  <2> SUFFICES ASSUME NEW m \in Nodes, NEW k, NEW x, LooksUp(m, k, x)'
               PROVE  \/ LooksUp(m, k, x) /\ events(m)'[k] = events(m)[k] /\ x # l
                      \/ x = l /\ m = n /\ k = Len(events(n)) + 1 /\ events(m)'[k] = e
    OBVIOUS
  <2>1. k \in DOMAIN events(m)' /\ events(m)'[k].is = "resolve" /\ events(m)'[k].listener = x
    BY DEF LooksUp
  <2>2. CASE k \in DOMAIN events(m) /\ events(m)'[k] = events(m)[k]
    <3>1. LooksUp(m, k, x)
      BY <2>1, <2>2 DEF LooksUp
    <3> QED
      BY <1>7, <2>2, <3>1
  <2>3. CASE m = n /\ ~(k \in DOMAIN events(m) /\ events(m)'[k] = events(m)[k])
    <3>1. k = Len(events(n)) + 1 /\ events(m)'[k] = e
      BY <1>10, <2>1, <2>3
    <3> QED
      BY <1>3, <2>1, <2>3, <3>1
  <2> QED
    BY <1>10, <2>1, <2>2, <2>3 DEF Queued
<1>18. \A m \in Nodes : pending(m)' = pending(m)
  BY <1>12 DEF AppKept
<1>19. \A m \in Nodes : \A r, x : Awaits(m, r, x)' = Awaits(m, r, x)
  BY <1>18 DEF Awaits
<1>20. QueuedOnce'
  <2> SUFFICES ASSUME NEW x \in Listeners, NEW m \in Nodes, NEW k \in DOMAIN events(m)',
                      LooksUp(m, k, x)'
               PROVE  (/\ m = Asks[x].node /\ asked[x] = events(m)[k].path
                       /\ \A j \in DOMAIN events(m) : LooksUp(m, j, x) => j = k
                       /\ \A r \in DOMAIN pending(m) : ~Awaits(m, r, x)
                       /\ app[m].parent => answers[x] = <<>>)'
    BY DEF QueuedOnce
  <2>1. CASE x = l
    <3>1. m = n /\ k = Len(events(n)) + 1 /\ events(m)'[k] = e
      BY <1>17, <2>1
    <3>2. \A j : LooksUp(m, j, x)' => j = k
      BY <1>17, <2>1, <3>1
    <3> QED
      BY <1>1, <1>3, <1>6, <1>7, <1>9, <1>12, <1>19, <2>1, <3>1, <3>2
  <2>2. CASE x # l
    <3>1. LooksUp(m, k, x) /\ events(m)'[k] = events(m)[k] /\ k \in DOMAIN events(m)
      BY <1>17, <2>2 DEF LooksUp
    <3>2. /\ m = Asks[x].node /\ asked[x] = events(m)[k].path
          /\ \A j \in DOMAIN events(m) : LooksUp(m, j, x) => j = k
          /\ \A r \in DOMAIN pending(m) : ~Awaits(m, r, x)
          /\ app[m].parent => answers[x] = <<>>
      BY <3>1, Parts DEF QueuedOnce
    <3>3. \A j : LooksUp(m, j, x)' => j = k
      <4> SUFFICES ASSUME NEW j, LooksUp(m, j, x)'
                   PROVE  j = k
        OBVIOUS
      <4>1. LooksUp(m, j, x) /\ j \in DOMAIN events(m)
        BY <1>17, <2>2 DEF LooksUp
      <4> QED
        BY <3>2, <4>1
    <3> QED
      BY <1>6, <1>9, <1>12, <1>18, <1>19, <2>2, <3>1, <3>2, <3>3
  <2> QED
    BY <2>1, <2>2
<1>21. PendingOnce'
  <2> SUFFICES ASSUME NEW x \in Listeners, NEW m \in Nodes, NEW r \in DOMAIN pending(m)',
                      Awaits(m, r, x)'
               PROVE  (/\ m = Asks[x].node /\ asked[x] \in Paths /\ answers[x] = <<>>
                       /\ \A s \in DOMAIN pending(m) : Awaits(m, s, x) => s = r)'
    BY DEF PendingOnce
  <2>1. Awaits(m, r, x) /\ x # l /\ r \in DOMAIN pending(m)
    BY <1>7, <1>19 DEF Awaits
  <2>2. /\ m = Asks[x].node /\ asked[x] \in Paths /\ answers[x] = <<>>
        /\ \A s \in DOMAIN pending(m) : Awaits(m, s, x) => s = r
    BY <2>1, Parts DEF PendingOnce
  <2> QED
    BY <1>6, <1>9, <1>18, <1>19, <2>1, <2>2
<1>22. RightAnswer'
  <2> SUFFICES ASSUME NEW x \in Listeners
               PROVE  (/\ Len(answers[x]) <= 1
                       /\ \A i \in DOMAIN answers[x] :
                            /\ asked[x] # NoPath
                            /\ ~foreign /\ answers[x][i][1] = "proxy"
                                 => asked[x].by # "other" /\ answers[x][i][2] = asked[x].whom)'
    BY DEF RightAnswer
  <2>1. CASE x # l
    <3>1. answers'[x] = answers[x] /\ asked'[x] = asked[x] /\ foreign' = foreign
      BY <1>4, <1>6, <1>9, <2>1
    <3> QED
      BY <3>1, Parts DEF RightAnswer
  <2>2. CASE x = l
    <3>1. CASE answers'[l] = <<>>
      BY <2>2, <3>1
    <3>2. CASE answers'[l] = <<<<"error", Nobody>>>>
      BY <1>6, <2>2, <3>2
    <3> QED
      BY <1>9, <3>1, <3>2
  <2> QED
    BY <2>1, <2>2
<1>23. Grows
  <2>1. ASSUME NEW m \in Nodes
        PROVE  app[m].next_request_id <= app'[m].next_request_id
    BY <1>12, Parts, AppFacts
  <2>2. ASSUME NEW m \in Nodes, NEW r \in DOMAIN pending(m)
        PROVE  asked'[pending(m)[r]] = asked[pending(m)[r]]
    <3>1. pending(m)[r] \in Listeners
      BY Parts, AppFacts
    <3>2. pending(m)[r] # l
      BY <1>7 DEF Awaits
    <3> QED
      BY <1>6, <3>1, <3>2
  <2> QED
    BY <1>14, <1>18, <2>1, <2>2 DEF Grows, ActorsGrow
<1>24. NewTraffic
  <2>1. ASSUME NEW m \in Nodes, NEW p \in Incoming(m)'
        PROVE  p \in Incoming(m)
    BY <1>4 DEF Incoming
  <2>2. ASSUME NEW m \in Nodes, NEW t \in ToSet(tasks[m])'
        PROVE  t \in ToSet(tasks[m])
    BY <1>4
  <2>3. ASSUME NEW m \in Nodes, NEW x \in ToSet(events(m))'
        PROVE  x \in ToSet(events(m)) \/ GoodEvent(x)'
    <3>1. PICK k \in DOMAIN events(m)' : x = events(m)'[k]
      BY <2>3 DEF ToSet
    <3>2. CASE k \in DOMAIN events(m) /\ x = events(m)[k]
      BY <3>2 DEF ToSet
    <3>3. CASE x = e
      BY <1>3, <3>3 DEF GoodEvent
    <3> QED
      BY <1>10, <3>1, <3>2, <3>3 DEF Queued
  <2> QED
    BY <2>1, <2>2, <2>3 DEF NewTraffic
<1>25. GoodTraffic'
  BY <1>4, <1>16, <1>23, <1>24, Parts, TrafficStep DEF Typed
<1> QED
  BY <1>13, <1>16, <1>20, <1>21, <1>22, <1>25 DEF IInv

-----------------------------------------------------------------------------
(* Read events *)

HeaderStates == {"await_header", "await_handshake_header"}

(* n handles p; a is its application with the state that this leads to. *)
Handler(n, a, p) ==
  /\ a \in App /\ a.pending_resolves = pending(n)
  /\ a.next_request_id = app[n].next_request_id
  /\ a.parent = app[n].parent /\ app[n].reading
  /\ a.hdr \in Incoming(n) \cup {NoPacket} /\ p \in Incoming(n)
  /\ app[n].state \in HeaderStates => wire[n] # <<>>

(* Taking a packet from the wire leaves the others. *)
LEMMA RestFacts ==
  ASSUME WireTyped, NEW n \in Nodes, app[n].state \in HeaderStates => wire[n] # <<>>
  PROVE  /\ Rest(n) \in [Nodes -> Seq(Packets)]
         /\ \A m \in Nodes : \A p \in ToSet(Rest(n)[m]) : p \in ToSet(wire[m])
<1>1. wire \in [Nodes -> Seq(Packets)] /\ wire[n] \in Seq(Packets)
  BY DEF WireTyped
<1>2. CASE app[n].state \in HeaderStates
  <2>1. PICK s : s = Tail(wire[n])
    OBVIOUS
  <2>2. s \in Seq(Packets) /\ \A p \in ToSet(s) : p \in ToSet(wire[n])
    <3>1. s \in Seq(Packets) /\ \A k \in DOMAIN s : k + 1 \in DOMAIN wire[n] /\ s[k] = wire[n][k + 1]
      BY <1>1, <1>2, <2>1
    <3> QED
      BY <3>1 DEF ToSet
  <2>3. Rest(n) = [wire EXCEPT ![n] = s]
    BY <1>2, <2>1 DEF Rest, HeaderStates
  <2> QED
    BY <1>1, <2>2, <2>3
<1>3. CASE app[n].state \notin HeaderStates
  <2>1. Rest(n) = [wire EXCEPT ![n] = wire[n]]
    BY <1>3 DEF Rest, HeaderStates
  <2> QED
    BY <1>1, <2>1
<1> QED
  BY <1>2, <1>3

(* A handler that does not reply. *)
LEMMA NoReplyWired ==
  ASSUME WireTyped, NEW n \in Nodes, app[n].state \in HeaderStates => wire[n] # <<>>,
         NoReply(n), NEW c
  PROVE  Wired(c, {})
<1>1. wire' = Rest(n)
  BY DEF NoReply
<1> QED
  BY <1>1, RestFacts DEF Wired, WireTyped

(* A handler that replies to the peer. *)
LEMMA ReplyWired ==
  ASSUME WireTyped, NEW n \in Nodes, app[n].state \in HeaderStates => wire[n] # <<>>,
         NEW p \in Packets, Reply(n, p)
  PROVE  Wired(Peer(n), {p})
<1>1. PICK c \in Nodes : c = Peer(n)
  BY PeerFacts
<1>2. PICK w : w = Rest(n)
  OBVIOUS
<1>3. /\ w \in [Nodes -> Seq(Packets)]
      /\ \A m \in Nodes : \A x \in ToSet(w[m]) : x \in ToSet(wire[m])
  BY <1>2, RestFacts
<1>4. wire' = [w EXCEPT ![c] = IF Native(c) THEN Append(w[c], p) ELSE w[c]]
  BY <1>1, <1>2 DEF Reply
<1>5. Append(w[c], p) \in Seq(Packets) /\ \A x \in ToSet(Append(w[c], p)) : x \in ToSet(w[c]) \/ x = p
  BY <1>3 DEF ToSet
<1>6. wire' \in [Nodes -> Seq(Packets)] /\ \A m \in Nodes : m # c => wire'[m] = w[m]
  BY <1>3, <1>4, <1>5
<1>7. wire'[c] = w[c] \/ wire'[c] = Append(w[c], p)
  BY <1>3, <1>4
<1>8. \A m \in Nodes : \A x \in ToSet(wire'[m]) : x \in ToSet(wire[m]) \/ (m = c /\ x \in {p})
  BY <1>3, <1>5, <1>6, <1>7
<1> QED
  BY <1>1, <1>6, <1>8 DEF Wired, WireTyped

(* A handler that leaves pending_resolves_ alone. *)
LEMMA AppSet ==
  ASSUME AppTyped, NEW n \in Nodes, NEW a \in App, app' = [app EXCEPT ![n] = a],
         a.pending_resolves = pending(n), a.next_request_id = app[n].next_request_id,
         a.parent = app[n].parent, app[n].reading, a.hdr \in Incoming(n) \cup {NoPacket}
  PROVE  AppKept /\ \A m \in Nodes : /\ app'[m].parent = app[m].parent
                                     /\ app'[m].reading => app[m].reading
<1>1. app \in [Nodes -> App]
  BY DEF AppTyped
<1>2. app' \in [Nodes -> App] /\ app'[n] = a /\ \A m \in Nodes : m # n => app'[m] = app[m]
  BY <1>1
<1>3. SameIds /\ \A m \in Nodes : pending(m)' = pending(m)
  BY <1>2 DEF SameIds, pending
<1>4. AppTyped'
  BY <1>2, <1>3 DEF AppTyped, SameIds
<1>5. \A m \in Nodes : app'[m].hdr \in Incoming(m) \cup {NoPacket}
  BY <1>2 DEF Incoming
<1>6. \A m \in Nodes : app'[m].parent = app[m].parent /\ (app'[m].reading => app[m].reading)
  BY <1>2
<1> QED
  BY <1>3, <1>4, <1>5, <1>6 DEF AppKept

(* What every handler leaves alone. *)
HandlerFrame == UNCHANGED <<userVars, intruded, life, named>>

(* A handler that does not answer a listener. *)
LEMMA HandlerStep ==
  ASSUME IInv, NEW n \in Nodes, NEW a, NEW p, Handler(n, a, p), HandlerFrame,
         NEW b, b = a \/ b = [a EXCEPT !.reading = FALSE], app' = [app EXCEPT ![n] = b],
         NEW E, NEW P, NEW T, Queued(n, E), Wired(Peer(n), P), Tasked(n, T),
         ProxiesTyped', registry \subseteq registry', registry' \subseteq Actors,
         monitors' \in [Actors -> Nat], answers' = answers,
         \A e \in E : e.is # "resolve",
         ~foreign => /\ \A e \in E : GoodEvent(e)'
                     /\ \A x \in P : GoodPacket(Peer(n), x)'
                     /\ \A t \in T : GoodMessage(t)'
  PROVE  IInv'
<1>1. PICK c \in Nodes : c = Peer(n)
  BY PeerFacts
<1>2. a \in App
  BY DEF Handler
<1>3. /\ b \in App /\ b.pending_resolves = a.pending_resolves /\ b.hdr = a.hdr
      /\ b.next_request_id = a.next_request_id /\ b.parent = a.parent
  BY <1>2 DEF App
<1>4. AppKept /\ \A m \in Nodes : /\ app'[m].parent = app[m].parent
                                  /\ app'[m].reading => app[m].reading
  <2>1. /\ b.pending_resolves = pending(n) /\ b.next_request_id = app[n].next_request_id
        /\ b.parent = app[n].parent /\ app[n].reading /\ b.hdr \in Incoming(n) \cup {NoPacket}
    BY <1>3 DEF Handler
  <2> QED
    BY <1>3, <2>1, Parts, AppSet
<1>5. Stopped'
  BY <1>4, Parts, StoppedStays
<1>6. ActorsGrow
  BY ActorsNone DEF HandlerFrame
<1>7. ActorsTyped'
  BY Parts DEF ActorsTyped, HandlerFrame
<1>8. UsersTyped' /\ asked' = asked /\ foreign' = foreign
  BY Parts, UsersNone DEF HandlerFrame
<1>9. OthersTyped
  BY <1>7, <1>8, Parts, AnswersNone DEF OthersTyped
<1>10. Wired(c, P) /\ (~foreign => \A x \in P : GoodPacket(c, x)')
  BY <1>1
<1> QED
  BY <1>4, <1>5, <1>6, <1>8, <1>9, <1>10, QuietStep

(* A handler that has no effect on other parts. *)
LEMMA HandlerEnds ==
  ASSUME IInv, NEW n \in Nodes, NEW a, NEW p, Handler(n, a, p), HandlerFrame,
         NEW b, b = a \/ b = [a EXCEPT !.reading = FALSE], app' = [app EXCEPT ![n] = b],
         Wired(Peer(n), {}), UNCHANGED <<queue, writing, tasks, proxies, registry, monitors, answers>>
  PROVE  IInv'
<1>1. Queued(n, {}) /\ Tasked(n, {}) /\ ProxiesTyped'
  BY Parts, QueuedNone, TaskedNone, ProxiesNone
<1>2. registry' \subseteq Actors /\ monitors' \in [Actors -> Nat]
  BY Parts DEF ActorsTyped
<1>3. PICK E : E = {}
  OBVIOUS
<1>4. /\ Queued(n, E) /\ Wired(Peer(n), E) /\ Tasked(n, E)
      /\ \A e \in E : e.is # "resolve" /\ GoodEvent(e)' /\ GoodPacket(Peer(n), e)' /\ GoodMessage(e)'
  BY <1>1, <1>3
<1>5. registry \subseteq registry' /\ answers' = answers
  OBVIOUS
<1> QED
  BY <1>1, <1>2, <1>4, <1>5, HandlerStep

(* A failing handler only ends reading. *)
LEMMA FailStep ==
  ASSUME IInv, NEW n \in Nodes, NEW a, NEW p, Handler(n, a, p), HandlerFrame,
         Fail(n, a), Wired(Peer(n), {})
  PROVE  IInv'
<1>1. PICK b : b = [a EXCEPT !.reading = FALSE]
  OBVIOUS
<1>2. app' = [app EXCEPT ![n] = b]
      /\ UNCHANGED <<queue, writing, tasks, proxies, registry, monitors, answers>>
  BY <1>1 DEF Fail
<1> QED
  BY <1>1, <1>2, HandlerEnds

(* The packet that a handler gets. *)
LEMMA HandlerFacts ==
  ASSUME IInv, NEW n \in Nodes, NEW a, NEW p, Handler(n, a, p)
  PROVE  /\ p \in Packets /\ p.op \in Nat \cup Actors /\ p.payload \in Payloads
         /\ ~foreign => GoodPacket(n, p)
         /\ app[n].state \in HeaderStates => wire[n] # <<>>
<1>1. p \in Incoming(n) /\ p \in Packets
  BY Parts, TrafficTypes DEF Handler
<1>2. ~foreign => GoodPacket(n, p)
  BY <1>1, Parts DEF GoodTraffic
<1> QED
  BY <1>1, <1>2, PacketFacts DEF Handler

(* handle_actor_message hands the payload to a worker. *)
LEMMA ActorMessageStep ==
  ASSUME IInv, NEW n \in Nodes, NEW a, NEW p, Handler(n, a, p), HandlerFrame,
         p.type = "actor_message", handle_actor_message(n, a, p.payload)
  PROVE  IInv'
<1>1. PICK pl : pl = p.payload
  OBVIOUS
<1>2. /\ app' = [app EXCEPT ![n] = a] /\ tasks' = [tasks EXCEPT ![n] = Append(tasks[n], pl)]
      /\ NoReply(n) /\ UNCHANGED <<queue, writing, proxies, registry, monitors, answers>>
  BY <1>1 DEF handle_actor_message
<1>3. pl \in Payloads
  BY <1>1, HandlerFacts
<1>4. PICK T : T = {pl}
  OBVIOUS
<1>5. Tasked(n, T)
  <2>1. tasks \in [Nodes -> Seq(Payloads)]
    BY Parts DEF TasksTyped
  <2>2. PICK s : s = Append(tasks[n], pl)
    OBVIOUS
  <2>3. s \in Seq(Payloads) /\ \A x \in ToSet(s) : x \in ToSet(tasks[n]) \/ x \in T
    BY <1>3, <1>4, <2>1, <2>2 DEF ToSet
  <2>4. tasks' \in [Nodes -> Seq(Payloads)] /\ tasks'[n] = s
        /\ \A m \in Nodes : m # n => tasks'[m] = tasks[m]
    BY <1>2, <2>1, <2>2, <2>3
  <2> QED
    BY <2>3, <2>4 DEF Tasked, TasksTyped
<1>6. PICK E : E = {}
  OBVIOUS
<1>7. Queued(n, E) /\ Wired(Peer(n), E) /\ ProxiesTyped'
  BY <1>2, <1>6, Parts, HandlerFacts, QueuedNone, NoReplyWired, ProxiesNone
<1>8. /\ registry \subseteq registry' /\ registry' \subseteq Actors
      /\ monitors' \in [Actors -> Nat] /\ answers' = answers
  BY <1>2, Parts DEF ActorsTyped
<1>9. ASSUME ~foreign
      PROVE  \A t \in T : GoodMessage(t)'
  <2>1. GoodMessage(pl)
    BY <1>1, <1>9, HandlerFacts DEF GoodPacket
  <2>2. GoodMessage(pl)'
    BY <1>2, <2>1 DEF GoodMessage, Known, HandlerFrame
  <2> QED
    BY <1>4, <2>2
<1>10. \A e \in E : e.is # "resolve" /\ GoodEvent(e)' /\ GoodPacket(Peer(n), e)'
  BY <1>6
<1> QED
  BY <1>2, <1>5, <1>7, <1>8, <1>9, <1>10, HandlerStep

(* A path leads to an actor that is, from now on, known. *)
LEMMA LocalPath ==
  ASSUME ActorsTyped, NEW n \in Nodes, NEW path \in Paths, NEW x, x = resolve_local_path(n, path),
         put({x} \ {Nobody}), life' = life
  PROVE  /\ x \in Actors \cup {Nobody}
         /\ x # Nobody => path.by # "other" /\ x = path.whom /\ Known(x)'
         /\ registry \subseteq registry' /\ registry' \subseteq Actors
<1>1. path.by # "other" => path.whom \in Actors
  BY DEF Paths
<1>2. x = Nobody \/ (path.by # "other" /\ x = path.whom)
  BY DEF resolve_local_path
<1>3. x \in Actors \cup {Nobody}
  BY <1>1, <1>2
<1>4. registry' = registry \cup {y \in {x} \ {Nobody} : life[y] = "alive"}
  BY DEF put
<1>5. registry \subseteq registry' /\ registry' \subseteq Actors
  BY <1>3, <1>4 DEF ActorsTyped
<1>6. x # Nobody => Known(x)'
  BY <1>4 DEF Known
<1> QED
  BY <1>2, <1>3, <1>5, <1>6

(* handle_resolve_request names an actor that it put into the registry. *)
LEMMA RequestStep ==
  ASSUME IInv, NEW n \in Nodes, NEW a, NEW p, Handler(n, a, p), HandlerFrame,
         p.type = "resolve_request", handle_resolve_request(n, a, p.op, p.payload)
  PROVE  IInv'
<1>1. CASE p.payload.is # "path"
  <2>1. Fail(n, a) /\ NoReply(n)
    BY <1>1 DEF handle_resolve_request
  <2> QED
    BY <2>1, Parts, HandlerFacts, NoReplyWired, FailStep
<1>2. CASE p.payload.is = "path"
  <2>1. PICK path, x : path = p.payload.path /\ x = resolve_local_path(n, path)
    OBVIOUS
  <2>2. /\ put({x} \ {Nobody})
        /\ Reply(n, packet("resolve_response", p.op, [is |-> "aid", aid |-> x]))
        /\ app' = [app EXCEPT ![n] = a]
        /\ UNCHANGED <<queue, writing, tasks, proxies, monitors, answers>>
    BY <1>2, <2>1 DEF handle_resolve_request
  <2>3. path \in Paths
    BY <1>2, <2>1, HandlerFacts, PayloadFacts
  <2>4. /\ x \in Actors \cup {Nobody}
        /\ x # Nobody => path.by # "other" /\ x = path.whom /\ Known(x)'
        /\ registry \subseteq registry' /\ registry' \subseteq Actors
    <3>1. life' = life
      BY DEF HandlerFrame
    <3> QED
      BY <2>1, <2>2, <2>3, <3>1, Parts, LocalPath
  <2>5. PICK pl : pl = [is |-> "aid", aid |-> x]
    OBVIOUS
  <2>6. pl \in Payloads /\ pl.is = "aid" /\ pl.aid = x
    BY <2>4, <2>5, PayloadTypes
  <2>7. PICK q : q = packet("resolve_response", p.op, pl)
    OBVIOUS
  <2>8. q \in Packets /\ q.type = "resolve_response" /\ q.op = p.op /\ q.payload = pl
    <3>1. p.op \in Nat \cup Actors /\ "resolve_response" \in message_types \cup {"other"}
      BY HandlerFacts DEF message_types
    <3>2. PICK op \in Nat \cup Actors, t \in message_types \cup {"other"} :
            op = p.op /\ t = "resolve_response"
      BY <3>1
    <3>3. q = packet(t, op, pl) /\ pl \in Payloads
      BY <2>6, <2>7, <3>2
    <3>4. q \in Packets /\ q.type = t /\ q.op = op /\ q.payload = pl
      BY <3>3, PacketType
    <3> QED
      BY <3>2, <3>4
  <2>9. PICK P, E : P = {q} /\ E = {}
    OBVIOUS
  <2>10. Wired(Peer(n), P)
    <3>1. Reply(n, q)
      BY <2>2, <2>5, <2>7
    <3> QED
      BY <2>8, <2>9, <3>1, Parts, HandlerFacts, ReplyWired
  <2>11. Queued(n, E) /\ Tasked(n, E) /\ ProxiesTyped'
    BY <2>2, <2>9, Parts, QueuedNone, TaskedNone, ProxiesNone
  <2>12. monitors' \in [Actors -> Nat] /\ answers' = answers
    BY <2>2, Parts DEF ActorsTyped
  <2>13. ASSUME ~foreign
         PROVE  GoodPacket(Peer(n), q)'
    <3>1. PICK c \in Nodes : c = Peer(n) /\ c # n
      BY PeerFacts
    <3>2. GoodRequest(c, p)
      BY <2>13, <3>1, HandlerFacts DEF GoodPacket
    <3>3. app'[c] = app[c] /\ pending(c)' = pending(c) /\ asked' = asked
      BY <2>2, <3>1, Parts DEF AppTyped, pending, HandlerFrame, userVars
    <3>4. /\ q.payload.is = "aid" /\ q.op \in Nat /\ q.op < app'[c].next_request_id
          /\ q.op \in DOMAIN pending(c)' => path = asked'[pending(c)'[q.op]]
      BY <2>1, <2>6, <2>8, <3>2, <3>3 DEF GoodRequest
    <3>5. GoodResponse(c, q)'
      BY <2>4, <2>6, <2>8, <3>4 DEF GoodResponse
    <3>6. GoodPacket(c, q)'
      BY <2>8, <3>5 DEF GoodPacket
    <3> QED
      BY <3>1, <3>6
  <2>14. ~foreign => \A y \in P : GoodPacket(Peer(n), y)'
    BY <2>9, <2>13
  <2>15. \A e \in E : e.is # "resolve" /\ GoodEvent(e)' /\ GoodMessage(e)'
    BY <2>9
  <2> QED
    BY <2>2, <2>4, <2>10, <2>11, <2>12, <2>14, <2>15, HandlerStep
<1> QED
  BY <1>1, <1>2

(* handle_monitor_message reports only actors that have terminated. *)
LEMMA MonitorStep ==
  ASSUME IInv, NEW n \in Nodes, NEW a, NEW p, Handler(n, a, p), HandlerFrame,
         p.type = "monitor_message", handle_monitor_message(n, a, p.op, p.payload)
  PROVE  IInv'
<1>1. CASE p.payload # Empty
  <2>1. Fail(n, a) /\ NoReply(n)
    BY <1>1 DEF handle_monitor_message
  <2> QED
    BY <2>1, Parts, HandlerFacts, NoReplyWired, FailStep
<1>2. CASE p.payload = Empty
  <2>1. PICK aid : aid = p.op
    OBVIOUS
  <2>2. /\ app' = [app EXCEPT ![n] = a]
        /\ UNCHANGED <<tasks, proxies, registry, answers>>
    BY <1>2 DEF handle_monitor_message
  <2>3. PICK Z : Z = {}
    OBVIOUS
  <2>4. /\ Tasked(n, Z) /\ ProxiesTyped' /\ registry \subseteq registry'
        /\ registry \subseteq Actors /\ registry' \subseteq Actors
        /\ monitors \in [Actors -> Nat] /\ answers' = answers
    BY <2>2, <2>3, Parts, TaskedNone, ProxiesNone DEF ActorsTyped
  <2>5. /\ \A e \in Z : /\ e.is # "resolve" /\ GoodEvent(e)' /\ GoodPacket(Peer(n), e)'
                        /\ GoodMessage(e)'
    BY <2>3
  <2>6. life' = life /\ registry' = registry
    BY <2>2 DEF HandlerFrame
  <2>7. CASE aid \notin registry
    <3>1. PICK pl, q : pl = [is |-> "reason"] /\ q = packet("down_message", aid, pl)
      OBVIOUS
    <3>2. Reply(n, q) /\ UNCHANGED <<queue, writing, monitors>>
      BY <1>2, <2>1, <2>7, <3>1 DEF handle_monitor_message
    <3>3. pl \in Payloads
      BY <3>1, PayloadTypes
    <3>4. q \in Packets /\ q.type = "down_message" /\ q.op = aid
      <4>1. aid \in Nat \cup Actors /\ "down_message" \in message_types \cup {"other"}
        BY <2>1, HandlerFacts DEF message_types
      <4> QED
        BY <3>1, <3>3, <4>1, PacketType
    <3>5. PICK P : P = {q}
      OBVIOUS
    <3>6. Wired(Peer(n), P)
      BY <3>2, <3>4, <3>5, Parts, HandlerFacts, ReplyWired
    <3>7. Queued(n, Z) /\ monitors' \in [Actors -> Nat]
      BY <2>3, <2>4, <3>2, Parts, QueuedNone
    <3>8. ASSUME ~foreign
          PROVE  GoodPacket(Peer(n), q)'
      <4>1. aid \in Actors /\ Known(aid)
        BY <2>1, <3>8, HandlerFacts DEF GoodPacket
      <4>2. Down(aid)'
        BY <2>6, <2>7, <4>1 DEF Known, Down
      <4> QED
        BY <3>4, <4>1, <4>2 DEF GoodPacket
    <3>9. ~foreign => \A y \in P : GoodPacket(Peer(n), y)'
      BY <3>5, <3>8
    <3> QED
      BY <2>2, <2>4, <2>5, <3>6, <3>7, <3>9, HandlerStep
  <2>8. CASE aid \in registry /\ life[aid] = "alive"
    <3>1. monitors' = [monitors EXCEPT ![aid] = @ + 1] /\ NoReply(n)
          /\ UNCHANGED <<queue, writing>>
      BY <1>2, <2>1, <2>8 DEF handle_monitor_message
    <3>2. monitors' \in [Actors -> Nat]
      BY <2>4, <2>8, <3>1
    <3>3. Queued(n, Z) /\ Wired(Peer(n), Z)
      BY <2>3, <3>1, Parts, QueuedNone, HandlerFacts, NoReplyWired
    <3> QED
      BY <2>2, <2>4, <2>5, <3>2, <3>3, HandlerStep
  <2>9. CASE aid \in registry /\ life[aid] # "alive"
    <3>1. enqueue_event(n, ActorDown(aid)) /\ NoReply(n) /\ UNCHANGED monitors
      BY <1>2, <2>1, <2>9 DEF handle_monitor_message, ActorDown
    <3>2. aid \in Actors
      BY <2>4, <2>9
    <3>3. PICK E : E = {ActorDown(aid)}
      OBVIOUS
    <3>4. Queued(n, E)
      BY <3>1, <3>2, <3>3, Parts, ActorEvents, EventQueued
    <3>5. Wired(Peer(n), Z) /\ monitors' \in [Actors -> Nat]
      BY <2>3, <2>4, <3>1, Parts, HandlerFacts, NoReplyWired
    <3>6. GoodEvent(ActorDown(aid))'
      BY <2>6, <2>9, <3>2, ActorEvents DEF GoodEvent, Down
    <3>7. \A e \in E : e.is # "resolve" /\ GoodEvent(e)'
      BY <3>2, <3>3, <3>6, ActorEvents
    <3> QED
      BY <2>2, <2>4, <2>5, <3>4, <3>5, <3>7, HandlerStep
  <2> QED
    BY <2>7, <2>8, <2>9
<1> QED
  BY <1>1, <1>2

(* handle_down_message *)
LEMMA DownStep ==
  ASSUME IInv, NEW n \in Nodes, NEW a, NEW p, Handler(n, a, p), HandlerFrame,
         p.type = "down_message", handle_down_message(n, a, p.op, p.payload)
  PROVE  IInv'
<1>1. CASE p.payload.is # "reason"
  <2>1. Fail(n, a) /\ NoReply(n)
    BY <1>1 DEF handle_down_message
  <2> QED
    BY <2>1, Parts, HandlerFacts, NoReplyWired, FailStep
<1>2. CASE p.payload.is = "reason"
  <2>1. /\ app' = [app EXCEPT ![n] = a] /\ proxies' = [proxies EXCEPT ![n] = @ \ {p.op}]
        /\ NoReply(n) /\ UNCHANGED <<queue, writing, tasks, registry, monitors, answers>>
    BY <1>2 DEF handle_down_message
  <2>2. PICK Z : Z = {}
    OBVIOUS
  <2>3. /\ Queued(n, Z) /\ Wired(Peer(n), Z) /\ Tasked(n, Z)
        /\ registry \subseteq registry' /\ registry' \subseteq Actors
        /\ monitors' \in [Actors -> Nat] /\ answers' = answers
    BY <2>1, <2>2, Parts, HandlerFacts, NoReplyWired, TaskedNone, QueuedNone DEF ActorsTyped
  <2>4. ProxiesTyped'
    BY <2>1, Parts DEF ProxiesTyped
  <2>5. \A e \in Z : /\ e.is # "resolve" /\ GoodEvent(e)' /\ GoodPacket(Peer(n), e)'
                     /\ GoodMessage(e)'
    BY <2>2
  <2> QED
    BY <2>1, <2>3, <2>4, <2>5, HandlerStep
<1> QED
  BY <1>1, <1>2

(* handle_heartbeat *)
LEMMA HeartbeatStep ==
  ASSUME IInv, NEW n \in Nodes, NEW a, NEW p, Handler(n, a, p), HandlerFrame,
         handle_heartbeat(n, a)
  PROVE  IInv'
  BY Parts, HandlerFacts, NoReplyWired, HandlerEnds DEF handle_heartbeat

(* application state after an answer *)
LEMMA AnsweredFacts ==
  ASSUME NEW a \in App, NEW op \in DOMAIN a.pending_resolves, NEW b,
         b = Answered(a, op) \/ b = [Answered(a, op) EXCEPT !.reading = FALSE]
  PROVE  /\ b \in App /\ b.hdr = a.hdr /\ b.next_request_id = a.next_request_id
         /\ b.parent = a.parent
         /\ b.pending_resolves =
              [i \in DOMAIN a.pending_resolves \ {op} |-> a.pending_resolves[i]]
<1>1. PICK f : f = [i \in DOMAIN a.pending_resolves \ {op} |-> a.pending_resolves[i]]
  OBVIOUS
<1>2. PICK S \in SUBSET Nat : a.pending_resolves \in [S -> Listeners]
  BY DEF App
<1>3. f \in [S \ {op} -> Listeners] /\ S \ {op} \in SUBSET Nat
  BY <1>1, <1>2
<1>4. f \in UNION {[R -> Listeners] : R \in SUBSET Nat}
  BY <1>3
<1>5. Answered(a, op) = [a EXCEPT !.pending_resolves = f]
  BY <1>1 DEF Answered
<1>6. PICK c : c = [a EXCEPT !.pending_resolves = f]
  OBVIOUS
<1>7. /\ c \in App /\ c.hdr = a.hdr /\ c.next_request_id = a.next_request_id
      /\ c.parent = a.parent /\ c.pending_resolves = f
  BY <1>4, <1>6 DEF App
<1>8. b = c \/ b = [c EXCEPT !.reading = FALSE]
  BY <1>5, <1>6
<1>9. /\ b \in App /\ b.hdr = c.hdr /\ b.next_request_id = c.next_request_id
      /\ b.parent = c.parent /\ b.pending_resolves = c.pending_resolves
  BY <1>7, <1>8 DEF App
<1> QED
  BY <1>1, <1>7, <1>9

(* n passes the answer x to the listener l, which waits under op. *)
Responds(n, a, op, l, b, kind, x, E) ==
  /\ op \in DOMAIN pending(n) /\ l = pending(n)[op]
  /\ b = Answered(a, op) \/ b = [Answered(a, op) EXCEPT !.reading = FALSE]
  /\ app' = [app EXCEPT ![n] = b]
  /\ kind \in {"proxy", "nullptr", "sec"} /\ x \in Actors \cup {Nobody}
  /\ Answer(l, kind, x) /\ Queued(n, E) /\ \A e \in E : e.is # "resolve"
  /\ ~foreign => /\ kind = "proxy" => asked[l].by # "other" /\ x = asked[l].whom
                 /\ \A e \in E : GoodEvent(e)'
  /\ Wired(Peer(n), {}) /\ UNCHANGED <<tasks, registry, monitors>> /\ ProxiesTyped'

(* The listener that waits under the ID of a response hears of it, and     *)
(* nobody waits under this ID any more.                                    *)
LEMMA AnswerStep ==
  ASSUME IInv, NEW n \in Nodes, NEW a, NEW p, Handler(n, a, p), HandlerFrame,
         NEW op, NEW l, NEW b, NEW kind, NEW x, NEW E, Responds(n, a, op, l, b, kind, x, E)
  PROVE  IInv'
<1>0. /\ op \in DOMAIN pending(n) /\ l = pending(n)[op]
      /\ b = Answered(a, op) \/ b = [Answered(a, op) EXCEPT !.reading = FALSE]
      /\ app' = [app EXCEPT ![n] = b]
      /\ kind \in {"proxy", "nullptr", "sec"} /\ x \in Actors \cup {Nobody}
      /\ Answer(l, kind, x) /\ Queued(n, E) /\ \A e \in E : e.is # "resolve"
      /\ ~foreign => /\ kind = "proxy" => asked[l].by # "other" /\ x = asked[l].whom
                     /\ \A e \in E : GoodEvent(e)'
      /\ Wired(Peer(n), {}) /\ UNCHANGED <<tasks, registry, monitors>> /\ ProxiesTyped'
  BY DEF Responds
<1> USE <1>0
<1>1. /\ a \in App /\ a.pending_resolves = pending(n) /\ a.parent = app[n].parent
      /\ a.next_request_id = app[n].next_request_id /\ app[n].reading
      /\ a.hdr \in Incoming(n) \cup {NoPacket}
  BY DEF Handler
<1>2. /\ b \in App /\ b.hdr = a.hdr /\ b.next_request_id = a.next_request_id
      /\ b.parent = a.parent
      /\ b.pending_resolves = [i \in DOMAIN pending(n) \ {op} |-> pending(n)[i]]
  BY <1>1, AnsweredFacts
<1>3. app \in [Nodes -> App] /\ app'[n] = b /\ \A m \in Nodes : m # n => app'[m] = app[m]
  BY Parts DEF AppTyped
<1>4. SameIds
  BY <1>1, <1>2, <1>3 DEF SameIds
<1>5. \A m \in Nodes :
        /\ DOMAIN pending(m)' \subseteq DOMAIN pending(m)
        /\ \A r \in DOMAIN pending(m)' : pending(m)'[r] = pending(m)[r] /\ ~(m = n /\ r = op)
  <2>1. pending(n)' = [i \in DOMAIN pending(n) \ {op} |-> pending(n)[i]]
    BY <1>2, <1>3 DEF pending
  <2>2. \A m \in Nodes : m # n => pending(m)' = pending(m)
    BY <1>3 DEF pending
  <2> QED
    BY <2>1, <2>2
<1>6. AppTyped'
  <2>1. app' \in [Nodes -> App]
    BY <1>2, <1>3
  <2>2. \A m \in Nodes : DOMAIN pending(m)' \subseteq 1 .. (app'[m].next_request_id - 1)
    BY <1>4, <1>5, Parts DEF AppTyped, SameIds
  <2> QED
    BY <2>1, <2>2 DEF AppTyped
<1>7. \A m \in Nodes : app'[m].parent = app[m].parent /\ (app'[m].reading => app[m].reading)
  BY <1>1, <1>2, <1>3
<1>8. Stopped'
  BY <1>7, Parts, StoppedStays
<1>9. l \in Listeners /\ Awaits(n, op, l)
  BY Parts, AppFacts DEF Awaits
<1>10. /\ n = Asks[l].node /\ asked[l] \in Paths /\ answers[l] = <<>>
       /\ \A s \in DOMAIN pending(n) : Awaits(n, s, l) => s = op
  BY <1>9, Parts DEF PendingOnce
<1>11. \A m \in Nodes : \A r, y : Awaits(m, r, y)' => Awaits(m, r, y) /\ y # l
  <2> SUFFICES ASSUME NEW m \in Nodes, NEW r, NEW y, Awaits(m, r, y)'
               PROVE  Awaits(m, r, y) /\ y # l
    OBVIOUS
  <2>1. r \in DOMAIN pending(m)' /\ pending(m)'[r] = y
    BY DEF Awaits
  <2>2. Awaits(m, r, y) /\ ~(m = n /\ r = op) /\ r \in DOMAIN pending(m)
    BY <1>5, <2>1 DEF Awaits
  <2>3. y = l => m = n
    BY <1>9, <1>10, <2>2, Parts DEF PendingOnce
  <2> QED
    BY <1>10, <2>2, <2>3
<1>12. answers \in [Listeners -> Seq({"proxy", "nullptr", "sec", "error"}
                                      \X (Actors \cup {Nobody}))]
  BY Parts DEF AnswersTyped
<1>13. PICK s : s = <<<<kind, x>>>>
  OBVIOUS
<1>14. /\ s \in Seq({"proxy", "nullptr", "sec", "error"} \X (Actors \cup {Nobody}))
       /\ s = Append(<<>>, <<kind, x>>) /\ Len(s) = 1 /\ DOMAIN s = {1}
       /\ s[1][1] = kind /\ s[1][2] = x
  BY <1>13
<1>15. answers' = [answers EXCEPT ![l] = s]
  BY <1>10, <1>14 DEF Answer
<1>16. /\ AnswersTyped' /\ answers'[l] = s
       /\ \A y \in Listeners : y # l => answers'[y] = answers[y]
  BY <1>9, <1>12, <1>14, <1>15 DEF AnswersTyped
<1>17. UsersTyped' /\ asked' = asked /\ foreign' = foreign
  BY Parts, UsersNone DEF HandlerFrame
<1>18. ActorsTyped' /\ ActorsGrow
  BY Parts, ActorsNone DEF ActorsTyped, HandlerFrame
<1>19. Tasked(n, {})
  BY Parts, TaskedNone
<1>20. Typed'
  BY <1>6, <1>16, <1>17, <1>18, <1>19 DEF Typed, Queued, Wired, Tasked
<1>21. \A m \in Nodes : \A k, y : LooksUp(m, k, y)' =>
         LooksUp(m, k, y) /\ events(m)'[k] = events(m)[k] /\ k \in DOMAIN events(m)
  BY DEF LooksUp, Queued
<1>22. \A m \in Nodes : \A k : ~LooksUp(m, k, l)
  <2> SUFFICES ASSUME NEW m \in Nodes, NEW k, LooksUp(m, k, l)
               PROVE  FALSE
    OBVIOUS
  <2>1. k \in DOMAIN events(m)
    BY DEF LooksUp
  <2>2. m = n /\ ~Awaits(n, op, l)
    BY <1>9, <1>10, <2>1, Parts DEF QueuedOnce
  <2> QED
    BY <1>9, <2>2
<1>23. QueuedOnce'
  <2> SUFFICES ASSUME NEW y \in Listeners, NEW m \in Nodes, NEW k \in DOMAIN events(m)',
                      LooksUp(m, k, y)'
               PROVE  (/\ m = Asks[y].node /\ asked[y] = events(m)[k].path
                       /\ \A j \in DOMAIN events(m) : LooksUp(m, j, y) => j = k
                       /\ \A r \in DOMAIN pending(m) : ~Awaits(m, r, y)
                       /\ app[m].parent => answers[y] = <<>>)'
    BY DEF QueuedOnce
  <2>1. LooksUp(m, k, y) /\ events(m)'[k] = events(m)[k] /\ k \in DOMAIN events(m) /\ y # l
    BY <1>21, <1>22
  <2>2. /\ m = Asks[y].node /\ asked[y] = events(m)[k].path
        /\ \A j \in DOMAIN events(m) : LooksUp(m, j, y) => j = k
        /\ \A r \in DOMAIN pending(m) : ~Awaits(m, r, y)
        /\ app[m].parent => answers[y] = <<>>
    BY <2>1, Parts DEF QueuedOnce
  <2>3. \A j : LooksUp(m, j, y)' => j = k
    BY <1>21, <2>2
  <2>4. \A r : ~Awaits(m, r, y)'
    BY <1>11, <2>2 DEF Awaits
  <2> QED
    BY <1>7, <1>16, <1>17, <2>1, <2>2, <2>3, <2>4
<1>24. PendingOnce'
  <2> SUFFICES ASSUME NEW y \in Listeners, NEW m \in Nodes, NEW r \in DOMAIN pending(m)',
                      Awaits(m, r, y)'
               PROVE  (/\ m = Asks[y].node /\ asked[y] \in Paths /\ answers[y] = <<>>
                       /\ \A i \in DOMAIN pending(m) : Awaits(m, i, y) => i = r)'
    BY DEF PendingOnce
  <2>1. Awaits(m, r, y) /\ y # l /\ r \in DOMAIN pending(m)
    BY <1>11 DEF Awaits
  <2>2. /\ m = Asks[y].node /\ asked[y] \in Paths /\ answers[y] = <<>>
        /\ \A i \in DOMAIN pending(m) : Awaits(m, i, y) => i = r
    BY <2>1, Parts DEF PendingOnce
  <2>3. \A i : Awaits(m, i, y)' => i = r
    BY <1>11, <2>2 DEF Awaits
  <2> QED
    BY <1>16, <1>17, <2>1, <2>2, <2>3
<1>25. RightAnswer'
  <2> SUFFICES ASSUME NEW y \in Listeners
               PROVE  (/\ Len(answers[y]) <= 1
                       /\ \A i \in DOMAIN answers[y] :
                            /\ asked[y] # NoPath
                            /\ ~foreign /\ answers[y][i][1] = "proxy"
                                 => asked[y].by # "other" /\ answers[y][i][2] = asked[y].whom)'
    BY DEF RightAnswer
  <2>1. CASE y # l
    <3>1. answers'[y] = answers[y] /\ asked' = asked /\ foreign' = foreign
      BY <1>16, <1>17, <2>1
    <3> QED
      BY <3>1, Parts DEF RightAnswer
  <2>2. CASE y = l
    <3>1. asked'[l] # NoPath
      BY <1>10, <1>17, NoPathFacts
    <3>2. ~foreign' /\ s[1][1] = "proxy" => asked'[l].by # "other" /\ s[1][2] = asked'[l].whom
      BY <1>14, <1>17
    <3> QED
      BY <1>14, <1>16, <2>2, <3>1, <3>2
  <2> QED
    BY <2>1, <2>2
<1>26. Grows
  <2>1. ASSUME NEW m \in Nodes
        PROVE  app[m].next_request_id <= app'[m].next_request_id
    BY <1>4, Parts, AppFacts DEF SameIds
  <2> QED
    BY <1>5, <1>17, <1>18, <2>1 DEF Grows, ActorsGrow
<1>27. ASSUME ~foreign
       PROVE  NewTraffic
  <2>1. ASSUME NEW m \in Nodes, NEW q \in Incoming(m)'
        PROVE  q \in Incoming(m) \/ GoodPacket(m, q)'
    <3>1. q \in ToSet(wire[m])' \/ q = app'[m].hdr
      BY <2>1 DEF Incoming
    <3>2. CASE q \in ToSet(wire[m])'
      BY <3>2 DEF Wired, Incoming
    <3>3. CASE q = app'[m].hdr
      <4>1. q \in Incoming(m) \/ q = NoPacket
        BY <1>1, <1>2, <1>3, <3>3 DEF Incoming
      <4>2. q = NoPacket => GoodPacket(m, q)'
        BY NoPacketType DEF GoodPacket
      <4> QED
        BY <4>1, <4>2
    <3> QED
      BY <3>1, <3>2, <3>3
  <2>2. ASSUME NEW m \in Nodes, NEW t \in ToSet(tasks[m])'
        PROVE  t \in ToSet(tasks[m])
    OBVIOUS
  <2>3. ASSUME NEW m \in Nodes, NEW e \in ToSet(events(m))'
        PROVE  e \in ToSet(events(m)) \/ GoodEvent(e)'
    <3>1. PICK k \in DOMAIN events(m)' : e = events(m)'[k]
      BY <2>3 DEF ToSet
    <3>2. CASE k \in DOMAIN events(m) /\ e = events(m)[k]
      BY <3>2 DEF ToSet
    <3> QED
      BY <1>27, <3>1, <3>2 DEF Queued
  <2> QED
    BY <2>1, <2>2, <2>3 DEF NewTraffic
<1>28. GoodTraffic'
  BY <1>6, <1>17, <1>26, <1>27, Parts, TrafficStep
<1> QED
  BY <1>8, <1>20, <1>23, <1>24, <1>25, <1>28 DEF IInv

(* handle_resolve_response: the listener of the ID hears, and only this one. *)
LEMMA ResponseStep ==
  ASSUME IInv, NEW n \in Nodes, NEW a, NEW p, Handler(n, a, p), HandlerFrame,
         p.type = "resolve_response", handle_resolve_response(n, a, p.op, p.payload)
  PROVE  IInv'
<1>1. a.pending_resolves = pending(n)
  BY DEF Handler
<1>2. NoReply(n) /\ UNCHANGED <<tasks, registry, monitors>>
  BY DEF handle_resolve_response
<1>3. Wired(Peer(n), {})
  BY <1>2, Parts, HandlerFacts, NoReplyWired
<1>4. CASE p.op \notin DOMAIN pending(n)
  <2>1. app' = [app EXCEPT ![n] = a] /\ UNCHANGED <<queue, writing, proxies, answers>>
    BY <1>1, <1>4 DEF handle_resolve_response
  <2> QED
    BY <1>2, <1>3, <2>1, HandlerEnds
<1>5. CASE p.op \in DOMAIN pending(n)
  <2>1. PICK op, l : op = p.op /\ l = pending(n)[op] /\ op \in DOMAIN pending(n)
    BY <1>5
  <2>2. PICK pl \in Payloads : pl = p.payload
    BY HandlerFacts
  <2>3. PICK Z : Z = {}
    OBVIOUS
  <2>4. \A e \in Z : e.is # "resolve" /\ GoodEvent(e)'
    BY <2>3
  <2>5. CASE pl.is # "aid"
    <3>1. PICK b : b = [Answered(a, op) EXCEPT !.reading = FALSE]
      OBVIOUS
    <3>2. /\ Answer(l, "sec", Nobody) /\ app' = [app EXCEPT ![n] = b]
          /\ UNCHANGED <<queue, writing, proxies>>
      BY <1>1, <1>5, <2>1, <2>2, <2>5, <3>1 DEF handle_resolve_response
    <3>3. Queued(n, Z) /\ ProxiesTyped'
      BY <2>3, <3>2, Parts, QueuedNone, ProxiesNone
    <3>4. Responds(n, a, op, l, b, "sec", Nobody, Z)
      BY <1>2, <1>3, <2>1, <2>4, <3>1, <3>2, <3>3 DEF Responds
    <3> QED
      BY <3>4, AnswerStep
  <2>6. CASE pl.is = "aid" /\ pl.aid = Nobody
    <3>1. PICK b : b = Answered(a, op)
      OBVIOUS
    <3>2. /\ Answer(l, "nullptr", Nobody) /\ app' = [app EXCEPT ![n] = b]
          /\ UNCHANGED <<queue, writing, proxies>>
      BY <1>1, <1>5, <2>1, <2>2, <2>6, <3>1 DEF handle_resolve_response
    <3>3. Queued(n, Z) /\ ProxiesTyped'
      BY <2>3, <3>2, Parts, QueuedNone, ProxiesNone
    <3>4. Responds(n, a, op, l, b, "nullptr", Nobody, Z)
      BY <1>2, <1>3, <2>1, <2>4, <3>1, <3>2, <3>3 DEF Responds
    <3> QED
      BY <3>4, AnswerStep
  <2>7. CASE pl.is = "aid" /\ pl.aid # Nobody
    <3>1. PICK b : b = Answered(a, op)
      OBVIOUS
    <3>2. PICK x : x = pl.aid
      OBVIOUS
    <3>3. x \in Actors
      BY <2>7, <3>2, PayloadFacts
    <3>4. /\ Answer(l, "proxy", x) /\ app' = [app EXCEPT ![n] = b] /\ get_or_put(n, x)
      BY <1>1, <1>5, <2>1, <2>2, <2>7, <3>1, <3>2 DEF handle_resolve_response
    <3>5. PICK E : E = {NewProxy(x)}
      OBVIOUS
    <3>6. Queued(n, E) /\ ProxiesTyped'
      BY <3>3, <3>4, <3>5, Parts, GetOrPut
    <3>7. ASSUME ~foreign
          PROVE  /\ asked[l].by # "other" /\ x = asked[l].whom
                 /\ \A e \in E : GoodEvent(e)'
      <4>1. GoodResponse(n, p)
        BY <3>7, HandlerFacts DEF GoodPacket
      <4>2. Known(x) /\ asked[l].by # "other" /\ x = asked[l].whom
        BY <1>5, <2>1, <2>2, <2>7, <3>2, <4>1 DEF GoodResponse
      <4>3. Known(x)'
        BY <1>2, <4>2 DEF Known, HandlerFrame
      <4>4. GoodEvent(NewProxy(x))'
        BY <3>3, <4>3, ActorEvents DEF GoodEvent
      <4> QED
        BY <3>5, <4>2, <4>4
    <3>8. \A e \in E : e.is # "resolve"
      BY <3>3, <3>5, ActorEvents
    <3>9. Responds(n, a, op, l, b, "proxy", x, E)
      BY <1>2, <1>3, <2>1, <3>1, <3>3, <3>4, <3>6, <3>7, <3>8 DEF Responds
    <3> QED
      BY <3>9, AnswerStep
  <2> QED
    BY <2>5, <2>6, <2>7
<1> QED
  BY <1>4, <1>5

(* application::handle *)
LEMMA HandleStep ==
  ASSUME IInv, NEW n \in Nodes, NEW a, NEW p, Handler(n, a, p), HandlerFrame, Handle(n, a, p)
  PROVE  IInv'
<1>1. CASE p.type = "actor_message"
  <2>1. handle_actor_message(n, a, p.payload)
    BY <1>1 DEF Handle
  <2> QED
    BY <1>1, <2>1, ActorMessageStep
<1>2. CASE p.type = "resolve_request"
  <2>1. handle_resolve_request(n, a, p.op, p.payload)
    BY <1>2 DEF Handle
  <2> QED
    BY <1>2, <2>1, RequestStep
<1>3. CASE p.type = "resolve_response"
  <2>1. handle_resolve_response(n, a, p.op, p.payload)
    BY <1>3 DEF Handle
  <2> QED
    BY <1>3, <2>1, ResponseStep
<1>4. CASE p.type = "monitor_message"
  <2>1. handle_monitor_message(n, a, p.op, p.payload)
    BY <1>4 DEF Handle
  <2> QED
    BY <1>4, <2>1, MonitorStep
<1>5. CASE p.type = "down_message"
  <2>1. handle_down_message(n, a, p.op, p.payload)
    BY <1>5 DEF Handle
  <2> QED
    BY <1>5, <2>1, DownStep
<1>6. CASE p.type = "heartbeat"
  <2>1. handle_heartbeat(n, a)
    BY <1>6 DEF Handle
  <2> QED
    BY <2>1, HeartbeatStep
<1>7. CASE p.type \notin {"actor_message", "resolve_request", "resolve_response",
                          "monitor_message", "down_message", "heartbeat"}
  <2>1. Fail(n, a) /\ NoReply(n)
    BY <1>7 DEF Handle
  <2> QED
    BY <2>1, Parts, HandlerFacts, NoReplyWired, FailStep
<1> QED
  BY <1>1, <1>2, <1>3, <1>4, <1>5, <1>6, <1>7

(* The next packet on the wire. *)
LEMMA NextPacket ==
  ASSUME IInv, NEW n \in Nodes, HasHeader(n)
  PROVE  /\ Head(wire[n]) \in Incoming(n) /\ Head(wire[n]) \in Packets
         /\ wire[n] # <<>> /\ app[n].reading /\ app[n] \in App
<1>1. wire[n] \in Seq(Packets) /\ wire[n] # <<>>
  BY Parts DEF WireTyped, HasHeader
<1>2. Head(wire[n]) \in ToSet(wire[n]) /\ Head(wire[n]) \in Packets
  BY <1>1 DEF ToSet
<1>3. app[n] \in App
  BY Parts, AppFacts
<1> QED
  BY <1>1, <1>2, <1>3 DEF Incoming, HasHeader

(* A header without payload leaves the state of the application. *)
LEMMA Itself ==
  ASSUME IInv, NEW n \in Nodes, NEW a, a = app[n], NEW p \in Incoming(n), app[n].reading,
         app[n].state \in HeaderStates => wire[n] # <<>>
  PROVE  Handler(n, a, p)
<1>1. app[n] \in App
  BY Parts, AppFacts
<1> QED
  BY <1>1 DEF Handler, pending, Incoming

(* handle_handshake, first the header and then the payload. *)
LEMMA HandshakeHeaderStep ==
  ASSUME IInv, NEW n \in Nodes, HandshakeHeader(n)
  PROVE  IInv'
<1>1. PICK p, a : p = Head(wire[n]) /\ a = app[n]
  OBVIOUS
<1>2. /\ p \in Incoming(n) /\ p \in Packets /\ wire[n] # <<>> /\ app[n].reading /\ a \in App
  BY <1>1, NextPacket DEF HandshakeHeader
<1>3. HandlerFrame /\ NoReply(n)
  BY DEF HandshakeHeader, HandlerFrame
<1>4. Wired(Peer(n), {})
  BY <1>2, <1>3, Parts, NoReplyWired
<1>5. CASE p.type = "handshake" /\ p.op = version /\ p.payload # Empty
  <2>1. PICK b : b = [a EXCEPT !.state = "await_handshake_payload", !.hdr = p]
    OBVIOUS
  <2>2. app' = [app EXCEPT ![n] = b]
        /\ UNCHANGED <<queue, writing, tasks, proxies, registry, monitors, answers>>
    BY <1>1, <1>5, <2>1 DEF HandshakeHeader
  <2>3. Handler(n, b, p)
    BY <1>1, <1>2, <2>1 DEF Handler, App, States, pending
  <2> QED
    BY <1>3, <1>4, <2>2, <2>3, HandlerEnds
<1>6. CASE ~(p.type = "handshake" /\ p.op = version /\ p.payload # Empty)
  <2>1. Fail(n, a)
    BY <1>1, <1>6 DEF HandshakeHeader
  <2>2. Handler(n, a, p)
    BY <1>1, <1>2, Itself
  <2> QED
    BY <1>3, <1>4, <2>1, <2>2, FailStep
<1> QED
  BY <1>5, <1>6

LEMMA HandshakePayloadStep ==
  ASSUME IInv, NEW n \in Nodes, HandshakePayload(n)
  PROVE  IInv'
<1>1. PICK p, a : p = app[n].hdr /\ a = app[n]
  OBVIOUS
<1>2. /\ p \in Incoming(n) /\ p \in Packets /\ app[n].reading /\ a \in App
      /\ app[n].state \notin HeaderStates
  BY <1>1, Parts, AppFacts DEF Incoming, HandshakePayload, HeaderStates
<1>3. HandlerFrame /\ wire' = wire
  BY DEF HandshakePayload, HandlerFrame
<1>4. Wired(Peer(n), {})
  BY <1>3, Parts, WiredNone
<1>5. CASE ValidHandshake(n, p.payload)
  <2>1. PICK id : id = p.payload.node
    OBVIOUS
  <2>2. id \in Nodes \cup {Nobody}
    BY <1>2, <1>5, <2>1, PacketFacts, PayloadFacts DEF ValidHandshake
  <2>3. PICK b : b = [a EXCEPT !.state = "await_header", !.peer_id = id]
    OBVIOUS
  <2>4. app' = [app EXCEPT ![n] = b]
        /\ UNCHANGED <<queue, writing, tasks, proxies, registry, monitors, answers>>
    BY <1>1, <1>5, <2>1, <2>3 DEF HandshakePayload
  <2>5. Handler(n, b, p)
    BY <1>1, <1>2, <2>2, <2>3 DEF Handler, App, States, pending
  <2> QED
    BY <1>3, <1>4, <2>4, <2>5, HandlerEnds
<1>6. CASE ~ValidHandshake(n, p.payload)
  <2>1. Fail(n, a)
    BY <1>1, <1>6 DEF HandshakePayload
  <2>2. Handler(n, a, p)
    BY <1>1, <1>2, Itself
  <2> QED
    BY <1>3, <1>4, <2>1, <2>2, FailStep
<1> QED
  BY <1>5, <1>6

(* A header, with or without payload to wait for. *)
LEMMA HeaderStep ==
  ASSUME IInv, NEW n \in Nodes, Header(n)
  PROVE  IInv'
<1>1. PICK p, a : p = Head(wire[n]) /\ a = app[n]
  OBVIOUS
<1>2. /\ p \in Incoming(n) /\ p \in Packets /\ wire[n] # <<>> /\ app[n].reading /\ a \in App
  BY <1>1, NextPacket DEF Header
<1>3. HandlerFrame
  BY DEF Header, HandlerFrame
<1>4. CASE p.payload = Empty
  <2>1. Handle(n, a, p)
    BY <1>1, <1>4 DEF Header
  <2>2. Handler(n, a, p)
    BY <1>1, <1>2, Itself
  <2> QED
    BY <1>3, <2>1, <2>2, HandleStep
<1>5. CASE p.payload # Empty
  <2>1. PICK b : b = [a EXCEPT !.state = "await_payload", !.hdr = p]
    OBVIOUS
  <2>2. app' = [app EXCEPT ![n] = b] /\ NoReply(n)
        /\ UNCHANGED <<queue, writing, tasks, proxies, registry, monitors, answers>>
    BY <1>1, <1>5, <2>1 DEF Header
  <2>3. Handler(n, b, p)
    BY <1>1, <1>2, <2>1 DEF Handler, App, States, pending
  <2>4. Wired(Peer(n), {})
    BY <1>2, <2>2, Parts, NoReplyWired
  <2> QED
    BY <1>3, <2>2, <2>3, <2>4, HandlerEnds
<1> QED
  BY <1>4, <1>5

(* A payload, for the header that hdr_ holds. *)
LEMMA PayloadStep ==
  ASSUME IInv, NEW n \in Nodes, Payload(n)
  PROVE  IInv'
<1>1. PICK p, a : p = app[n].hdr /\ a = [app[n] EXCEPT !.state = "await_header", !.hdr = NoPacket]
  OBVIOUS
<1>2. app[n] \in App /\ p \in Incoming(n) /\ app[n].state \notin HeaderStates /\ app[n].reading
  BY <1>1, Parts, AppFacts DEF Incoming, Payload, HeaderStates
<1>3. Handler(n, a, p)
  BY <1>1, <1>2, NoPacketType DEF Handler, App, States, pending
<1>4. HandlerFrame /\ Handle(n, a, p)
  BY <1>1 DEF Payload, HandlerFrame
<1> QED
  BY <1>3, <1>4, HandleStep

(* The elements of a concatenation. *)
LEMMA ConcatFacts ==
  ASSUME NEW S, NEW u \in Seq(S), NEW v \in Seq(S)
  PROVE  /\ u \o v \in Seq(S)
         /\ \A x \in ToSet(u \o v) : x \in ToSet(u) \/ x \in ToSet(v)
<1>1. u \o v \in Seq(S)
  OBVIOUS
<1>2. ASSUME NEW k \in DOMAIN (u \o v)
      PROVE  (\E i \in DOMAIN u : (u \o v)[k] = u[i]) \/ (\E i \in DOMAIN v : (u \o v)[k] = v[i])
  <2>1. k \in 1 .. (Len(u) + Len(v)) /\ Len(u) \in Nat /\ Len(v) \in Nat
    OBVIOUS
  <2>2. CASE k <= Len(u)
    <3>1. (u \o v)[k] = u[k] /\ k \in DOMAIN u
      BY <2>1, <2>2
    <3> QED
      BY <3>1
  <2>3. CASE k > Len(u)
    <3>1. PICK h \in Nat : h = k - Len(u)
      BY <2>1, <2>3
    <3>2. (u \o v)[k] = v[h] /\ h \in DOMAIN v
      BY <2>1, <2>3, <3>1
    <3> QED
      BY <3>2
  <2> QED
    BY <2>1, <2>2, <2>3
<1> QED
  BY <1>1, <1>2 DEF ToSet

(* A worker takes a message from anywhere in its queue. *)
LEMMA RemoveAtFacts ==
  ASSUME NEW S, NEW s \in Seq(S), NEW i \in DOMAIN s
  PROVE  RemoveAt(s, i) \in Seq(S) /\ \A x \in ToSet(RemoveAt(s, i)) : x \in ToSet(s)
<1> DEFINE u == SubSeq(s, 1, i - 1)
           v == SubSeq(s, i + 1, Len(s))
<1>1. i \in 1 .. Len(s) /\ Len(s) \in Nat
  OBVIOUS
<1>2. u \in Seq(S) /\ \A k \in DOMAIN u : k \in DOMAIN s /\ u[k] = s[k]
  BY <1>1
<1>3. v \in Seq(S) /\ \A k \in DOMAIN v : k + i \in DOMAIN s /\ v[k] = s[k + i]
  BY <1>1
<1>4. RemoveAt(s, i) = u \o v
  BY DEF RemoveAt
<1> HIDE DEF u, v
<1>5. u \o v \in Seq(S) /\ \A x \in ToSet(u \o v) : x \in ToSet(u) \/ x \in ToSet(v)
  BY <1>2, <1>3, ConcatFacts
<1>6. \A x : x \in ToSet(u) \/ x \in ToSet(v) => x \in ToSet(s)
  BY <1>2, <1>3 DEF ToSet
<1> QED
  BY <1>4, <1>5, <1>6

(* remote_message_handler makes a proxy for a sender that its node knows. *)
LEMMA RunTaskStep ==
  ASSUME IInv, NEW n \in Nodes, NEW i \in DOMAIN tasks[n], RunTask(n, i)
  PROVE  IInv'
<1>1. PICK m : m = tasks[n][i]
  OBVIOUS
<1>2. m \in ToSet(tasks[n]) /\ m \in Payloads
  BY <1>1, Parts, TrafficTypes DEF ToSet
<1>3. PICK Z : Z = {}
  OBVIOUS
<1>4. Tasked(n, Z)
  <2>1. tasks \in [Nodes -> Seq(Payloads)] /\ tasks[n] \in Seq(Payloads)
    BY Parts DEF TasksTyped
  <2>2. PICK w : w = RemoveAt(tasks[n], i)
    OBVIOUS
  <2>3. w \in Seq(Payloads) /\ \A x \in ToSet(w) : x \in ToSet(tasks[n])
    BY <2>1, <2>2, RemoveAtFacts
  <2>4. tasks' = [tasks EXCEPT ![n] = w]
    BY <2>2 DEF RunTask
  <2>5. /\ tasks' \in [Nodes -> Seq(Payloads)] /\ tasks'[n] = w
         /\ \A c \in Nodes : c # n => tasks'[c] = tasks[c]
    BY <2>1, <2>3, <2>4
  <2> QED
    BY <1>3, <2>3, <2>5 DEF Tasked, TasksTyped
<1>5. Wired(n, Z)
  BY <1>3, Parts, WiredNone DEF RunTask
<1>6. AppKept /\ \A c \in Nodes : /\ app'[c].parent = app[c].parent
                                  /\ app'[c].reading = app[c].reading
  BY Parts, AppNone DEF RunTask
<1>7. ActorsTyped' /\ ActorsGrow
  BY Parts, ActorsSame DEF RunTask
<1>8. UsersTyped' /\ asked' = asked /\ answers' = answers /\ foreign' = foreign
  BY Parts, UsersNone DEF RunTask
<1>9. \A e \in Z : /\ e.is # "resolve" /\ GoodEvent(e)' /\ GoodMessage(e)'
                   /\ GoodPacket(n, e)'
  BY <1>3
<1>10. CASE m.is = "message" /\ m.dst \in registry /\ m.src # Nobody
  <2>1. PICK x \in Actors : x = m.src
    BY <1>2, <1>10, PayloadFacts
  <2>2. get_or_put(n, x)
    BY <1>1, <1>10, <2>1 DEF RunTask
  <2>3. PICK E : E = {NewProxy(x)}
    OBVIOUS
  <2>4. Queued(n, E) /\ ProxiesTyped'
    BY <2>1, <2>2, <2>3, Parts, GetOrPut
  <2>5. Stopped'
    BY <1>6, <2>4, Parts, StoppedStays
  <2>6. OthersTyped
    BY <1>7, <1>8, <2>4, Parts, AnswersNone DEF OthersTyped
  <2>7. ASSUME ~foreign
        PROVE  GoodEvent(NewProxy(x))'
    <3>1. Known(x)
      BY <1>2, <1>10, <2>1, <2>7, Parts DEF GoodTraffic, GoodMessage
    <3>2. Known(x)'
      BY <3>1 DEF Known, RunTask, actorVars
    <3> QED
      BY <3>2, ActorEvents DEF GoodEvent
  <2>8. /\ \A e \in E : e.is # "resolve"
        /\ ~foreign => \A e \in E : GoodEvent(e)'
    BY <2>1, <2>3, <2>7, ActorEvents
  <2> QED
    BY <1>4, <1>5, <1>6, <1>7, <1>8, <1>9, <2>4, <2>5, <2>6, <2>8, QuietStep
<1>11. CASE ~(m.is = "message" /\ m.dst \in registry /\ m.src # Nobody)
  <2>1. UNCHANGED <<queue, writing>> /\ UNCHANGED proxies
    BY <1>1, <1>11 DEF RunTask
  <2>2. Queued(n, Z) /\ ProxiesTyped'
    BY <1>3, <2>1, Parts, QueuedNone, ProxiesNone
  <2>3. Stopped'
    BY <1>6, <2>2, Parts, StoppedStays
  <2>4. OthersTyped
    BY <1>7, <1>8, <2>2, Parts, AnswersNone DEF OthersTyped
  <2> QED
    BY <1>4, <1>5, <1>6, <1>7, <1>8, <1>9, <2>2, <2>3, <2>4, QuietStep
<1> QED
  BY <1>10, <1>11

-----------------------------------------------------------------------------
(* Write events *)

(* A queue that was emptied. *)
LEMMA NewQueueFacts ==
  ASSUME NEW E, NEW M
  PROVE  NewQueue \in Queue(E, M) /\ NewQueue.events = <<>>
<1>1. EmptyQueue.events = <<>> /\ EmptyQueue.messages = <<>> /\ EmptyQueue.blocked = FALSE
      /\ IsEmpty(EmptyQueue)
  BY DEF EmptyQueue, IsEmpty
<1>2. NewQueue = [EmptyQueue EXCEPT !.blocked = TRUE]
  BY <1>1 DEF NewQueue, try_block
<1>3. NewQueue = [events |-> <<>>, messages |-> <<>>, blocked |-> TRUE]
  BY <1>2 DEF EmptyQueue
<1> QED
  BY <1>3 DEF Queue

(* The packets that a write event sends: one for each event, ... *)
LEMMA EventPacket ==
  ASSUME NEW a \in App, NEW es \in Seq(Events), NEW i \in DOMAIN es
  PROVE  LET p == HandleEvent(a, es, i)
         IN  /\ p \in Packets
             /\ es[i].is = "resolve" =>
                  /\ p.type = "resolve_request" /\ p.op = request_id(a, es, i)
                  /\ p.payload = [is |-> "path", path |-> es[i].path]
             /\ es[i].is = "new_proxy" => p.type = "monitor_message" /\ p.op = es[i].id
             /\ es[i].is = "local_actor_down" => p.type = "down_message" /\ p.op = es[i].id
<1>1. PICK p : p = HandleEvent(a, es, i)
  OBVIOUS
<1>2. PICK e \in Events : e = es[i]
  OBVIOUS
<1>3. CASE e.is = "resolve"
  <2>1. i \in Lookups(es)
    BY <1>2, <1>3 DEF Lookups
  <2>2. PICK r \in Nat : r = request_id(a, es, i)
    BY <2>1, RequestIds
  <2>3. PICK pl \in Payloads : pl = [is |-> "path", path |-> e.path]
    BY <1>3, EventFacts, PayloadTypes
  <2>4. p = packet("resolve_request", r, pl)
    BY <1>1, <1>2, <1>3, <2>2, <2>3 DEF HandleEvent, resolve_request
  <2>5. p \in Packets /\ p.type = "resolve_request" /\ p.op = r /\ p.payload = pl
    BY <2>4, PacketType DEF message_types
  <2> QED
    BY <1>1, <1>2, <1>3, <2>2, <2>3, <2>5
<1>4. CASE e.is = "new_proxy"
  <2>1. PICK x \in Actors : x = e.id
    BY <1>4, EventFacts
  <2>2. PICK t \in message_types : t = "monitor_message"
    BY DEF message_types
  <2>3. PICK pl \in Payloads : pl = Empty
    BY PayloadTypes
  <2>4. p = packet(t, x, pl)
    BY <1>1, <1>2, <1>4, <2>1, <2>2, <2>3 DEF HandleEvent, new_proxy
  <2>5. x \in Nat \cup Actors /\ t \in message_types \cup {"other"}
    OBVIOUS
  <2>6. p \in Packets /\ p.type = t /\ p.op = x
    BY <2>4, <2>5, PacketType
  <2> QED
    BY <1>1, <1>2, <1>4, <2>1, <2>2, <2>6
<1>5. CASE e.is = "local_actor_down"
  <2>1. PICK x \in Actors : x = e.id
    BY <1>5, EventFacts
  <2>2. PICK pl \in Payloads : pl = [is |-> "reason"]
    BY PayloadTypes
  <2>3. PICK t \in message_types : t = "down_message"
    BY DEF message_types
  <2>4. p = packet(t, x, pl)
    BY <1>1, <1>2, <1>5, <2>1, <2>2, <2>3 DEF HandleEvent, local_actor_down
  <2>5. x \in Nat \cup Actors /\ t \in message_types \cup {"other"}
    OBVIOUS
  <2>6. p \in Packets /\ p.type = t /\ p.op = x
    BY <2>4, <2>5, PacketType
  <2> QED
    BY <1>1, <1>2, <1>5, <2>1, <2>3, <2>6
<1> QED
  BY <1>2, <1>3, <1>4, <1>5, EventFacts

(* ... and one for each message. *)
LEMMA MessagePacket ==
  ASSUME NEW m \in Messages
  PROVE  /\ write_message(m) \in Packets /\ write_message(m).type = "actor_message"
         /\ write_message(m).payload = m /\ m.is = "message"
         /\ m.src \in Actors \cup {Nobody}
<1>1. m \in Payloads
  BY PayloadTypes
<1>2. write_message(m) = packet("actor_message", 0, m)
  BY DEF write_message
<1> QED
  BY <1>1, <1>2, PacketType DEF message_types, Messages

(* A function on an interval is a sequence. *)
LEMMA SeqFacts ==
  ASSUME NEW S, NEW n \in Nat, NEW f \in [1 .. n -> S]
  PROVE  f \in Seq(S)
  OBVIOUS

Written(a, es, ms) ==
  [i \in DOMAIN es |-> HandleEvent(a, es, i)] \o [i \in DOMAIN ms |-> write_message(ms[i])]

(* What a write event sends, all together. *)
LEMMA OutFacts ==
  ASSUME NEW a \in App, NEW es \in Seq(Events), NEW ms \in Seq(Messages), NEW out,
         out = Written(a, es, ms)
  PROVE  /\ out \in Seq(Packets)
         /\ \A p \in ToSet(out) : \/ \E i \in DOMAIN es : p = HandleEvent(a, es, i)
                                  \/ \E i \in DOMAIN ms : p = write_message(ms[i])
<1>1. PICK u : u = [i \in DOMAIN es |-> HandleEvent(a, es, i)]
  OBVIOUS
<1>2. PICK v : v = [i \in DOMAIN ms |-> write_message(ms[i])]
  OBVIOUS
<1>3. \A i \in DOMAIN es : HandleEvent(a, es, i) \in Packets
  BY EventPacket
<1>4. \A i \in DOMAIN ms : write_message(ms[i]) \in Packets
  <2> TAKE i \in DOMAIN ms
  <2>1. ms[i] \in Messages
    OBVIOUS
  <2> QED
    BY <2>1, MessagePacket
<1>5. u \in Seq(Packets)
  <2>1. u \in [1 .. Len(es) -> Packets] /\ Len(es) \in Nat
    BY <1>1, <1>3
  <2> QED
    BY <2>1, SeqFacts
<1>6. v \in Seq(Packets)
  <2>1. v \in [1 .. Len(ms) -> Packets] /\ Len(ms) \in Nat
    BY <1>2, <1>4
  <2> QED
    BY <2>1, SeqFacts
<1>7. out = u \o v
  BY <1>1, <1>2 DEF Written
<1>8. out \in Seq(Packets) /\ \A p \in ToSet(out) : p \in ToSet(u) \/ p \in ToSet(v)
  BY <1>5, <1>6, <1>7, ConcatFacts
<1>9. \A p \in ToSet(u) : \E i \in DOMAIN es : p = HandleEvent(a, es, i)
  BY <1>1 DEF ToSet
<1>10. \A p \in ToSet(v) : \E i \in DOMAIN ms : p = write_message(ms[i])
  BY <1>2 DEF ToSet
<1> QED
  BY <1>8, <1>9, <1>10

(* handle_write_event: every lookup of the queue gets an ID of its own and *)
(* goes to the peer with it.                                               *)
LEMMA WriteEventStep ==
  ASSUME IInv, NEW n \in Nodes, WriteEvent(n)
  PROVE  IInv'
<1>1. PICK q, es, ms : q = queue[n] /\ es = q.events /\ ms = q.messages
  OBVIOUS
<1>2. q \in Queue(Events, Messages) /\ es \in Seq(Events) /\ ms \in Seq(Messages) /\ es = events(n)
  BY <1>1, Parts DEF QueueTyped, Queue, events
<1>3. PICK a : a = app[n]
  OBVIOUS
<1>4. /\ a \in App /\ a.pending_resolves = pending(n)
      /\ DOMAIN a.pending_resolves \subseteq 1 .. (a.next_request_id - 1)
  BY <1>3, Parts DEF AppTyped, pending
<1>5. PICK f, x, y : f = Pending(a, es) /\ x = a.next_request_id /\ y = Cardinality(Lookups(es))
  OBVIOUS
<1>6. x \in Nat \ {0} /\ y \in Nat
  BY <1>2, <1>4, <1>5, RequestIds DEF App
<1>7. /\ f \in UNION {[S -> Listeners] : S \in SUBSET Nat} /\ DOMAIN f \subseteq 1 .. (x + y - 1)
      /\ \A r \in DOMAIN pending(n) : r \in DOMAIN f /\ f[r] = pending(n)[r]
      /\ \A i \in Lookups(es) : /\ request_id(a, es, i) \in DOMAIN f
                                /\ f[request_id(a, es, i)] = es[i].listener
      /\ \A r \in DOMAIN f : \/ r \in DOMAIN pending(n)
                             \/ \E i \in Lookups(es) : r = request_id(a, es, i)
  BY <1>2, <1>4, <1>5, PendingFacts
<1>8. \A i \in Lookups(es) :
        request_id(a, es, i) \in Nat /\ x <= request_id(a, es, i) /\ request_id(a, es, i) < x + y
  BY <1>2, <1>4, <1>5, RequestIds
<1>9. PICK b : b = resolve(a, es)
  OBVIOUS
<1>10. /\ b \in App /\ b.pending_resolves = f /\ b.next_request_id = x + y
       /\ b.hdr = a.hdr /\ b.parent = a.parent /\ b.reading = a.reading
  <2>1. b = [a EXCEPT !.pending_resolves = f, !.next_request_id = x + y]
    BY <1>5, <1>9 DEF resolve
  <2>2. x + y \in Nat \ {0}
    BY <1>6
  <2> QED
    BY <1>4, <1>7, <2>1, <2>2 DEF App
<1>11. app \in [Nodes -> App] /\ app' = [app EXCEPT ![n] = b]
  BY <1>1, <1>3, <1>9, Parts DEF WriteEvent, AppTyped
<1>12. app' \in [Nodes -> App] /\ app'[n] = b /\ \A m \in Nodes : m # n => app'[m] = app[m]
  BY <1>10, <1>11
<1>13. /\ pending(n)' = f /\ \A m \in Nodes : m # n => pending(m)' = pending(m)
       /\ \A m \in Nodes : app'[m].parent = app[m].parent /\ app'[m].reading = app[m].reading
       /\ \A m \in Nodes : app'[m].hdr = app[m].hdr
  BY <1>3, <1>10, <1>12 DEF pending
<1>14. AppTyped'
  <2>1. ASSUME NEW m \in Nodes
        PROVE  DOMAIN app'[m].pending_resolves \subseteq 1 .. (app'[m].next_request_id - 1)
    <3>1. CASE m = n
      <4>1. DOMAIN f \subseteq 1 .. (x + y - 1)
        BY <1>7
      <4>2. DOMAIN b.pending_resolves \subseteq 1 .. (b.next_request_id - 1)
        BY <1>6, <1>10, <4>1
      <4>3. app'[m] = b
        BY <1>12, <3>1
      <4> QED
        BY <4>2, <4>3
    <3>2. CASE m # n
      BY <1>12, <3>2, Parts DEF AppTyped, pending
    <3> QED
      BY <3>1, <3>2
  <2> QED
    BY <1>12, <2>1 DEF AppTyped, pending
<1>15. writing[n] /\ writing' = [writing EXCEPT ![n] = FALSE]
       /\ queue' = [queue EXCEPT ![n] = NewQueue]
  BY DEF WriteEvent
<1>16. app[n].parent
  BY <1>15, Parts DEF Stopped
<1>17. writing' \in [Nodes -> BOOLEAN] /\ \A m \in Nodes : writing'[m] => writing[m]
  BY <1>15, Parts, Zenon DEF QueueTyped
<1>18. QueueTyped' /\ events(n)' = <<>> /\ \A m \in Nodes : m # n => events(m)' = events(m)
  <2>1. PICK z : z = NewQueue
    OBVIOUS
  <2>2. z \in Queue(Events, Messages) /\ z.events = <<>>
    BY <2>1, NewQueueFacts
  <2>3. queue \in [Nodes -> Queue(Events, Messages)] /\ queue' = [queue EXCEPT ![n] = z]
    BY <1>15, <2>1, Parts DEF QueueTyped
  <2>4. queue' \in [Nodes -> Queue(Events, Messages)] /\ queue'[n] = z
        /\ \A m \in Nodes : m # n => queue'[m] = queue[m]
    BY <2>2, <2>3
  <2> QED
    BY <1>17, <2>2, <2>4 DEF QueueTyped, events
<1>19. Stopped'
  BY <1>13, <1>17, Parts DEF Stopped
<1>20. /\ UNCHANGED <<userVars, intruded>> /\ UNCHANGED tasks /\ UNCHANGED proxies
       /\ UNCHANGED answers /\ life' = life /\ named' = named /\ monitors' = monitors
  BY DEF WriteEvent
<1>21. UsersTyped' /\ asked' = asked /\ foreign' = foreign
  BY <1>20, Parts, UsersNone
<1>22. registry' = registry \cup {u \in Senders(ms) : life[u] = "alive"} /\ Senders(ms) \subseteq Actors
  <2>1. registry' = registry \cup {u \in Senders(ms) : life[u] = "alive"}
    BY <1>1 DEF WriteEvent, put
  <2>2. \A i \in DOMAIN ms : ms[i].src \in Actors \cup {Nobody}
    <3> TAKE i \in DOMAIN ms
    <3>1. ms[i] \in Messages
      BY <1>2
    <3> QED
      BY <3>1, MessagePacket
  <2> QED
    BY <2>1, <2>2 DEF Senders
<1>23. ActorsTyped' /\ ActorsGrow /\ \A u \in Senders(ms) : Known(u)'
  <2>1. ActorsTyped' /\ registry \subseteq registry'
    BY <1>20, <1>22, Parts DEF ActorsTyped
  <2>2. \A u \in Senders(ms) : Known(u)'
    BY <1>20, <1>22 DEF Known
  <2> QED
    BY <1>20, <2>1, <2>2, ActorsNone
<1>24. PICK c \in Nodes : c = Peer(n)
  BY PeerFacts
<1>25. PICK out : out = Written(a, es, ms)
  OBVIOUS
<1>26. /\ out \in Seq(Packets)
       /\ \A p \in ToSet(out) : \/ \E i \in DOMAIN es : p = HandleEvent(a, es, i)
                                \/ \E i \in DOMAIN ms : p = write_message(ms[i])
  BY <1>2, <1>4, <1>25, OutFacts
<1>27. wire' = [wire EXCEPT ![c] = IF Native(c) THEN wire[c] \o out ELSE wire[c]]
  BY <1>1, <1>3, <1>24, <1>25 DEF WriteEvent, Written
<1>28. /\ WireTyped'
       /\ \A m \in Nodes : \A p \in ToSet(wire[m])' :
            p \in ToSet(wire[m]) \/ (m = c /\ p \in ToSet(out))
  <2>1. wire \in [Nodes -> Seq(Packets)] /\ wire[c] \in Seq(Packets)
    BY Parts DEF WireTyped
  <2>2. PICK w : w = IF Native(c) THEN wire[c] \o out ELSE wire[c]
    OBVIOUS
  <2>3. w \in Seq(Packets) /\ \A p \in ToSet(w) : p \in ToSet(wire[c]) \/ p \in ToSet(out)
    BY <1>26, <2>1, <2>2, ConcatFacts
  <2>4. wire' = [wire EXCEPT ![c] = w]
    BY <1>27, <2>2
  <2>5. wire' \in [Nodes -> Seq(Packets)] /\ wire'[c] = w /\ \A m \in Nodes : m # c => wire'[m] = wire[m]
    BY <2>1, <2>3, <2>4
  <2> QED
    BY <2>3, <2>5 DEF WireTyped
<1>29. Typed'
  <2>1. TasksTyped' /\ ProxiesTyped' /\ AnswersTyped'
    BY <1>20, Parts, ProxiesNone, AnswersNone DEF TasksTyped
  <2> QED
    BY <1>14, <1>18, <1>21, <1>23, <1>28, <2>1 DEF Typed
<1>30. \A i \in Lookups(es) : i \in DOMAIN es /\ LooksUp(n, i, es[i].listener)
         /\ es[i].listener \in Listeners
  <2> TAKE i \in Lookups(es)
  <2>1. i \in DOMAIN es /\ es[i].is = "resolve" /\ es[i] \in Events
    BY <1>2 DEF Lookups
  <2> QED
    BY <1>2, <2>1, EventFacts DEF LooksUp
<1>31. \A i \in Lookups(es) : /\ asked[es[i].listener] = es[i].path
                              /\ n = Asks[es[i].listener].node /\ answers[es[i].listener] = <<>>
                              /\ \A j \in Lookups(es) : es[j].listener = es[i].listener => j = i
                              /\ \A r \in DOMAIN pending(n) : pending(n)[r] # es[i].listener
  <2> TAKE i \in Lookups(es)
  <2>1. PICK l \in Listeners : l = es[i].listener
    BY <1>30
  <2>2. LooksUp(n, i, l) /\ i \in DOMAIN events(n)
    BY <1>2, <1>30, <2>1
  <2>3. /\ n = Asks[l].node /\ asked[l] = events(n)[i].path
        /\ \A j \in DOMAIN events(n) : LooksUp(n, j, l) => j = i
        /\ \A r \in DOMAIN pending(n) : ~Awaits(n, r, l)
        /\ app[n].parent => answers[l] = <<>>
    BY <2>2, Parts DEF QueuedOnce
  <2>4. \A j \in Lookups(es) : es[j].listener = l => j = i
    BY <1>2, <1>30, <2>3
  <2>5. \A r \in DOMAIN pending(n) : pending(n)[r] # l
    BY <2>3 DEF Awaits
  <2> QED
    BY <1>2, <1>16, <2>1, <2>3, <2>4, <2>5
<1>32. QueuedOnce'
  <2> SUFFICES ASSUME NEW l \in Listeners, NEW m \in Nodes, NEW k \in DOMAIN events(m)',
                      LooksUp(m, k, l)'
               PROVE  (/\ m = Asks[l].node /\ asked[l] = events(m)[k].path
                       /\ \A j \in DOMAIN events(m) : LooksUp(m, j, l) => j = k
                       /\ \A r \in DOMAIN pending(m) : ~Awaits(m, r, l)
                       /\ app[m].parent => answers[l] = <<>>)'
    BY DEF QueuedOnce
  <2>1. m # n
    BY <1>18
  <2>2. events(m)' = events(m) /\ pending(m)' = pending(m) /\ app'[m].parent = app[m].parent
        /\ asked' = asked /\ answers' = answers
    BY <1>13, <1>18, <1>20, <1>21, <2>1
  <2>3. \A j : LooksUp(m, j, l)' = LooksUp(m, j, l)
    BY <2>2 DEF LooksUp
  <2>4. \A r : Awaits(m, r, l)' = Awaits(m, r, l)
    BY <2>2 DEF Awaits
  <2>5. k \in DOMAIN events(m) /\ LooksUp(m, k, l)
    BY <2>2, <2>3
  <2>6. /\ m = Asks[l].node /\ asked[l] = events(m)[k].path
        /\ \A j \in DOMAIN events(m) : LooksUp(m, j, l) => j = k
        /\ \A r \in DOMAIN pending(m) : ~Awaits(m, r, l)
        /\ app[m].parent => answers[l] = <<>>
    BY <2>5, Parts DEF QueuedOnce
  <2> QED
    BY <2>2, <2>3, <2>4, <2>6
<1>33. PendingOnce'
  <2> SUFFICES ASSUME NEW l \in Listeners, NEW m \in Nodes, NEW r \in DOMAIN pending(m)',
                      Awaits(m, r, l)'
               PROVE  (/\ m = Asks[l].node /\ asked[l] \in Paths /\ answers[l] = <<>>
                       /\ \A s \in DOMAIN pending(m) : Awaits(m, s, l) => s = r)'
    BY DEF PendingOnce
  <2>1. asked' = asked /\ answers' = answers
    BY <1>20, <1>21
  <2>2. ASSUME NEW s \in DOMAIN pending(m), Awaits(m, s, l)
        PROVE  /\ m = Asks[l].node /\ asked[l] \in Paths /\ answers[l] = <<>>
               /\ \A t \in DOMAIN pending(m) : Awaits(m, t, l) => t = s
    BY <2>2, Parts DEF PendingOnce
  <2>3. CASE m # n
    <3>1. pending(m)' = pending(m) /\ \A s : Awaits(m, s, l)' = Awaits(m, s, l)
      BY <1>13, <2>3 DEF Awaits
    <3> QED
      BY <2>1, <2>2, <3>1
  <2>4. CASE m = n
    <3>1. \A s : Awaits(m, s, l)' => s \in DOMAIN f /\ f[s] = l
      BY <1>13, <2>4 DEF Awaits
    <3>2. r \in DOMAIN f /\ f[r] = l
      BY <3>1
    <3>3. CASE r \in DOMAIN pending(n)
      <4>1. pending(n)[r] = l /\ Awaits(n, r, l)
        BY <1>7, <3>2, <3>3 DEF Awaits
      <4>2. /\ n = Asks[l].node /\ asked[l] \in Paths /\ answers[l] = <<>>
            /\ \A t \in DOMAIN pending(n) : Awaits(n, t, l) => t = r
        BY <2>2, <2>4, <3>3, <4>1
      <4>3. ASSUME NEW s \in DOMAIN f, f[s] = l
            PROVE  s = r
        <5>1. CASE s \in DOMAIN pending(n)
          BY <1>7, <4>2, <4>3, <5>1 DEF Awaits
        <5>2. CASE \E i \in Lookups(es) : s = request_id(a, es, i)
          <6>1. PICK i \in Lookups(es) : s = request_id(a, es, i)
            BY <5>2
          <6>2. es[i].listener = l
            BY <1>7, <4>3, <6>1
          <6> QED
            BY <1>31, <3>3, <4>1, <6>2
        <5> QED
          BY <1>7, <5>1, <5>2
      <4> QED
        BY <2>1, <2>4, <3>1, <4>2, <4>3
    <3>4. CASE r \notin DOMAIN pending(n)
      <4>1. PICK i \in Lookups(es) : r = request_id(a, es, i)
        BY <1>7, <3>2, <3>4
      <4>2. es[i].listener = l
        BY <1>7, <3>2, <4>1
      <4>3. /\ n = Asks[l].node /\ asked[l] = es[i].path /\ answers[l] = <<>>
            /\ \A j \in Lookups(es) : es[j].listener = l => j = i
            /\ \A s \in DOMAIN pending(n) : pending(n)[s] # l
        BY <1>31, <4>2
      <4>4. es[i].path \in Paths
        <5>1. es[i] \in Events /\ es[i].is = "resolve"
          BY <1>2 DEF Lookups
        <5> QED
          BY <5>1, EventFacts
      <4>5. ASSUME NEW s \in DOMAIN f, f[s] = l
            PROVE  s = r
        <5>1. CASE s \in DOMAIN pending(n)
          BY <1>7, <4>3, <4>5, <5>1
        <5>2. CASE \E j \in Lookups(es) : s = request_id(a, es, j)
          <6>1. PICK j \in Lookups(es) : s = request_id(a, es, j)
            BY <5>2
          <6>2. es[j].listener = l
            BY <1>7, <4>5, <6>1
          <6> QED
            BY <4>1, <4>3, <6>1, <6>2
        <5> QED
          BY <1>7, <5>1, <5>2
      <4> QED
        BY <2>1, <2>4, <3>1, <4>3, <4>4, <4>5
    <3> QED
      BY <3>3, <3>4
  <2> QED
    BY <2>3, <2>4
<1>34. RightAnswer'
  BY <1>20, <1>21, Parts DEF RightAnswer
<1>35. Grows
  <2>1. ASSUME NEW m \in Nodes
        PROVE  /\ app[m].next_request_id <= app'[m].next_request_id
               /\ \A r \in DOMAIN pending(m)' :
                    r < app[m].next_request_id =>
                      r \in DOMAIN pending(m) /\ pending(m)'[r] = pending(m)[r]
    <3>1. CASE m = n
      <4>1. x <= x + y
        BY <1>6
      <4>2. ASSUME NEW r \in DOMAIN f, r < x
            PROVE  r \in DOMAIN pending(n) /\ f[r] = pending(n)[r]
        <5>1. ASSUME NEW i \in Lookups(es), r = request_id(a, es, i)
              PROVE  FALSE
          <6>1. r \in Nat /\ x <= r
            BY <1>8, <5>1
          <6> QED
            BY <1>6, <4>2, <6>1
        <5> QED
          BY <1>7, <5>1
      <4> QED
        BY <1>3, <1>5, <1>10, <1>12, <1>13, <3>1, <4>1, <4>2
    <3>2. CASE m # n
      BY <1>12, <1>13, <3>2, Parts, AppFacts
    <3> QED
      BY <3>1, <3>2
  <2> QED
    BY <1>21, <1>23, <2>1 DEF Grows, ActorsGrow
<1>36. ASSUME ~foreign, NEW p \in ToSet(out)
       PROVE  GoodPacket(c, p)'
  <2>1. CASE \E i \in DOMAIN es : p = HandleEvent(a, es, i)
    <3>1. PICK i \in DOMAIN es : p = HandleEvent(a, es, i)
      BY <2>1
    <3>2. PICK e \in Events : e = es[i]
      BY <1>2
    <3>3. e \in ToSet(events(n))
      BY <1>2, <3>2 DEF ToSet
    <3>4. GoodEvent(e)
      BY <1>36, <3>3, Parts DEF GoodTraffic
    <3>5. /\ e.is = "resolve" => /\ p.type = "resolve_request" /\ p.op = request_id(a, es, i)
                                 /\ p.payload = [is |-> "path", path |-> e.path]
          /\ e.is = "new_proxy" => p.type = "monitor_message" /\ p.op = e.id
          /\ e.is = "local_actor_down" => p.type = "down_message" /\ p.op = e.id
      BY <1>2, <1>4, <3>1, <3>2, EventPacket
    <3>6. CASE e.is = "resolve"
      <4>1. i \in Lookups(es)
        BY <3>2, <3>6 DEF Lookups
      <4>2. PICK r \in Nat : r = request_id(a, es, i)
        BY <1>8, <4>1
      <4>3. r < x + y /\ r \in DOMAIN f /\ f[r] = e.listener /\ asked[e.listener] = e.path
        BY <1>7, <1>8, <1>31, <3>2, <4>1, <4>2
      <4>4. p.type = "resolve_request" /\ p.op = r /\ p.payload.is = "path" /\ p.payload.path = e.path
        BY <3>5, <3>6, <4>2
      <4>5. app'[n].next_request_id = x + y /\ pending(n)' = f /\ asked' = asked
        BY <1>10, <1>12, <1>13, <1>21
      <4>6. GoodRequest(n, p)'
        BY <4>3, <4>4, <4>5 DEF GoodRequest
      <4>7. Peer(c) = n
        BY <1>24, PeerFacts
      <4> QED
        BY <4>4, <4>6, <4>7 DEF GoodPacket
    <3>7. CASE e.is = "new_proxy"
      <4>1. p.type = "monitor_message" /\ p.op = e.id /\ e.id \in Actors /\ Known(e.id)
        BY <3>4, <3>5, <3>7, EventFacts DEF GoodEvent
      <4>2. Known(e.id)'
        BY <1>23, <4>1 DEF ActorsGrow
      <4> QED
        BY <4>1, <4>2 DEF GoodPacket
    <3>8. CASE e.is = "local_actor_down"
      <4>1. p.type = "down_message" /\ p.op = e.id /\ e.id \in Actors /\ Down(e.id)
        BY <3>4, <3>5, <3>8, EventFacts DEF GoodEvent
      <4>2. Down(e.id)'
        BY <1>23, <4>1 DEF ActorsGrow
      <4> QED
        BY <4>1, <4>2 DEF GoodPacket
    <3> QED
      BY <3>6, <3>7, <3>8, EventFacts
  <2>2. CASE \E i \in DOMAIN ms : p = write_message(ms[i])
    <3>1. PICK i \in DOMAIN ms : p = write_message(ms[i])
      BY <2>2
    <3>2. PICK m \in Messages : m = ms[i]
      BY <1>2
    <3>3. p.type = "actor_message" /\ p.payload = m /\ m.is = "message"
      BY <3>1, <3>2, MessagePacket
    <3>4. m.src # Nobody => Known(m.src)'
      BY <1>23, <3>2 DEF Senders
    <3>5. GoodMessage(m)'
      BY <3>3, <3>4 DEF GoodMessage
    <3> QED
      BY <3>3, <3>5 DEF GoodPacket
  <2> QED
    BY <1>26, <1>36, <2>1, <2>2
<1>37. ASSUME ~foreign
       PROVE  NewTraffic
  <2>1. ASSUME NEW m \in Nodes, NEW p \in Incoming(m)'
        PROVE  p \in Incoming(m) \/ GoodPacket(m, p)'
    <3>1. p \in ToSet(wire[m])' \/ p = app'[m].hdr
      BY <2>1 DEF Incoming
    <3>2. CASE p \in ToSet(wire[m])'
      BY <1>28, <1>36, <1>37, <3>2 DEF Incoming
    <3>3. CASE p = app'[m].hdr
      BY <1>13, <3>3 DEF Incoming
    <3> QED
      BY <3>1, <3>2, <3>3
  <2>2. ASSUME NEW m \in Nodes, NEW t \in ToSet(tasks[m])'
        PROVE  t \in ToSet(tasks[m])
    BY <1>20
  <2>3. ASSUME NEW m \in Nodes, NEW e \in ToSet(events(m))'
        PROVE  e \in ToSet(events(m))
    <3>1. m # n
      BY <1>18, <2>3 DEF ToSet
    <3> QED
      BY <1>18, <2>3, <3>1 DEF ToSet
  <2> QED
    BY <2>1, <2>2, <2>3 DEF NewTraffic
<1>38. GoodTraffic'
  BY <1>14, <1>21, <1>35, <1>37, Parts, TrafficStep
<1> QED
  BY <1>19, <1>29, <1>32, <1>33, <1>34, <1>38 DEF IInv

-----------------------------------------------------------------------------
(* The invariant *)

(* In the beginning only handshakes are on the wires. *)
LEMMA InitInv == Init => IInv
<1> SUFFICES ASSUME Init
             PROVE  IInv
  OBVIOUS
<1>1. PICK f : f = <<>>
  OBVIOUS
<1>2. f \in UNION {[S -> Listeners] : S \in SUBSET Nat} /\ DOMAIN f = {}
  <2>1. f \in [{} -> Listeners] /\ DOMAIN f = {}
    BY <1>1
  <2>2. {} \in SUBSET Nat
    OBVIOUS
  <2> QED
    BY <2>1, <2>2
<1>3. PICK a : a = [state |-> "await_handshake_header", hdr |-> NoPacket, peer_id |-> Nobody,
                    pending_resolves |-> f, next_request_id |-> 1,
                    reading |-> TRUE, parent |-> TRUE]
  OBVIOUS
<1>4. a \in App /\ a.pending_resolves = f /\ a.parent /\ a.hdr = NoPacket
  BY <1>2, <1>3, NoPacketType DEF App, States
<1>5. app = [n \in Nodes |-> a]
  BY <1>1, <1>3 DEF Init
<1>6. AppTyped /\ \A n \in Nodes : DOMAIN pending(n) = {} /\ app[n].parent /\ app[n].hdr = NoPacket
  BY <1>2, <1>4, <1>5 DEF AppTyped, pending
<1>7. QueueTyped /\ \A n \in Nodes : events(n) = <<>>
  <2>1. PICK q : q = NewQueue
    OBVIOUS
  <2>2. q \in Queue(Events, Messages) /\ q.events = <<>>
    BY <2>1, NewQueueFacts
  <2>3. queue = [n \in Nodes |-> q] /\ writing = [n \in Nodes |-> FALSE]
    BY <2>1 DEF Init
  <2> QED
    BY <2>2, <2>3 DEF QueueTyped, events
<1>8. UsersTyped
  <2>1. app_ids \in [Nodes -> SUBSET AppIds] /\ foreign \in BOOLEAN
    BY PeersAssumption DEF Init
  <2>2. calls \in 0 .. MaxCalls /\ intruded \in 0 .. MaxForeign
    BY PeersAssumption DEF Init
  <2>3. asked \in [Listeners -> Paths \cup {NoPath}]
    BY DEF Init
  <2> QED
    BY <2>1, <2>2, <2>3 DEF UsersTyped
<1>9. ASSUME NEW n \in Nodes
      PROVE  handshake(n) \in Packets /\ handshake(n).type = "handshake"
  <2>1. PICK pl : pl = [is |-> "handshake", node |-> n, ids |-> app_ids[n]]
    OBVIOUS
  <2>2. app_ids[n] \in SUBSET AppIds
    BY <1>8 DEF UsersTyped
  <2>3. pl \in Payloads
    BY <2>1, <2>2 DEF Payloads
  <2>4. PICK t \in message_types : t = "handshake"
    BY DEF message_types
  <2>5. handshake(n) = packet(t, 1, pl) /\ 1 \in Nat \cup Actors /\ t \in message_types \cup {"other"}
    BY <2>1, <2>4 DEF handshake, version
  <2> QED
    BY <2>3, <2>4, <2>5, PacketType
<1>10. WireTyped /\ \A n \in Nodes : \A p \in ToSet(wire[n]) : p.type = "handshake"
  <2>1. ASSUME NEW n \in Nodes
        PROVE  wire[n] \in Seq(Packets) /\ \A p \in ToSet(wire[n]) : p.type = "handshake"
    <3>1. CASE foreign
      <4>1. wire[n] = <<>>
        BY <3>1 DEF Init
      <4> QED
        BY <4>1 DEF ToSet
    <3>2. CASE ~foreign
      <4>1. PICK h : h = handshake(Peer(n))
        OBVIOUS
      <4>2. h \in Packets /\ h.type = "handshake"
        BY <1>9, <4>1, PeerFacts
      <4>3. wire[n] = <<h>>
        BY <3>2, <4>1 DEF Init
      <4> QED
        BY <4>2, <4>3 DEF ToSet
    <3> QED
      BY <3>1, <3>2
  <2>2. wire = [n \in Nodes |-> wire[n]]
    BY DEF Init
  <2> QED
    BY <2>1, <2>2 DEF WireTyped
<1>11. TasksTyped /\ ProxiesTyped /\ \A n \in Nodes : tasks[n] = <<>>
  BY DEF Init, TasksTyped, ProxiesTyped
<1>12. ActorsTyped
  BY DEF Init, ActorsTyped
<1>13. AnswersTyped /\ \A l \in Listeners : answers[l] = <<>>
  BY DEF Init, AnswersTyped
<1>14. Typed
  BY <1>6, <1>7, <1>8, <1>10, <1>11, <1>12, <1>13 DEF Typed
<1>15. Stopped
  BY <1>6 DEF Stopped
<1>16. QueuedOnce /\ PendingOnce /\ RightAnswer
  BY <1>6, <1>7, <1>13 DEF QueuedOnce, PendingOnce, RightAnswer
<1>17. GoodTraffic
  <2>1. ASSUME NEW n \in Nodes, NEW p \in Incoming(n)
        PROVE  GoodPacket(n, p)
    <3>1. p.type \in {"handshake", "other"}
      BY <1>6, <1>10, <2>1, NoPacketType DEF Incoming
    <3> QED
      BY <3>1 DEF GoodPacket
  <2>2. \A n \in Nodes : ToSet(tasks[n]) = {} /\ ToSet(events(n)) = {}
    BY <1>7, <1>11 DEF ToSet
  <2> QED
    BY <2>1, <2>2 DEF GoodTraffic
<1> QED
  BY <1>14, <1>15, <1>16, <1>17 DEF IInv

(* A step in which no variable changes. *)
LEMMA StutterStep ==
  ASSUME IInv, UNCHANGED vars
  PROVE  IInv'
<1>1. UNCHANGED <<userVars, intruded, nodeVars, answers>> /\ UNCHANGED actorVars
  BY DEF vars
<1>2. ActorsTyped' /\ ActorsGrow
  BY <1>1, Parts, ActorsSame
<1> QED
  BY <1>1, <1>2, ActorOnly

(* Every step preserves the invariant. *)
LEMMA NextInv == IInv /\ [Next]_vars => IInv'
<1> SUFFICES ASSUME IInv, [Next]_vars
             PROVE  IInv'
  OBVIOUS
<1>1. CASE UserStep
  <2>1. ASSUME NEW l \in Listeners, NEW path \in Paths, Resolve(l, path)
        PROVE  IInv'
    BY <2>1, ResolveStep
  <2>2. ASSUME NEW a \in Actors, Publish(a) \/ Terminate(a)
        PROVE  IInv'
    BY <2>2, PublishStep, TerminateStep
  <2>3. ASSUME NEW n \in Nodes, NEW src \in Actors \cup {Nobody}, NEW dst \in Actors,
               Send(n, src, dst)
        PROVE  IInv'
    BY <2>3, SendStep
  <2>4. ASSUME NEW n \in Nodes, Stop(n)
        PROVE  IInv'
    BY <2>4, StopStep
  <2>5. ASSUME NEW p \in ForeignPackets, ForeignSends(p)
        PROVE  IInv'
    BY <2>5, ForeignSendsStep
  <2> QED
    BY <1>1, <2>1, <2>2, <2>3, <2>4, <2>5 DEF UserStep
<1>2. CASE ActorStep
  BY <1>2, RunMonitorsStep, LeaveRegistryStep DEF ActorStep
<1>3. ASSUME NEW n \in Nodes, WriteEvent(n)
      PROVE  IInv'
  BY <1>3, WriteEventStep
<1>4. ASSUME NEW n \in Nodes, ReadStep(n)
      PROVE  IInv'
  BY <1>4, HandshakeHeaderStep, HandshakePayloadStep, HeaderStep, PayloadStep DEF ReadStep
<1>5. ASSUME NEW n \in Nodes, TaskStep(n)
      PROVE  IInv'
  BY <1>5, RunTaskStep DEF TaskStep
<1>6. CASE UNCHANGED vars
  BY <1>6, StutterStep
<1> QED
  BY <1>1, <1>2, <1>3, <1>4, <1>5, <1>6 DEF Next

(* The invariant of two nodes that talk BASP: a lookup is in the queue of  *)
(* its node, waits for one response or was answered, and what the nodes    *)
(* tell each other of actors and lookups is right, for any actors,         *)
(* listeners, lookups and foreign packets.                                 *)
THEOREM PeersInvariant == Spec => []IInv
<1>1. Init => IInv
  BY InitInv
<1>2. IInv /\ [Next]_vars => IInv'
  BY NextInv
<1> QED
  BY <1>1, <1>2, PTL DEF Spec

(* The state of two nodes is well typed; in particular the IDs in          *)
(* pending_resolves_ are below next_request_id_.                           *)
THEOREM PeersTypes == Spec => []TypeOK
<1>1. IInv => TypeOK
  BY Parts, TypedTypes
<1> QED
  BY <1>1, PeersInvariant, PTL

(* A listener hears at most once, whatever the peer sends and when the     *)
(* multiplexer goes; a peer that runs this code names the actor that was   *)
(* asked for.                                                              *)
THEOREM PeersRightAnswer == Spec => []RightAnswer
<1>1. IInv => RightAnswer
  BY Parts
<1> QED
  BY <1>1, PeersInvariant, PTL

-----------------------------------------------------------------------------
(* Proxies *)

(* The proxies that go have actors that terminated, or a node that stops. *)
Falls(n) ==
  \A a \in proxies[n] \ proxies'[n] : foreign \/ life[a] # "alive" \/ ~app'[n].parent

(* A proxy is added, or none. *)
LEMMA NoneFalls ==
  ASSUME ProxiesTyped, NEW n \in Nodes,
         proxies' = proxies \/ \E m \in Nodes, a \in Actors : get_or_put(m, a)
  PROVE  Falls(n)
<1>1. CASE proxies' = proxies
  BY <1>1 DEF Falls
<1>2. CASE \E m \in Nodes, a \in Actors : get_or_put(m, a)
  <2>1. PICK m \in Nodes, a \in Actors : get_or_put(m, a)
    BY <1>2
  <2>2. proxies' = [proxies EXCEPT ![m] = proxies[m] \cup {a}]
    BY <2>1 DEF get_or_put
  <2>3. proxies[n] \subseteq proxies'[n]
    BY <2>2 DEF ProxiesTyped
  <2> QED
    BY <2>3 DEF Falls
<1> QED
  BY <1>1, <1>2

(* Of the handlers for packets only that of down messages drops a proxy,   *)
(* and such a message is about an actor that terminated.                   *)
LEMMA HandleFalls ==
  ASSUME IInv, NEW m \in Nodes, NEW n \in Nodes, NEW a, NEW p \in Incoming(m), Handle(m, a, p)
  PROVE  Falls(n)
<1>1. ProxiesTyped /\ p \in Packets /\ p.payload \in Payloads /\ (~foreign => GoodPacket(m, p))
  BY Parts, TrafficTypes, PacketFacts DEF GoodTraffic
<1>2. CASE p.type = "down_message"
  <2>1. handle_down_message(m, a, p.op, p.payload)
    BY <1>2 DEF Handle
  <2>2. proxies' = proxies \/ proxies' = [proxies EXCEPT ![m] = proxies[m] \ {p.op}]
    BY <2>1 DEF handle_down_message, Fail
  <2>3. \A x \in proxies[n] \ proxies'[n] : x = p.op
    BY <1>1, <2>2 DEF ProxiesTyped
  <2>4. ~foreign => life[p.op] # "alive"
    BY <1>1, <1>2 DEF GoodPacket, Down
  <2> QED
    BY <2>3, <2>4 DEF Falls
<1>3. CASE p.type = "resolve_response"
  <2>1. handle_resolve_response(m, a, p.op, p.payload)
    BY <1>3 DEF Handle
  <2>2. proxies' = proxies \/ (/\ p.payload.is = "aid" /\ p.payload.aid # Nobody
                               /\ get_or_put(m, p.payload.aid))
    BY <2>1 DEF handle_resolve_response
  <2>3. p.payload.is = "aid" => p.payload.aid \in Actors \cup {Nobody}
    BY <1>1, PayloadFacts
  <2> QED
    BY <1>1, <2>2, <2>3, NoneFalls
<1>4. CASE p.type \notin {"down_message", "resolve_response"}
  <2>1. p.type = "actor_message" => proxies' = proxies
    BY DEF Handle, handle_actor_message
  <2>2. p.type = "resolve_request" => proxies' = proxies
    BY DEF Handle, handle_resolve_request, Fail
  <2>3. p.type = "monitor_message" => proxies' = proxies
    BY DEF Handle, handle_monitor_message, Fail
  <2>4. p.type = "heartbeat" => proxies' = proxies
    BY DEF Handle, handle_heartbeat
  <2>5. p.type \notin {"actor_message", "resolve_request", "monitor_message", "heartbeat"}
          => proxies' = proxies
    BY <1>4 DEF Handle, Fail
  <2> QED
    BY <1>1, <2>1, <2>2, <2>3, <2>4, <2>5, NoneFalls
<1> QED
  BY <1>2, <1>3, <1>4

(* A node that stops drops its proxies. *)
LEMMA StopFalls ==
  ASSUME IInv, NEW m \in Nodes, NEW n \in Nodes, Stop(m)
  PROVE  Falls(n)
<1>1. proxies' = [proxies EXCEPT ![m] = {}] /\ app' = [app EXCEPT ![m].parent = FALSE, ![m].reading = FALSE]
  BY DEF Stop
<1>2. CASE n = m
  <2>1. app \in [Nodes -> App] /\ app[m] \in App
    BY Parts DEF AppTyped
  <2>2. ~app'[n].parent
    BY <1>1, <1>2, <2>1 DEF App
  <2> QED
    BY <2>2 DEF Falls
<1>3. CASE n # m
  BY <1>1, <1>3, Parts DEF Falls, ProxiesTyped
<1> QED
  BY <1>2, <1>3

(* The same for every step. *)
LEMMA NextFalls ==
  ASSUME IInv, [Next]_vars, NEW n \in Nodes
  PROVE  Falls(n)
<1>1. ProxiesTyped
  BY Parts
<1>2. CASE \E m \in Nodes : Stop(m)
  BY <1>2, StopFalls
<1>3. CASE UserStep /\ ~\E m \in Nodes : Stop(m)
  <2>1. proxies' = proxies
    BY <1>3 DEF UserStep, Resolve, Publish, Terminate, Send, ForeignSends, nodeVars
  <2> QED
    BY <1>1, <2>1, NoneFalls
<1>4. CASE ActorStep
  <2>1. proxies' = proxies
    BY <1>4 DEF ActorStep, RunMonitors, LeaveRegistry, nodeVars
  <2> QED
    BY <1>1, <2>1, NoneFalls
<1>5. ASSUME NEW m \in Nodes, WriteEvent(m) \/ HandshakeHeader(m) \/ HandshakePayload(m)
      PROVE  Falls(n)
  <2>1. proxies' = proxies
    BY <1>5 DEF WriteEvent, HandshakeHeader, HandshakePayload, Fail
  <2> QED
    BY <1>1, <2>1, NoneFalls
<1>6. ASSUME NEW m \in Nodes, Header(m)
      PROVE  Falls(n)
  <2>1. PICK p : p = Head(wire[m])
    OBVIOUS
  <2>2. p \in Incoming(m)
    BY <1>6, <2>1, NextPacket DEF Header
  <2>3. CASE p.payload = Empty
    <3>1. Handle(m, app[m], p)
      BY <1>6, <2>1, <2>3 DEF Header
    <3> QED
      BY <2>2, <3>1, HandleFalls
  <2>4. CASE p.payload # Empty
    <3>1. proxies' = proxies
      BY <1>6, <2>1, <2>4 DEF Header
    <3> QED
      BY <1>1, <3>1, NoneFalls
  <2> QED
    BY <2>3, <2>4
<1>7. ASSUME NEW m \in Nodes, Payload(m)
      PROVE  Falls(n)
  <2>1. PICK p, a : p = app[m].hdr /\ a = [app[m] EXCEPT !.state = "await_header", !.hdr = NoPacket]
    OBVIOUS
  <2>2. p \in Incoming(m) /\ Handle(m, a, p)
    BY <1>7, <2>1 DEF Incoming, Payload
  <2> QED
    BY <2>2, HandleFalls
<1>8. ASSUME NEW m \in Nodes, NEW i \in DOMAIN tasks[m], RunTask(m, i)
      PROVE  Falls(n)
  <2>1. PICK t : t = tasks[m][i]
    OBVIOUS
  <2>2. t \in Payloads
    BY <2>1, Parts, TrafficTypes DEF ToSet
  <2>3. proxies' = proxies \/ (t.is = "message" /\ t.src # Nobody /\ get_or_put(m, t.src))
    BY <1>8, <2>1 DEF RunTask
  <2>4. t.is = "message" => t.src \in Actors \cup {Nobody}
    BY <2>2, PayloadFacts
  <2> QED
    BY <1>1, <2>3, <2>4, NoneFalls
<1>9. CASE UNCHANGED vars
  <2>1. proxies' = proxies
    BY <1>9 DEF vars, nodeVars
  <2> QED
    BY <1>1, <2>1, NoneFalls
<1>10. ASSUME NEW m \in Nodes, ReadStep(m) \/ TaskStep(m)
       PROVE  Falls(n)
  BY <1>5, <1>6, <1>7, <1>8, <1>10 DEF ReadStep, TaskStep
<1> QED
  BY <1>2, <1>3, <1>4, <1>5, <1>9, <1>10 DEF Next

(* No proxy goes while its actor runs and its node has not stopped: a down *)
(* message of a node that runs this code is about an actor that terminated,*)
(* because whoever tells the peer an ID puts the actor into the registry.  *)
THEOREM PeersNoFalseDown == Spec => NoFalseDown
<1>1. IInv /\ [Next]_vars =>
        [\A n \in Nodes : \A a \in proxies[n] \ proxies'[n] :
           foreign \/ life[a] # "alive" \/ ~app'[n].parent]_vars
  <2> SUFFICES ASSUME IInv, [Next]_vars
               PROVE  \A n \in Nodes : \A a \in proxies[n] \ proxies'[n] :
                        foreign \/ life[a] # "alive" \/ ~app'[n].parent
    OBVIOUS
  <2> QED
    BY NextFalls DEF Falls
<1> QED
  BY <1>1, PeersInvariant, PTL DEF Spec, NoFalseDown
=============================================================================
