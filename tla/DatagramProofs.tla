--------------------------- MODULE DatagramProofs ---------------------------
(***************************************************************************)
(* Proofs about the datagram transport: for any sets of nodes and          *)
(* endpoints, any number of workers and any limits of the buffer caches,   *)
(* nothing that was enqueued is forgotten, and messages to a node leave in *)
(* order and all to the same endpoint.                                     *)
(***************************************************************************)
EXTENDS Datagram, TLAPS

-----------------------------------------------------------------------------
(* The inductive invariant *)

(* The members of the transport. *)
Members(t) ==
  t = [workers |-> t.workers, by_id |-> t.by_id, by_node |-> t.by_node,
       by_timeout |-> t.by_timeout, packets |-> t.packets,
       header_bufs |-> t.header_bufs, payload_bufs |-> t.payload_bufs]

InWriteEvent == phase \in {"events", "write", "fetch", "end"}

(* A write event is handled only for a registered manager, which stays     *)
(* registered until the end of the handler; and the handler gets past      *)
(* write_some only without packets or with an error.                       *)
Phases ==
  /\ InWriteEvent => writing
  /\ phase = "fetch" => tp.packets = <<>>
  /\ phase = "end" => tp.packets = <<>> \/ broken

(* The mark is in the queue only while it is empty, and whoever replaced it*)
(* registers the manager.  A packet is never left with no registration.    *)
Awake ==
  /\ queue.blocked => IsEmpty(queue)
  /\ ~queue.blocked => writing \/ torn \/ waking > 0
  /\ tp.packets # <<>> => writing \/ torn \/ broken

(* A registration is lost only with the last event of the manager, and for *)
(* good: nothing is polled any more.                                       *)
Settled == torn => ~reading /\ ~writing /\ phase = "idle"

(* A timeout that waits in a queue was taken from the clock. *)
Fired(s) == \A i \in DOMAIN s : s[i].is = "timeout" => s[i].nr \notin armed /\ s[i].nr <= arrived

Timeouts == Fired(queue.events) /\ Fired(todo) /\ \A i \in armed : i <= arrived

(* The messages of packet p were enqueued before those of packet q. *)
Ahead(p, q) == \A m \in p.msg, o \in q.msg : m.nr < o.nr

(* A packet goes to the endpoint of the worker that by_node names. *)
Routed(p, t) ==
  \A m \in p.msg : m.node \in DOMAIN t.by_node /\ p.to = t.workers[t.by_node[m.node]]

(* Messages that were written precede those in packets, which precede those*)
(* in the queue.                                                           *)
Order(w, t, ms, n) ==
  LET s == t.packets
  IN  /\ \A i, j \in DOMAIN w : i < j => Ahead(w[i], w[j])
      /\ \A i \in DOMAIN w, j \in DOMAIN s : Ahead(w[i], s[j])
      /\ \A i, j \in DOMAIN s : i < j => Ahead(s[i], s[j])
      /\ \A i \in DOMAIN w, k \in DOMAIN ms : \A m \in w[i].msg : m.nr < ms[k].nr
      /\ \A j \in DOMAIN s, k \in DOMAIN ms : \A m \in s[j].msg : m.nr < ms[k].nr
      /\ \A k, l \in DOMAIN ms : k < l => ms[k].nr < ms[l].nr
      /\ \A i \in DOMAIN w : \A m \in w[i].msg : m.nr <= n
      /\ \A j \in DOMAIN s : \A m \in s[j].msg : m.nr <= n
      /\ \A k \in DOMAIN ms : ms[k].nr <= n
      /\ \A i \in DOMAIN w : Routed(w[i], t)
      /\ \A j \in DOMAIN s : Routed(s[j], t)

DgInv ==
  /\ TypeOK /\ Members(tp)
  /\ Phases /\ Awake /\ Settled /\ Timeouts
  /\ Order(written, tp, queue.messages, pushes)

-----------------------------------------------------------------------------
(* Sequences *)

(* Appending to a sequence. *)
LEMMA Appending ==
  ASSUME NEW S, NEW s \in Seq(S), NEW x
  PROVE  /\ x \in S => Append(s, x) \in Seq(S)
         /\ Append(s, x) # <<>>
         /\ Len(Append(s, x)) = Len(s) + 1
         /\ DOMAIN Append(s, x) = 1 .. Len(s) + 1
         /\ DOMAIN s = 1 .. Len(s) /\ Len(s) \in Nat
         /\ \A i \in DOMAIN s : Append(s, x)[i] = s[i]
         /\ Append(s, x)[Len(s) + 1] = x
  OBVIOUS

(* Taking the first element. *)
LEMMA Rest ==
  ASSUME NEW S, NEW s \in Seq(S), s # <<>>
  PROVE  /\ Head(s) \in S /\ Tail(s) \in Seq(S) /\ Head(s) = s[1] /\ 1 \in DOMAIN s
         /\ \A i \in DOMAIN Tail(s) :
              i + 1 \in DOMAIN s /\ Tail(s)[i] = s[i + 1] /\ i \in Nat \ {0}
  OBVIOUS

-----------------------------------------------------------------------------
(* The operators of transport and dispatcher *)

(* The limits are positive numbers. *)
LEMMA Limits ==
  /\ max_consecutive_reads \in Nat \ {0}
  /\ max_header_bufs \in Nat \ {0} /\ max_payload_bufs \in Nat \ {0}
  /\ MaxPushes \in Nat /\ MaxDatagrams \in Nat /\ MaxWorkers \in Nat
  BY DatagramAssumption

(* emplace adds a key and overwrites none. *)
LEMMA Emplaced ==
  ASSUME NEW f, NEW key, NEW val
  PROVE  /\ DOMAIN emplace(f, key, val) = DOMAIN f \cup {key}
         /\ \A x \in DOMAIN f : emplace(f, key, val)[x] = f[x]
         /\ key \notin DOMAIN f => emplace(f, key, val)[key] = val
  BY DEF emplace

(* From t to u no worker changes its endpoint, no node its worker, and     *)
(* the packets of t stay first.                                            *)
Grows(t, u) ==
  /\ Len(t.workers) <= Len(u.workers)
  /\ \A w \in DOMAIN t.workers : u.workers[w] = t.workers[w]
  /\ \A n \in DOMAIN t.by_node : n \in DOMAIN u.by_node /\ u.by_node[n] = t.by_node[n]
  /\ Len(t.packets) <= Len(u.packets)
  /\ \A i \in DOMAIN t.packets : u.packets[i] = t.packets[i]

(* And the packets that u has in addition carry no message. *)
Quiet(t, u) ==
  /\ Grows(t, u)
  /\ \A i \in DOMAIN u.packets : i \notin DOMAIN t.packets => u.packets[i].msg = {}

(* u is t with one more packet. *)
OnePacket(t, u, id, msg, bufs) ==
  /\ Members(u) /\ Transport(u)
  /\ u.workers = t.workers /\ u.by_id = t.by_id /\ u.by_node = t.by_node
  /\ u.by_timeout = t.by_timeout
  /\ u.packets = Append(t.packets, [to |-> id, msg |-> msg, bufs |-> bufs])

(* write_packet adds one packet at the end. *)
LEMMA Writes ==
  ASSUME NEW t, Members(t), Transport(t), NEW id \in Ids, NEW msg \in SUBSET Message,
         NEW bufs \in 1 .. 2
  PROVE  OnePacket(t, write_packet(t, id, msg, bufs), id, msg, bufs)
<1> DEFINE p == [to |-> id, msg |-> msg, bufs |-> bufs]
<1>0. PICK u : u = write_packet(t, id, msg, bufs)
  OBVIOUS
<1>1. /\ Members(u)
      /\ u.workers = t.workers /\ u.by_id = t.by_id /\ u.by_node = t.by_node
      /\ u.by_timeout = t.by_timeout
      /\ u.packets = Append(t.packets, p)
      /\ u.header_bufs = Taken(t.header_bufs, 1)
      /\ u.payload_bufs = Taken(t.payload_bufs, bufs - 1)
  BY <1>0 DEF Members, write_packet
<1>2. p \in Packet
  BY DEF Packet
<1>3. u.packets \in Seq(Packet)
  BY <1>1, <1>2, Appending DEF Transport
<1>4. u.header_bufs \in 0 .. max_header_bufs /\ u.payload_bufs \in 0 .. max_payload_bufs
  BY <1>1, Limits DEF Transport, Taken
<1>5. Transport(u)
  BY <1>1, <1>3, <1>4 DEF Transport
<1> QED
  BY <1>0, <1>1, <1>5 DEF OnePacket

(* u is t with one more worker. *)
OneWorker(t, u, node, id) ==
  /\ Members(u) /\ Transport(u) /\ Quiet(t, u)
  /\ id \in DOMAIN u.by_id /\ node \in DOMAIN u.by_node
  /\ u.by_timeout = t.by_timeout

(* add_new_worker adds one worker, for a key that has none. *)
LEMMA AddsWorker ==
  ASSUME NEW t, Members(t), Transport(t), NEW node \in NodeIds, NEW id \in Ids
  PROVE  OneWorker(t, add_new_worker(t, node, id), node, id)
<1> DEFINE w == Len(t.workers) + 1
<1>0. PICK v : v = [t EXCEPT !.workers = Append(@, id), !.by_id = emplace(@, id, w),
                             !.by_node = emplace(@, node, w)]
  OBVIOUS
<1>1. /\ Members(v)
      /\ v.workers = Append(t.workers, id)
      /\ v.by_id = emplace(t.by_id, id, w) /\ v.by_node = emplace(t.by_node, node, w)
      /\ v.by_timeout = t.by_timeout /\ v.packets = t.packets
      /\ v.header_bufs = t.header_bufs /\ v.payload_bufs = t.payload_bufs
  BY <1>0 DEF Members
<1>2. add_new_worker(t, node, id) = IF Greets THEN write_packet(v, id, {}, 2) ELSE v
  BY <1>0 DEF add_new_worker
<1>3. /\ v.workers \in Seq(Ids) /\ DOMAIN v.workers = DOMAIN t.workers \cup {w}
      /\ w \notin DOMAIN t.workers /\ v.workers[w] = id
      /\ \A x \in DOMAIN t.workers : v.workers[x] = t.workers[x]
      /\ Len(v.workers) = w /\ Len(t.workers) \in Nat
  BY <1>1, Appending DEF Transport
<1> HIDE DEF w
<1>4. /\ DOMAIN v.by_id = DOMAIN t.by_id \cup {id}
      /\ \A x \in DOMAIN t.by_id : v.by_id[x] = t.by_id[x]
      /\ id \notin DOMAIN t.by_id => v.by_id[id] = w
  <2> DEFINE e == emplace(t.by_id, id, w)
  <2>1. /\ DOMAIN e = DOMAIN t.by_id \cup {id}
        /\ \A x \in DOMAIN t.by_id : e[x] = t.by_id[x]
        /\ id \notin DOMAIN t.by_id => e[id] = w
    BY Emplaced
  <2> HIDE DEF e
  <2> QED
    BY <1>1, <2>1 DEF e
<1>5. /\ DOMAIN v.by_node = DOMAIN t.by_node \cup {node}
      /\ \A x \in DOMAIN t.by_node : v.by_node[x] = t.by_node[x]
      /\ node \notin DOMAIN t.by_node => v.by_node[node] = w
  <2> DEFINE e == emplace(t.by_node, node, w)
  <2>1. /\ DOMAIN e = DOMAIN t.by_node \cup {node}
        /\ \A x \in DOMAIN t.by_node : e[x] = t.by_node[x]
        /\ node \notin DOMAIN t.by_node => e[node] = w
    BY Emplaced
  <2> HIDE DEF e
  <2> QED
    BY <1>1, <2>1 DEF e
<1>6. \A i \in DOMAIN v.by_id : v.by_id[i] \in DOMAIN v.workers /\ v.workers[v.by_id[i]] = i
  BY <1>3, <1>4 DEF Transport
<1>7. \A n \in DOMAIN v.by_node : v.by_node[n] \in DOMAIN v.workers
  BY <1>3, <1>5 DEF Transport
<1>8. Transport(v)
  BY <1>1, <1>3, <1>4, <1>5, <1>6, <1>7 DEF Transport
<1>9. Quiet(t, v)
  <2>1. Len(t.workers) <= Len(v.workers)
    BY <1>3 DEF w
  <2>2. Len(t.packets) \in Nat
    BY DEF Transport
  <2> QED
    BY <1>1, <1>3, <1>5, <2>1, <2>2 DEF Quiet, Grows
<1>10. CASE Greets
  <2> DEFINE p == [to |-> id, msg |-> {}, bufs |-> 2]
  <2>0. PICK u : u = write_packet(v, id, {}, 2)
    OBVIOUS
  <2>1. /\ Members(u) /\ Transport(u)
        /\ u.workers = v.workers /\ u.by_id = v.by_id /\ u.by_node = v.by_node
        /\ u.by_timeout = v.by_timeout
        /\ u.packets = Append(v.packets, p)
    <3>0. Members(v) /\ Transport(v)
      BY <1>1, <1>8
    <3>1. {} \in SUBSET Message /\ 2 \in 1 .. 2
      OBVIOUS
    <3>2. OnePacket(v, u, id, {}, 2)
      BY <2>0, <3>0, <3>1, Writes
    <3> QED
      BY <3>2 DEF OnePacket
  <2>2. /\ DOMAIN u.packets = 1 .. Len(t.packets) + 1 /\ u.packets[Len(t.packets) + 1] = p
        /\ Len(u.packets) = Len(t.packets) + 1 /\ Len(t.packets) \in Nat
        /\ DOMAIN t.packets = 1 .. Len(t.packets)
        /\ \A i \in DOMAIN t.packets : u.packets[i] = t.packets[i]
    BY <1>1, <2>1, Appending DEF Transport
  <2>3. Grows(t, u)
    BY <1>1, <1>9, <2>1, <2>2 DEF Quiet, Grows
  <2>4. \A i \in DOMAIN u.packets : i \notin DOMAIN t.packets => i = Len(t.packets) + 1
    BY <2>2
  <2>5. Quiet(t, u)
    BY <2>2, <2>3, <2>4 DEF Quiet
  <2> QED
    BY <1>1, <1>2, <1>4, <1>5, <1>10, <2>0, <2>1, <2>5 DEF OneWorker
<1>11. CASE ~Greets
  BY <1>1, <1>2, <1>4, <1>5, <1>8, <1>9, <1>11 DEF OneWorker
<1> QED
  BY <1>10, <1>11

(* u is t without its first packet. *)
OneLess(t, u) ==
  /\ Members(u) /\ Transport(u)
  /\ u.workers = t.workers /\ u.by_id = t.by_id /\ u.by_node = t.by_node
  /\ u.by_timeout = t.by_timeout
  /\ u.packets = Tail(t.packets)

(* recycle removes the first packet and keeps the caches within limits. *)
LEMMA Recycles ==
  ASSUME NEW t, Members(t), Transport(t), t.packets # <<>>
  PROVE  OneLess(t, recycle(t))
<1>0. PICK u : u = recycle(t)
  OBVIOUS
<1> DEFINE bufs == Head(t.packets).bufs
           hdr == IF t.header_bufs < max_header_bufs THEN 1 ELSE 0
           room == max_payload_bufs - t.payload_bufs
<1>1. /\ Members(u)
      /\ u.workers = t.workers /\ u.by_id = t.by_id /\ u.by_node = t.by_node
      /\ u.by_timeout = t.by_timeout
      /\ u.packets = Tail(t.packets)
      /\ u.header_bufs = t.header_bufs + hdr
      /\ u.payload_bufs = t.payload_bufs + (IF bufs - hdr < room THEN bufs - hdr ELSE room)
  BY <1>0 DEF Members, recycle
<1>2. bufs \in 1 .. 2 /\ u.packets \in Seq(Packet)
  <2>1. t.packets \in Seq(Packet)
    BY DEF Transport
  <2>2. Head(t.packets) \in Packet /\ Tail(t.packets) \in Seq(Packet)
    BY <2>1, Rest
  <2> QED
    BY <1>1, <2>2 DEF Packet
<1>3. u.header_bufs \in 0 .. max_header_bufs
  BY <1>1, Limits DEF Transport
<1> HIDE DEF bufs
<1>4. u.payload_bufs \in 0 .. max_payload_bufs
  BY <1>1, <1>2, Limits DEF Transport
<1>5. Transport(u)
  BY <1>1, <1>2, <1>3, <1>4 DEF Transport
<1> QED
  BY <1>0, <1>1, <1>5 DEF OneLess

-----------------------------------------------------------------------------
(* What the operators do to the order of messages *)

(* Packets without messages change no order. *)
LEMMA QuietOrder ==
  ASSUME NEW t, NEW u, Transport(t), Transport(u), Quiet(t, u),
         NEW w, NEW ms, NEW n, Order(w, t, ms, n)
  PROVE  Order(w, u, ms, n)
<1>1. /\ DOMAIN t.packets = 1 .. Len(t.packets) /\ Len(t.packets) \in Nat
      /\ DOMAIN u.packets = 1 .. Len(u.packets) /\ Len(u.packets) \in Nat
      /\ \A i \in DOMAIN t.by_node : t.by_node[i] \in DOMAIN t.workers
  BY DEF Transport
<1>2. \A i \in DOMAIN u.packets :
        \/ i \in DOMAIN t.packets /\ u.packets[i] = t.packets[i]
        \/ i \notin DOMAIN t.packets /\ u.packets[i].msg = {}
  BY DEF Quiet, Grows
<1>3. \A p : Routed(p, t) => Routed(p, u)
  BY <1>1 DEF Routed, Quiet, Grows
<1>4. \A p, q : p.msg = {} \/ q.msg = {} => Ahead(p, q)
  BY DEF Ahead
<1>5. \A p : p.msg = {} => Routed(p, u)
  BY DEF Routed
<1> QED
  BY <1>2, <1>3, <1>4, <1>5 DEF Order

(* Adding nothing is quiet ... *)
LEMMA QuietSelf ==
  ASSUME NEW t, Transport(t)
  PROVE  Quiet(t, t)
<1>1. Len(t.packets) \in Nat /\ Len(t.workers) \in Nat
  BY DEF Transport
<1> QED
  BY <1>1 DEF Quiet, Grows

(* ... and quiet steps add up. *)
LEMMA QuietTwice ==
  ASSUME NEW t, NEW u, NEW x, Transport(t), Transport(u), Transport(x),
         Quiet(t, u), Quiet(u, x)
  PROVE  Quiet(t, x)
<1>1. /\ DOMAIN t.packets = 1 .. Len(t.packets) /\ Len(t.packets) \in Nat
      /\ DOMAIN u.packets = 1 .. Len(u.packets) /\ Len(u.packets) \in Nat
      /\ DOMAIN x.packets = 1 .. Len(x.packets) /\ Len(x.packets) \in Nat
      /\ DOMAIN t.workers = 1 .. Len(t.workers) /\ Len(t.workers) \in Nat
      /\ DOMAIN u.workers = 1 .. Len(u.workers) /\ Len(u.workers) \in Nat
      /\ DOMAIN x.workers = 1 .. Len(x.workers) /\ Len(x.workers) \in Nat
  <2>1. \A y : Transport(y) => y.packets \in Seq(Packet) /\ y.workers \in Seq(Ids)
    BY DEF Transport
  <2> QED
    BY <2>1
<1>2. DOMAIN t.packets \subseteq DOMAIN u.packets /\ DOMAIN t.workers \subseteq DOMAIN u.workers
  BY <1>1 DEF Quiet, Grows
<1>3. Len(t.workers) <= Len(x.workers) /\ Len(t.packets) <= Len(x.packets)
  BY <1>1 DEF Quiet, Grows
<1> QED
  BY <1>2, <1>3 DEF Quiet, Grows

(* A packet with no message is quiet. *)
LEMMA QuietPacket ==
  ASSUME NEW t, Transport(t), NEW u, NEW id, NEW bufs, OnePacket(t, u, id, {}, bufs)
  PROVE  Quiet(t, u)
<1> DEFINE p == [to |-> id, msg |-> {}, bufs |-> bufs]
<1>1. t.packets \in Seq(Packet) /\ u.packets = Append(t.packets, p) /\ Len(t.workers) \in Nat
  BY DEF Transport, OnePacket
<1>2. p.msg = {}
  OBVIOUS
<1> HIDE DEF p
<1>3. /\ DOMAIN u.packets = 1 .. Len(t.packets) + 1 /\ u.packets[Len(t.packets) + 1] = p
      /\ Len(u.packets) = Len(t.packets) + 1 /\ Len(t.packets) \in Nat
      /\ DOMAIN t.packets = 1 .. Len(t.packets)
      /\ \A i \in DOMAIN t.packets : u.packets[i] = t.packets[i]
  BY <1>1, Appending
<1>4. \A i \in DOMAIN u.packets : i \notin DOMAIN t.packets => i = Len(t.packets) + 1
  BY <1>3
<1> QED
  BY <1>1, <1>2, <1>3, <1>4 DEF Quiet, Grows, OnePacket

(* The next message of the queue becomes the last packet. *)
LEMMA PacketOrder ==
  ASSUME NEW t, Transport(t), NEW u, NEW w \in Seq(Packet), NEW ms \in Seq(Message), ms # <<>>,
         NEW n, Order(w, t, ms, n), Head(ms).node \in DOMAIN t.by_node,
         OnePacket(t, u, t.workers[t.by_node[Head(ms).node]], {Head(ms)}, 2)
  PROVE  Order(w, u, Tail(ms), n)
<1> DEFINE id == t.workers[t.by_node[Head(ms).node]]
           p == [to |-> id, msg |-> {Head(ms)}, bufs |-> 2]
<1>1. t.packets \in Seq(Packet) /\ u.packets = Append(t.packets, p)
  BY DEF Transport, OnePacket
<1>2. p.msg = {Head(ms)} /\ Routed(p, t)
  BY DEF Routed
<1> HIDE DEF p
<1>3. /\ DOMAIN u.packets = 1 .. Len(t.packets) + 1 /\ u.packets[Len(t.packets) + 1] = p
      /\ Len(t.packets) \in Nat
      /\ DOMAIN t.packets = 1 .. Len(t.packets)
      /\ \A i \in DOMAIN t.packets : u.packets[i] = t.packets[i]
  BY <1>1, Appending
<1>4. \A i \in DOMAIN u.packets :
        \/ i \in DOMAIN t.packets /\ u.packets[i] = t.packets[i]
        \/ i = Len(t.packets) + 1 /\ u.packets[i] = p
  BY <1>3
<1>5. \A i, j \in DOMAIN u.packets : i < j => i \in DOMAIN t.packets /\ u.packets[i] = t.packets[i]
  BY <1>3
<1>6. /\ Head(ms) = ms[1] /\ 1 \in DOMAIN ms
      /\ \A k \in DOMAIN Tail(ms) : k + 1 \in DOMAIN ms /\ Tail(ms)[k] = ms[k + 1] /\ k \in Nat \ {0}
  BY Rest
<1>7. \A q : Routed(q, t) => Routed(q, u)
  BY DEF Routed, OnePacket
<1>8. \A i \in DOMAIN w : Ahead(w[i], p)
  BY <1>2, <1>6 DEF Order, Ahead
<1>9. \A i \in DOMAIN t.packets : Ahead(t.packets[i], p)
  BY <1>2, <1>6 DEF Order, Ahead
<1>10. \A m \in p.msg : m.nr <= n /\ \A k \in DOMAIN Tail(ms) : m.nr < Tail(ms)[k].nr
  BY <1>2, <1>6 DEF Order
<1>11. \A i, j \in DOMAIN u.packets : i < j => Ahead(u.packets[i], u.packets[j])
  BY <1>4, <1>5, <1>9 DEF Order
<1>12. \A k, l \in DOMAIN Tail(ms) : k < l => Tail(ms)[k].nr < Tail(ms)[l].nr
  BY <1>6 DEF Order
<1>13. \A k \in DOMAIN Tail(ms) : \E l \in DOMAIN ms : Tail(ms)[k] = ms[l]
  BY <1>6
<1> QED
  BY <1>2, <1>4, <1>7, <1>8, <1>10, <1>11, <1>12, <1>13 DEF Order

(* The first packet is written. *)
LEMMA WrittenOrder ==
  ASSUME NEW t, Transport(t), t.packets # <<>>, NEW u, OneLess(t, u), NEW w \in Seq(Packet),
         NEW ms, NEW n, Order(w, t, ms, n)
  PROVE  /\ Order(w, u, ms, n)
         /\ Order(Append(w, Head(t.packets)), u, ms, n)
<1> DEFINE p == Head(t.packets)
           x == Append(w, p)
<1>1. t.packets \in Seq(Packet) /\ u.packets = Tail(t.packets)
  BY DEF Transport, OneLess
<1>2. /\ p = t.packets[1] /\ 1 \in DOMAIN t.packets
      /\ \A i \in DOMAIN u.packets :
           i + 1 \in DOMAIN t.packets /\ u.packets[i] = t.packets[i + 1] /\ i \in Nat \ {0}
  BY <1>1, Rest
<1>3. \A q : Routed(q, t) => Routed(q, u)
  BY DEF Routed, OneLess
<1>4. \A i, j \in DOMAIN u.packets : i < j => Ahead(u.packets[i], u.packets[j])
  BY <1>2 DEF Order
<1>5. \A i \in DOMAIN u.packets : Ahead(p, u.packets[i])
  BY <1>2 DEF Order
<1>6. \A i \in DOMAIN u.packets : \E j \in DOMAIN t.packets : u.packets[i] = t.packets[j]
  BY <1>2
<1>7. Order(w, u, ms, n)
  BY <1>3, <1>4, <1>6 DEF Order
<1> HIDE DEF p
<1>8. /\ DOMAIN x = 1 .. Len(w) + 1 /\ DOMAIN w = 1 .. Len(w) /\ Len(w) \in Nat
      /\ \A i \in DOMAIN w : x[i] = w[i]
      /\ x[Len(w) + 1] = p
  BY Appending
<1> HIDE DEF x
<1>9. \A i \in DOMAIN x : (i \in DOMAIN w /\ x[i] = w[i]) \/ (i = Len(w) + 1 /\ x[i] = p)
  BY <1>8
<1>10. \A i, j \in DOMAIN x : i < j => i \in DOMAIN w /\ x[i] = w[i]
  BY <1>8
<1>11. \A i \in DOMAIN w : Ahead(w[i], p)
  BY <1>2 DEF Order
<1>12. /\ Routed(p, u)
       /\ \A m \in p.msg : m.nr <= n /\ \A k \in DOMAIN ms : m.nr < ms[k].nr
  BY <1>2, <1>3 DEF Order
<1>13. \A i, j \in DOMAIN x : i < j => Ahead(x[i], x[j])
  BY <1>9, <1>10, <1>11 DEF Order
<1>14. Order(x, u, ms, n)
  BY <1>5, <1>7, <1>9, <1>12, <1>13 DEF Order
<1> QED
  BY <1>7, <1>14 DEF x, p

(* A message is enqueued, or an event is. *)
LEMMA PushOrder ==
  ASSUME NEW t, Transport(t), NEW w \in Seq(Packet), NEW ms \in Seq(Message), NEW n \in Nat,
         Order(w, t, ms, n), NEW m, m.nr = n + 1
  PROVE  Order(w, t, Append(ms, m), n + 1) /\ Order(w, t, ms, n + 1)
<1> DEFINE x == Append(ms, m)
<1>1. /\ DOMAIN x = 1 .. Len(ms) + 1 /\ DOMAIN ms = 1 .. Len(ms) /\ Len(ms) \in Nat
      /\ \A i \in DOMAIN ms : x[i] = ms[i]
      /\ x[Len(ms) + 1] = m
  BY Appending
<1> HIDE DEF x
<1>2. \A k \in DOMAIN x : (k \in DOMAIN ms /\ x[k] = ms[k]) \/ (k = Len(ms) + 1 /\ x[k] = m)
  BY <1>1
<1>3. \A k, l \in DOMAIN x : k < l => k \in DOMAIN ms /\ x[k] = ms[k]
  BY <1>1
<1>4. /\ \A i \in DOMAIN w : \A o \in w[i].msg : o.nr \in Int
      /\ \A i \in DOMAIN t.packets : \A o \in t.packets[i].msg : o.nr \in Int
      /\ \A k \in DOMAIN ms : ms[k].nr \in Int
  <2>1. \A s \in Seq(Packet) : \A i \in DOMAIN s : \A o \in s[i].msg : o.nr \in Int
    <3> TAKE s \in Seq(Packet)
    <3> TAKE i \in DOMAIN s
    <3> TAKE o \in s[i].msg
    <3>1. s[i] \in Packet
      OBVIOUS
    <3>2. o \in Message
      BY <3>1 DEF Packet
    <3> QED
      BY <3>2, Limits DEF Message
  <2>2. t.packets \in Seq(Packet)
    BY DEF Transport
  <2>3. \A k \in DOMAIN ms : ms[k].nr \in Int
    <3> TAKE k \in DOMAIN ms
    <3>1. ms[k] \in Message
      OBVIOUS
    <3> QED
      BY <3>1, Limits DEF Message
  <2> QED
    BY <2>1, <2>2, <2>3
<1>5. /\ \A i \in DOMAIN w : \A o \in w[i].msg : o.nr < n + 1 /\ o.nr <= n + 1
      /\ \A i \in DOMAIN t.packets : \A o \in t.packets[i].msg : o.nr < n + 1 /\ o.nr <= n + 1
      /\ \A k \in DOMAIN ms : ms[k].nr < n + 1 /\ ms[k].nr <= n + 1
  BY <1>4 DEF Order
<1>6. Order(w, t, ms, n + 1)
  BY <1>5 DEF Order
<1>7. \A k, l \in DOMAIN x : k < l => x[k].nr < x[l].nr
  BY <1>2, <1>3, <1>5 DEF Order
<1>8. \A k \in DOMAIN x : x[k].nr <= n + 1
  BY <1>2, <1>5
<1>9. Order(w, t, x, n + 1)
  BY <1>2, <1>5, <1>6, <1>7, <1>8 DEF Order
<1> QED
  BY <1>6, <1>9 DEF x

-----------------------------------------------------------------------------
(* The queue of the endpoint manager *)

(* What the operations do to a queue. *)
LEMMA QueueOps ==
  ASSUME NEW E, NEW M, NEW q \in Queue(E, M)
  PROVE  /\ \A e \in E : LET r == push_event(q, e)
                         IN  /\ r \in Queue(E, M) /\ r.events = Append(q.events, e)
                             /\ r.messages = q.messages /\ ~r.blocked
         /\ \A m \in M : LET r == push_message(q, m)
                         IN  /\ r \in Queue(E, M) /\ r.messages = Append(q.messages, m)
                             /\ r.events = q.events /\ ~r.blocked
         /\ LET r == take_events(q)
            IN  /\ r \in Queue(E, M) /\ r.events = <<>> /\ r.messages = q.messages
                /\ r.blocked = q.blocked
         /\ LET r == try_block(q)
            IN  /\ r \in Queue(E, M) /\ r.events = q.events /\ r.messages = q.messages
                /\ r.blocked <=> q.blocked \/ IsEmpty(q)
<1>1. q.events \in Seq(E) /\ q.messages \in Seq(M)
  BY DEF Queue
<1>2. ASSUME NEW e \in E
      PROVE  LET r == push_event(q, e)
             IN  /\ r \in Queue(E, M) /\ r.events = Append(q.events, e)
                 /\ r.messages = q.messages /\ ~r.blocked
  <2>1. Append(q.events, e) \in Seq(E)
    BY <1>1
  <2> QED
    BY <2>1 DEF Queue, push_event
<1>3. ASSUME NEW m \in M
      PROVE  LET r == push_message(q, m)
             IN  /\ r \in Queue(E, M) /\ r.messages = Append(q.messages, m)
                 /\ r.events = q.events /\ ~r.blocked
  <2>1. Append(q.messages, m) \in Seq(M)
    BY <1>1
  <2> QED
    BY <2>1 DEF Queue, push_message
<1>4. LET r == take_events(q)
      IN  /\ r \in Queue(E, M) /\ r.events = <<>> /\ r.messages = q.messages
          /\ r.blocked = q.blocked
  <2>1. \A x \in Seq(E) : LET r == [q EXCEPT !.events = x]
                        IN  /\ r \in Queue(E, M) /\ r.events = x
                            /\ r.messages = q.messages /\ r.blocked = q.blocked
    BY DEF Queue
  <2>2. <<>> \in Seq(E)
    OBVIOUS
  <2> QED
    BY <2>1, <2>2, Zenon DEF take_events
<1>5. LET r == try_block(q)
      IN  /\ r \in Queue(E, M) /\ r.events = q.events /\ r.messages = q.messages
          /\ r.blocked <=> q.blocked \/ IsEmpty(q)
  <2> DEFINE b == q.blocked \/ IsEmpty(q)
  <2>1. \A c \in BOOLEAN : LET r == [q EXCEPT !.blocked = c]
                         IN  /\ r \in Queue(E, M) /\ r.events = q.events
                             /\ r.messages = q.messages /\ r.blocked = c
    BY DEF Queue
  <2>2. b \in BOOLEAN /\ try_block(q) = [q EXCEPT !.blocked = b]
    BY DEF try_block
  <2> QED
    BY <2>1, <2>2, Zenon
<1> QED
  BY <1>2, <1>3, <1>4, <1>5, Zenon

(* next_message takes the first message; the mark goes into an empty queue.*)
LEMMA NextMessage ==
  ASSUME NEW E, NEW M, NEW q \in Queue(E, M), q.messages # <<>>
  PROVE  LET r == next_message(q)
         IN  /\ r \in Queue(E, M) /\ r.events = q.events /\ r.messages = Tail(q.messages)
             /\ r.blocked <=> q.blocked \/ (r.events = <<>> /\ r.messages = <<>>)
<1> DEFINE s == [q EXCEPT !.messages = Tail(@)]
<1>1. s \in Queue(E, M) /\ s.events = q.events /\ s.messages = Tail(q.messages)
      /\ s.blocked = q.blocked
  <2>1. Tail(q.messages) \in Seq(M)
    BY Rest DEF Queue
  <2> QED
    BY <2>1 DEF Queue
<1> HIDE DEF s
<1>2. next_message(q) = try_block(s)
  BY DEF next_message, s
<1> QED
  BY <1>1, <1>2, QueueOps DEF IsEmpty

-----------------------------------------------------------------------------
(* Steps that change the transport *)

(* Whoever adds the first packet registers the manager. *)
LEMMA Registers ==
  ASSUME DgInv, NEW t
  PROVE  /\ Registered(t) \in BOOLEAN /\ (writing => Registered(t)) /\ (torn => ~Registered(t))
         /\ t.packets # <<>> => Registered(t) \/ torn \/ broken
<1>1. /\ writing \in BOOLEAN /\ (tp.packets # <<>> => writing \/ torn \/ broken)
      /\ torn => ~writing
  BY DEF DgInv, TypeOK, Awake, Settled
<1> QED
  BY <1>1, Zenon DEF Registered

(* A worker writes to its endpoint. *)
LEMMA WorkerPacket ==
  ASSUME NEW t, Members(t), Transport(t), NEW w \in DOMAIN t.workers, NEW msg \in SUBSET Message,
         NEW bufs \in 1 .. 2
  PROVE  OnePacket(t, WorkerWrites(t, w, msg, bufs), t.workers[w], msg, bufs)
<1>1. t.workers[w] \in Ids
  BY DEF Transport
<1> QED
  BY <1>1, Writes DEF WorkerWrites

(* ... and if it writes no message, this is quiet. *)
LEMMA WorkerQuiet ==
  ASSUME NEW t, Members(t), Transport(t), NEW w \in DOMAIN t.workers, NEW bufs \in 1 .. 2
  PROVE  LET u == WorkerWrites(t, w, {}, bufs)
         IN  /\ Members(u) /\ Transport(u) /\ Quiet(t, u) /\ u.by_timeout = t.by_timeout
<1> DEFINE u == WorkerWrites(t, w, {}, bufs)
<1>1. {} \in SUBSET Message
  OBVIOUS
<1>2. OnePacket(t, u, t.workers[w], {}, bufs)
  BY <1>1, WorkerPacket
<1>3. Quiet(t, u)
  BY <1>2, QuietPacket
<1> QED
  BY <1>2, <1>3 DEF OnePacket

(* What a step that adds quiet packets at most has to show. *)
LEMMA QuietStep ==
  ASSUME DgInv, NEW t, Members(t), Transport(t), Quiet(tp, t), tp' = t, RegisterFor(t),
         torn' = torn, broken' = broken, written' = written, queue' = queue, pushes' = pushes,
         waking' = waking
  PROVE  /\ Members(tp)' /\ Transport(tp)' /\ writing' \in BOOLEAN
         /\ (writing => writing') /\ (torn => ~writing') /\ Awake'
         /\ Order(written, tp, queue.messages, pushes)'
<1>1. /\ writing' \in BOOLEAN /\ (writing => writing') /\ (torn => ~writing')
      /\ t.packets # <<>> => writing' \/ torn \/ broken
  BY Registers DEF RegisterFor
<1>2. Order(written, t, queue.messages, pushes)
  BY QuietOrder DEF DgInv, TypeOK
<1>3. Awake'
  BY <1>1 DEF DgInv, Awake, IsEmpty
<1> QED
  BY <1>1, <1>2, <1>3

(* ... and what a read event that fails has to show: what it registered is *)
(* lost unless the manager was polled for writing before.                  *)
LEMMA GivesUpStep ==
  ASSUME DgInv, phase = "read", NEW t, Members(t), Transport(t), Quiet(tp, t), tp' = t, GivesUp(t),
         broken' = broken, written' = written, queue' = queue, pushes' = pushes,
         waking' = waking
  PROVE  /\ Members(tp)' /\ Transport(tp)' /\ writing' \in BOOLEAN /\ reading' = FALSE
         /\ torn' \in BOOLEAN /\ pollout' = FALSE /\ phase' = "idle" /\ reads' = 0
         /\ Awake' /\ Settled' /\ Phases'
         /\ Order(written, tp, queue.messages, pushes)'
<1>1. /\ Registered(t) \in BOOLEAN /\ (writing => Registered(t))
      /\ t.packets # <<>> => Registered(t) \/ torn \/ broken
  BY Registers
<1>2. pollout \in BOOLEAN /\ torn \in BOOLEAN /\ ~torn
  BY DEF DgInv, TypeOK, Settled
<1>3. /\ reading' = FALSE /\ phase' = "idle" /\ reads' = 0 /\ pollout' = FALSE
      /\ writing' = pollout /\ torn' = (torn \/ (Registered(t) /\ ~pollout))
  BY DEF GivesUp
<1>4. /\ writing' \in BOOLEAN /\ torn' \in BOOLEAN /\ (torn' => ~writing')
      /\ (Registered(t) => writing' \/ torn')
  BY <1>1, <1>2, <1>3, Zenon
<1>5. Order(written, t, queue.messages, pushes)
  BY QuietOrder DEF DgInv, TypeOK
<1>6. Awake'
  <2>1. /\ queue.blocked => IsEmpty(queue)
        /\ ~queue.blocked => writing \/ torn \/ waking > 0
    BY DEF DgInv, Awake
  <2>2. ~queue'.blocked => writing' \/ torn' \/ waking' > 0
    BY <1>1, <1>2, <1>4, <2>1, Zenon
  <2>3. tp'.packets # <<>> => writing' \/ torn' \/ broken'
    BY <1>1, <1>2, <1>4, Zenon
  <2> QED
    BY <2>1, <2>2, <2>3 DEF Awake, IsEmpty
<1>7. Settled' /\ Phases'
  BY <1>3, <1>4 DEF Settled, Phases, InWriteEvent
<1> QED
  BY <1>3, <1>4, <1>5, <1>6, <1>7

-----------------------------------------------------------------------------
(* One lemma per action *)

(* A push wakes the manager if its queue was blocked. *)
LEMMA PushStep ==
  ASSUME DgInv, NEW q, Push(q), ~q.blocked, writing' = writing, torn' = torn, broken' = broken,
         tp' = tp
  PROVE  Awake' /\ waking' \in Nat /\ queue' = q
<1>1. waking \in Nat /\ waking' = (IF queue.blocked THEN waking + 1 ELSE waking) /\ queue' = q
  BY DEF DgInv, TypeOK, Push
<1>2. waking' \in Nat /\ (writing' \/ torn' \/ waking' > 0)
  BY <1>1 DEF DgInv, Awake
<1> QED
  BY <1>1, <1>2 DEF DgInv, Awake

(* PushMessage: the number of the message is the highest. *)
LEMMA PushMessageInv ==
  ASSUME DgInv, NEW n \in Nodes, PushMessage(n)
  PROVE  DgInv'
<1> DEFINE m == [node |-> n, nr |-> pushes + 1]
           q == push_message(queue, m)
<1>1. m \in Message /\ m.nr = pushes + 1 /\ pushes \in Nat /\ pushes' \in 0 .. MaxPushes
  BY Limits DEF Message, PushMessage, DgInv, TypeOK
<1>2. Push(q) /\ queue \in Queue(Event, Message)
  BY DEF PushMessage, DgInv, TypeOK
<1> HIDE DEF m
<1>3. /\ q \in Queue(Event, Message) /\ q.messages = Append(queue.messages, m)
      /\ q.events = queue.events /\ ~q.blocked
  BY <1>1, <1>2, QueueOps
<1> HIDE DEF q
<1>4. Awake' /\ waking' \in Nat /\ queue' = q
  BY <1>2, <1>3, PushStep DEF PushMessage
<1>5. Order(written, tp, Append(queue.messages, m), pushes + 1)
  <2>1. queue.messages \in Seq(Message) /\ written \in Seq(Packet) /\ Transport(tp)
    BY DEF DgInv, TypeOK, Queue
  <2> QED
    BY <1>1, <2>1, PushOrder DEF DgInv
<1>6. Order(written, tp, queue.messages, pushes)'
  BY <1>3, <1>4, <1>5 DEF PushMessage
<1>7. TypeOK' /\ Members(tp)'
  BY <1>1, <1>3, <1>4 DEF DgInv, TypeOK, PushMessage, Transport
<1>8. Phases' /\ Settled' /\ Timeouts'
  BY <1>3, <1>4 DEF DgInv, Phases, Settled, Timeouts, Fired, InWriteEvent, PushMessage
<1> QED
  BY <1>4, <1>6, <1>7, <1>8 DEF DgInv

(* An event that is no live timeout may join a queue. *)
LEMMA FiredAppend ==
  ASSUME NEW s \in Seq(Event), Fired(s), NEW e, NEW a, a \subseteq armed,
         e.is = "timeout" => e.nr \notin a /\ e.nr <= arrived
  PROVE  LET x == Append(s, e)
         IN  \A i \in DOMAIN x : x[i].is = "timeout" => x[i].nr \notin a /\ x[i].nr <= arrived
<1> DEFINE x == Append(s, e)
<1>1. /\ DOMAIN x = 1 .. Len(s) + 1 /\ DOMAIN s = 1 .. Len(s) /\ Len(s) \in Nat
      /\ \A i \in DOMAIN s : x[i] = s[i]
      /\ x[Len(s) + 1] = e
  BY Appending
<1> HIDE DEF x
<1>2. \A i \in DOMAIN x : (i \in DOMAIN s /\ x[i] = s[i]) \/ x[i] = e
  BY <1>1
<1> QED
  BY <1>2 DEF Fired, x

(* Pushing an event, by a thread or by the clock. *)
LEMMA PushEventStep ==
  ASSUME DgInv, NEW e \in Event, Push(push_event(queue, e)), armed' \subseteq armed,
         e.is = "timeout" => e.nr \notin armed' /\ e.nr <= arrived,
         pushes' \in 0 .. MaxPushes, pushes' = pushes \/ pushes' = pushes + 1,
         UNCHANGED <<writing, reading, pollout, torn, phase, todo, reads, arrived, tp, broken, written>>
  PROVE  DgInv'
<1> DEFINE q == push_event(queue, e)
<1>1. queue \in Queue(Event, Message) /\ pushes \in Nat
  BY DEF DgInv, TypeOK
<1>2. /\ q \in Queue(Event, Message) /\ q.events = Append(queue.events, e)
      /\ q.messages = queue.messages /\ ~q.blocked
  BY <1>1, QueueOps
<1> HIDE DEF q
<1>3. Awake' /\ waking' \in Nat /\ queue' = q
  BY <1>2, PushStep DEF q
<1>4. Order(written, tp, queue.messages, pushes)'
  <2>1. /\ queue.messages \in Seq(Message) /\ written \in Seq(Packet) /\ Transport(tp)
        /\ Order(written, tp, queue.messages, pushes)
    BY DEF DgInv, TypeOK, Queue
  <2>2. PICK m : m.nr = pushes + 1
    <3>1. [nr |-> pushes + 1].nr = pushes + 1
      OBVIOUS
    <3> QED
      BY <3>1, Zenon
  <2>3. Order(written, tp, queue.messages, pushes + 1)
    BY <1>1, <2>1, <2>2, PushOrder
  <2> QED
    BY <1>2, <1>3, <2>1, <2>3
<1>5. TypeOK' /\ Members(tp)'
  BY <1>1, <1>2, <1>3 DEF DgInv, TypeOK, Transport
<1>6. Fired(queue.events)'
  <2>1. queue.events \in Seq(Event) /\ Fired(queue.events)
    BY <1>1 DEF Queue, DgInv, Timeouts
  <2>2. LET x == Append(queue.events, e)
        IN  \A i \in DOMAIN x : x[i].is = "timeout" => x[i].nr \notin armed' /\ x[i].nr <= arrived
    BY <2>1, FiredAppend
  <2> QED
    BY <1>2, <1>3, <2>2 DEF Fired
<1>7. Phases' /\ Settled' /\ Timeouts'
  BY <1>3, <1>6 DEF DgInv, Phases, Settled, Timeouts, Fired, InWriteEvent
<1> QED
  BY <1>3, <1>4, <1>5, <1>7 DEF DgInv

(* enqueue of an event. *)
LEMMA PushEventInv ==
  ASSUME DgInv, NEW n \in Nodes, NEW k \in {"resolve", "new_proxy", "local_actor_down"},
         PushEvent(k, n)
  PROVE  DgInv'
<1> DEFINE e == [is |-> k, node |-> n]
<1>1. e \in Event /\ e.is # "timeout"
  BY DEF Event
<1>2. pushes' \in 0 .. MaxPushes /\ pushes' = pushes + 1
  BY Limits DEF PushEvent, DgInv, TypeOK
<1>3. Push(push_event(queue, e)) /\ armed' = armed
      /\ UNCHANGED <<writing, reading, pollout, torn, phase, todo, reads, arrived, tp, broken, written>>
  BY DEF PushEvent
<1> HIDE DEF e
<1> QED
  BY <1>1, <1>2, <1>3, PushEventStep

(* A timeout expires. *)
LEMMA ExpireInv ==
  ASSUME DgInv, NEW i \in armed, Expire(i)
  PROVE  DgInv'
<1> DEFINE e == [is |-> "timeout", nr |-> i]
<1>1. i \in 1 .. MaxDatagrams /\ i <= arrived /\ pushes \in 0 .. MaxPushes
  BY DEF DgInv, TypeOK, Transport, Timeouts
<1>2. e \in Event /\ e.nr = i
  BY <1>1 DEF Event
<1>3. Push(push_event(queue, e)) /\ armed' = armed \ {i} /\ pushes' = pushes
      /\ UNCHANGED <<writing, reading, pollout, torn, phase, todo, reads, arrived, tp, broken, written>>
  BY DEF Expire
<1> HIDE DEF e
<1> QED
  BY <1>1, <1>2, <1>3, PushEventStep

(* The manager is registered for writing. *)
LEMMA WakeInv ==
  ASSUME DgInv, Wake
  PROVE  DgInv'
<1>1. /\ waking' \in Nat /\ writing' = ~torn /\ writing' \in BOOLEAN
      /\ UNCHANGED <<queue, tp, broken, phase, torn, reading>>
  BY DEF DgInv, TypeOK, Wake
<1>2. TypeOK' /\ Members(tp)'
  BY <1>1 DEF DgInv, TypeOK, Wake, Transport
<1>3. Awake'
  BY <1>1 DEF DgInv, Awake, IsEmpty
<1>4. Settled'
  BY <1>1, Zenon DEF DgInv, Settled
<1>5. phase = "idle" /\ UNCHANGED <<todo, armed, arrived, pushes, written>>
  BY DEF Wake
<1>6. Phases' /\ Timeouts'
  BY <1>1, <1>5 DEF DgInv, Phases, Timeouts, Fired, InWriteEvent
<1> QED
  BY <1>1, <1>2, <1>3, <1>4, <1>5, <1>6 DEF DgInv

(* A worker for a new peer. *)
LEMMA AddWorkerInv ==
  ASSUME DgInv, NEW n \in Nodes, NEW ep \in Endpoints, AddWorker(n, ep)
  PROVE  DgInv'
<1>1. PICK t : t = add_new_worker(tp, n, ep)
  OBVIOUS
<1>2. tp' = t /\ RegisterFor(t)
  BY <1>1 DEF AddWorker
<1>3. OneWorker(tp, t, n, ep)
  BY <1>1, AddsWorker DEF DgInv, TypeOK, NodeIds, Ids
<1>4. Members(t) /\ Transport(t) /\ Quiet(tp, t) /\ t.by_timeout = tp.by_timeout
  BY <1>3 DEF OneWorker
<1>5. /\ Members(tp)' /\ Transport(tp)' /\ writing' \in BOOLEAN
      /\ (writing => writing') /\ (torn => ~writing') /\ Awake'
      /\ Order(written, tp, queue.messages, pushes)'
  BY <1>2, <1>4, QuietStep DEF AddWorker
<1>6. armed' \subseteq DOMAIN tp'.by_timeout
  BY <1>2, <1>4 DEF AddWorker, DgInv, TypeOK
<1>7. TypeOK'
  BY <1>5, <1>6 DEF AddWorker, DgInv, TypeOK
<1>8. Phases' /\ Settled' /\ Timeouts'
  BY <1>5 DEF DgInv, Phases, Settled, Timeouts, Fired, InWriteEvent, AddWorker
<1> QED
  BY <1>5, <1>7, <1>8 DEF DgInv

(* A read event starts ... *)
LEMMA ReadEventInv ==
  ASSUME DgInv, ReadEvent
  PROVE  DgInv'
<1>1. TypeOK' /\ Members(tp)'
  BY DEF DgInv, TypeOK, ReadEvent, Transport
<1>2. Awake' /\ Phases' /\ Settled' /\ Timeouts'
  BY DEF DgInv, Awake, Phases, Settled, Timeouts, Fired, InWriteEvent, ReadEvent, IsEmpty
<1> QED
  BY <1>1, <1>2 DEF DgInv, ReadEvent

(* A datagram arrives, and its handler may set a timeout with a new number.*)
LEMMA LaterTimeouts ==
  ASSUME DgInv, arrived' = arrived + 1, armed' \subseteq armed \cup {arrived + 1},
         queue' = queue, todo' = todo
  PROVE  Timeouts'
<1>1. arrived \in Nat /\ queue.events \in Seq(Event) /\ todo \in Seq(Event)
  BY Limits DEF DgInv, TypeOK, Queue
<1>2. ASSUME NEW s \in Seq(Event), Fired(s), NEW i \in DOMAIN s, s[i].is = "timeout"
      PROVE  s[i].nr \notin armed' /\ s[i].nr <= arrived'
  <2>1. s[i] \in Event
    OBVIOUS
  <2>2. s[i].nr \in Nat
    BY <1>2, <2>1, Limits DEF Event
  <2>3. s[i].nr \notin armed /\ s[i].nr <= arrived
    BY <1>2 DEF Fired
  <2> QED
    BY <1>1, <2>2, <2>3
<1>3. Fired(queue.events)' /\ Fired(todo)'
  BY <1>1, <1>2 DEF Fired, DgInv, Timeouts
<1>4. \A i \in armed : i \in Nat /\ i <= arrived
  BY DEF DgInv, TypeOK, Transport, Timeouts
<1>5. \A i \in armed' : i <= arrived'
  BY <1>1, <1>4
<1> QED
  BY <1>3, <1>5 DEF Timeouts

(* ... a datagram from a peer for which no worker starts ... *)
LEMMA ReceiveUnservedInv ==
  ASSUME DgInv, NEW id \in Endpoints, ReceiveUnserved(id)
  PROVE  DgInv'
<1>1. /\ arrived \in Nat /\ arrived' = arrived + 1 /\ arrived' \in 0 .. MaxDatagrams
      /\ armed' = armed /\ 0 \in 0 .. max_consecutive_reads
  BY Limits DEF DgInv, TypeOK, ReceiveUnserved
<1>2. /\ phase = "read" /\ GivesUp(tp)
      /\ UNCHANGED <<queue, pushes, waking, todo, tp, broken, written>>
  BY DEF ReceiveUnserved
<1>3. Members(tp) /\ Transport(tp) /\ Quiet(tp, tp)
  BY QuietSelf DEF DgInv, TypeOK
<1>4. /\ Members(tp)' /\ Transport(tp)' /\ writing' \in BOOLEAN /\ reading' = FALSE
      /\ torn' \in BOOLEAN /\ pollout' = FALSE /\ phase' = "idle" /\ reads' = 0
      /\ Awake' /\ Settled' /\ Phases'
      /\ Order(written, tp, queue.messages, pushes)'
  BY <1>2, <1>3, GivesUpStep
<1>5. TypeOK'
  BY <1>1, <1>2, <1>4 DEF DgInv, TypeOK
<1>6. Timeouts'
  BY <1>1, <1>2, LaterTimeouts
<1> QED
  BY <1>4, <1>5, <1>6 DEF DgInv

(* A datagram finds or creates the worker of its endpoint. *)
LEMMA ServingQuiet ==
  ASSUME DgInv, NEW id \in Endpoints, NEW t, t = Serving(id)
  PROVE  /\ Members(t) /\ Transport(t) /\ Quiet(tp, t) /\ t.by_timeout = tp.by_timeout
         /\ id \in DOMAIN t.by_id
<1>1. Members(tp) /\ Transport(tp) /\ NoNode \in NodeIds /\ id \in Ids
  BY DEF DgInv, TypeOK, NodeIds, Ids
<1>2. CASE id \in DOMAIN tp.by_id
  BY <1>1, <1>2, QuietSelf DEF Serving
<1>3. CASE id \notin DOMAIN tp.by_id
  <2>1. t = add_new_worker(tp, NoNode, id)
    BY <1>3 DEF Serving
  <2>2. OneWorker(tp, t, NoNode, id)
    BY <1>1, <2>1, AddsWorker
  <2> QED
    BY <2>2 DEF OneWorker
<1> QED
  BY <1>2, <1>3

(* A timeout gets a number, or loses it. *)
LEMMA TimeoutQuiet ==
  ASSUME NEW t, Members(t), Transport(t), NEW u, NEW f, u = [t EXCEPT !.by_timeout = f],
         DOMAIN f \subseteq 1 .. MaxDatagrams, \A i \in DOMAIN f : f[i] \in DOMAIN t.workers
  PROVE  Members(u) /\ Transport(u) /\ Quiet(t, u) /\ u.by_timeout = f
<1>1. /\ Members(u) /\ u.by_timeout = f
      /\ u.workers = t.workers /\ u.by_id = t.by_id /\ u.by_node = t.by_node
      /\ u.packets = t.packets
      /\ u.header_bufs = t.header_bufs /\ u.payload_bufs = t.payload_bufs
  BY DEF Members
<1>2. Transport(u)
  BY <1>1 DEF Transport
<1>3. Quiet(t, t)
  BY QuietSelf
<1>4. Quiet(t, u)
  BY <1>1, <1>3 DEF Quiet, Grows
<1> QED
  BY <1>1, <1>2, <1>4

(* ... a datagram for a worker ... *)
LEMMA ReceiveInv ==
  ASSUME DgInv, NEW id \in Endpoints, NEW d \in {"nothing", "answer", "set_timeout", "fail"},
         Receive(id, d)
  PROVE  DgInv'
<1>1. PICK t : t = Serving(id)
  OBVIOUS
<1>2. /\ Members(t) /\ Transport(t) /\ Quiet(tp, t) /\ t.by_timeout = tp.by_timeout
      /\ id \in DOMAIN t.by_id
  BY <1>1, ServingQuiet
<1>3. PICK w : w = t.by_id[id]
  OBVIOUS
<1>4. w \in DOMAIN t.workers
  BY <1>2, <1>3 DEF Transport
<1>5. PICK u : u = CASE d = "answer" -> WorkerWrites(t, w, {}, 2)
                     [] d = "set_timeout" -> [t EXCEPT !.by_timeout = emplace(@, arrived + 1, w)]
                     [] OTHER -> t
  OBVIOUS
<1>6. /\ tp' = u /\ phase = "read"
      /\ IF d = "fail" THEN GivesUp(u)
         ELSE /\ RegisterFor(u) /\ reads' = reads + 1
              /\ UNCHANGED <<reading, phase, pollout, torn>>
  BY <1>1, <1>3, <1>5, Zenon DEF Receive
<1>7. /\ arrived \in Nat /\ arrived' = arrived + 1 /\ arrived' \in 0 .. MaxDatagrams
      /\ reads + 1 \in 0 .. max_consecutive_reads /\ 0 \in 0 .. max_consecutive_reads
      /\ armed' \subseteq armed \cup {arrived + 1} /\ (d # "set_timeout" => armed' = armed)
  <2>1. /\ phase = "read" /\ reads < max_consecutive_reads /\ arrived < MaxDatagrams
        /\ arrived' = arrived + 1
        /\ armed' = IF d = "set_timeout" THEN armed \cup {arrived + 1} ELSE armed
    BY Zenon DEF Receive
  <2>2. arrived \in 0 .. MaxDatagrams /\ reads \in 0 .. max_consecutive_reads
    BY DEF DgInv, TypeOK
  <2>3. /\ arrived \in Nat /\ arrived' \in 0 .. MaxDatagrams
        /\ reads + 1 \in 0 .. max_consecutive_reads /\ 0 \in 0 .. max_consecutive_reads
    BY <2>1, <2>2, Limits
  <2> QED
    BY <2>1, <2>3
<1>8. /\ Members(u) /\ Transport(u) /\ Quiet(t, u)
      /\ armed' \subseteq DOMAIN u.by_timeout
  <2>1. armed \subseteq DOMAIN t.by_timeout
    BY <1>2 DEF DgInv, TypeOK
  <2>2. CASE d = "answer"
    <3>1. u = WorkerWrites(t, w, {}, 2) /\ 2 \in 1 .. 2
      <4>1. u = WorkerWrites(t, w, {}, 2)
        BY <1>5, <2>2, Zenon
      <4> QED
        BY <4>1
    <3>2. Members(u) /\ Transport(u) /\ Quiet(t, u) /\ u.by_timeout = t.by_timeout
      BY <1>2, <1>4, <3>1, WorkerQuiet
    <3> QED
      BY <1>7, <2>1, <2>2, <3>2
  <2>3. CASE d = "set_timeout"
    <3>1. PICK f : f = emplace(t.by_timeout, arrived + 1, w)
      OBVIOUS
    <3>2. u = [t EXCEPT !.by_timeout = f]
      BY <1>5, <2>3, <3>1
    <3>3. /\ DOMAIN f = DOMAIN t.by_timeout \cup {arrived + 1}
          /\ \A i \in DOMAIN f : f[i] = (IF i \in DOMAIN t.by_timeout THEN t.by_timeout[i] ELSE w)
      BY <3>1 DEF emplace
    <3>4. /\ DOMAIN f \subseteq 1 .. MaxDatagrams
          /\ \A i \in DOMAIN f : f[i] \in DOMAIN t.workers
      BY <1>2, <1>4, <1>7, <3>3 DEF Transport
    <3>5. Members(u) /\ Transport(u) /\ Quiet(t, u) /\ u.by_timeout = f
      BY <1>2, <3>2, <3>4, TimeoutQuiet
    <3> QED
      BY <1>7, <2>1, <3>3, <3>5
  <2>4. CASE d \in {"nothing", "fail"}
    <3>1. u = t
      BY <1>5, <2>4
    <3> QED
      BY <1>2, <1>7, <2>1, <2>4, <3>1, QuietSelf
  <2> QED
    BY <2>2, <2>3, <2>4
<1>9. Quiet(tp, u)
  BY <1>2, <1>8, QuietTwice DEF DgInv, TypeOK
<1>10. UNCHANGED <<queue, pushes, waking, todo, broken, written>>
  BY DEF Receive
<1>11. /\ Members(tp)' /\ Transport(tp)' /\ Order(written, tp, queue.messages, pushes)'
       /\ writing' \in BOOLEAN /\ reading' \in BOOLEAN /\ torn' \in BOOLEAN /\ pollout' \in BOOLEAN
       /\ phase' \in {"idle", "read"} /\ reads' \in 0 .. max_consecutive_reads
       /\ Awake' /\ Settled' /\ Phases'
  <2>1. CASE d = "fail"
    <3>1. GivesUp(u)
      BY <1>6, <2>1
    <3>2. /\ Members(tp)' /\ Transport(tp)' /\ writing' \in BOOLEAN /\ reading' = FALSE
          /\ torn' \in BOOLEAN /\ pollout' = FALSE /\ phase' = "idle" /\ reads' = 0
          /\ Awake' /\ Settled' /\ Phases'
          /\ Order(written, tp, queue.messages, pushes)'
      BY <1>6, <1>8, <1>9, <1>10, <3>1, GivesUpStep
    <3> QED
      BY <1>7, <3>2
  <2>2. CASE d # "fail"
    <3>1. RegisterFor(u) /\ reads' = reads + 1 /\ UNCHANGED <<reading, phase, pollout, torn>>
      BY <1>6, <2>2
    <3>2. /\ Members(tp)' /\ Transport(tp)' /\ writing' \in BOOLEAN
          /\ (writing => writing') /\ (torn => ~writing') /\ Awake'
          /\ Order(written, tp, queue.messages, pushes)'
      BY <1>6, <1>8, <1>9, <1>10, <3>1, QuietStep
    <3>3. reading \in BOOLEAN /\ pollout \in BOOLEAN /\ torn \in BOOLEAN /\ ~torn
      BY <1>6 DEF DgInv, TypeOK, Settled
    <3>4. Settled' /\ Phases'
      BY <1>6, <3>1, <3>3 DEF Settled, Phases, InWriteEvent
    <3> QED
      BY <1>6, <1>7, <3>1, <3>2, <3>3, <3>4
  <2> QED
    BY <2>1, <2>2
<1>12. armed' \subseteq DOMAIN tp'.by_timeout
  BY <1>6, <1>8
<1>13. TypeOK'
  BY <1>7, <1>10, <1>11, <1>12 DEF DgInv, TypeOK
<1>14. Timeouts'
  BY <1>7, <1>10, LaterTimeouts
<1> QED
  BY <1>11, <1>13, <1>14 DEF DgInv

(* ... and the event ends. *)
LEMMA ReadEndsInv ==
  ASSUME DgInv, NEW err, ReadEnds(err)
  PROVE  DgInv'
<1>1. /\ phase = "read" /\ 0 \in 0 .. max_consecutive_reads
      /\ UNCHANGED <<queue, pushes, waking, todo, arrived, tp, armed, broken, written>>
  BY Limits DEF ReadEnds
<1>2. CASE GivesUp(tp)
  <2>1. Members(tp) /\ Transport(tp) /\ Quiet(tp, tp)
    BY QuietSelf DEF DgInv, TypeOK
  <2>2. /\ Members(tp)' /\ Transport(tp)' /\ writing' \in BOOLEAN /\ reading' = FALSE
        /\ torn' \in BOOLEAN /\ pollout' = FALSE /\ phase' = "idle" /\ reads' = 0
        /\ Awake' /\ Settled' /\ Phases'
        /\ Order(written, tp, queue.messages, pushes)'
    BY <1>1, <1>2, <2>1, GivesUpStep
  <2>3. TypeOK' /\ Timeouts'
    BY <1>1, <2>2 DEF DgInv, TypeOK, Timeouts, Fired
  <2> QED
    BY <2>2, <2>3 DEF DgInv
<1>3. CASE phase' = "idle" /\ reads' = 0 /\ pollout' = FALSE /\ UNCHANGED <<writing, reading, torn>>
  <2>1. TypeOK' /\ Members(tp)'
    BY <1>1, <1>3 DEF DgInv, TypeOK, Transport
  <2>2. Awake' /\ Phases' /\ Settled' /\ Timeouts'
    BY <1>1, <1>3 DEF DgInv, Awake, Phases, Settled, Timeouts, Fired, InWriteEvent, IsEmpty
  <2> QED
    BY <1>1, <2>1, <2>2 DEF DgInv
<1> QED
  BY <1>2, <1>3 DEF ReadEnds

-----------------------------------------------------------------------------
(* Write events *)

(* A write event starts ... *)
LEMMA WriteEventInv ==
  ASSUME DgInv, WriteEvent
  PROVE  DgInv'
<1>1. queue \in Queue(Event, Message) /\ queue.events \in Seq(Event) /\ todo \in Seq(Event)
  BY DEF DgInv, TypeOK, Queue
<1>2. \/ queue' = queue /\ todo' = todo /\ phase' = "write"
      \/ ~queue.blocked /\ queue' = take_events(queue) /\ todo' = queue.events /\ phase' = "events"
  BY DEF WriteEvent
<1>3. /\ queue' \in Queue(Event, Message) /\ queue'.messages = queue.messages
      /\ (queue' = queue \/ ~queue'.blocked) /\ (~queue'.blocked => ~queue.blocked)
      /\ todo' \in Seq(Event) /\ phase' \in {"write", "events"}
  BY <1>1, <1>2, QueueOps
<1>4. TypeOK' /\ Members(tp)'
  BY <1>3 DEF DgInv, TypeOK, WriteEvent, Transport
<1>5. Awake' /\ Phases' /\ Settled'
  BY <1>3 DEF DgInv, Awake, Phases, Settled, InWriteEvent, WriteEvent, IsEmpty
<1>6. Timeouts'
  <2>1. Fired(queue.events) /\ Fired(todo) /\ armed' = armed /\ arrived' = arrived
    BY DEF DgInv, Timeouts, WriteEvent
  <2>2. queue' = queue \/ queue'.events = <<>>
    BY <1>1, <1>2, QueueOps
  <2>3. Fired(queue.events)'
    BY <2>1, <2>2 DEF Fired
  <2>4. Fired(todo)'
    BY <1>2, <2>1 DEF Fired
  <2> QED
    BY <2>1, <2>3, <2>4 DEF DgInv, Timeouts
<1> QED
  BY <1>3, <1>4, <1>5, <1>6 DEF DgInv, WriteEvent

(* An event makes a worker write no message, or removes a timeout. *)
LEMMA DispatchQuiet ==
  ASSUME NEW t, Members(t), Transport(t), NEW e \in Event, NEW u, u = DispatchEvent(t, e)
  PROVE  /\ Members(u) /\ Transport(u) /\ Quiet(t, u)
         /\ \A i \in DOMAIN t.by_timeout :
              i \in DOMAIN u.by_timeout \/ (e.is = "timeout" /\ e.nr = i)
<1>1. CASE e.is = "timeout"
  <2>1. PICK f : f = [i \in DOMAIN t.by_timeout \ {e.nr} |-> t.by_timeout[i]]
    OBVIOUS
  <2>2. u = [t EXCEPT !.by_timeout = f]
    BY <1>1, <2>1 DEF DispatchEvent
  <2>3. /\ DOMAIN f \subseteq 1 .. MaxDatagrams
        /\ \A i \in DOMAIN f : f[i] \in DOMAIN t.workers
    BY <2>1 DEF Transport
  <2>4. Members(u) /\ Transport(u) /\ Quiet(t, u) /\ u.by_timeout = f
    BY <2>2, <2>3, TimeoutQuiet
  <2> QED
    BY <1>1, <2>1, <2>4
<1>2. CASE e.is # "timeout" /\ e.node \in DOMAIN t.by_node
  <2>1. PICK b \in 1 .. 2 : b = IF e.is = "new_proxy" THEN 1 ELSE 2
    OBVIOUS
  <2>2. PICK w \in DOMAIN t.workers : w = t.by_node[e.node]
    BY <1>2 DEF Transport
  <2>3. u = WorkerWrites(t, w, {}, b)
    BY <1>2, <2>1, <2>2 DEF DispatchEvent
  <2> QED
    BY <2>3, WorkerQuiet
<1>3. CASE e.is # "timeout" /\ e.node \notin DOMAIN t.by_node
  <2>1. u = t
    BY <1>3 DEF DispatchEvent
  <2> QED
    BY <2>1, QuietSelf
<1> QED
  BY <1>1, <1>2, <1>3

(* ... an event from the queue ... *)
LEMMA HandleEventInv ==
  ASSUME DgInv, HandleEvent
  PROVE  DgInv'
<1> USE DEF HandleEvent
<1>1. todo \in Seq(Event) /\ Fired(todo) /\ Members(tp) /\ Transport(tp)
      /\ armed \subseteq DOMAIN tp.by_timeout /\ phase = "events" /\ writing
  BY DEF DgInv, TypeOK, Timeouts, Phases, InWriteEvent
<1>2. CASE todo = <<>>
  <2>1. TypeOK' /\ Members(tp)'
    BY <1>2 DEF DgInv, TypeOK, Transport
  <2>2. Awake' /\ Phases' /\ Settled' /\ Timeouts'
    BY <1>1, <1>2 DEF DgInv, Awake, Phases, Settled, Timeouts, Fired, InWriteEvent, IsEmpty
  <2> QED
    BY <1>2, <2>1, <2>2 DEF DgInv
<1>3. CASE todo # <<>>
  <2>1. PICK e : e = Head(todo)
    OBVIOUS
  <2>2. /\ e \in Event /\ Tail(todo) \in Seq(Event) /\ e = todo[1] /\ 1 \in DOMAIN todo
        /\ \A i \in DOMAIN Tail(todo) : i + 1 \in DOMAIN todo /\ Tail(todo)[i] = todo[i + 1]
    BY <1>1, <1>3, <2>1, Rest
  <2>3. PICK t : t = DispatchEvent(tp, e)
    OBVIOUS
  <2>4. tp' = t /\ RegisterFor(t) /\ todo' = Tail(todo) /\ phase' = phase
    BY <1>3, <2>1, <2>3
  <2>5. /\ Members(t) /\ Transport(t) /\ Quiet(tp, t)
        /\ \A i \in DOMAIN tp.by_timeout :
             i \in DOMAIN t.by_timeout \/ (e.is = "timeout" /\ e.nr = i)
    BY <1>1, <2>2, <2>3, DispatchQuiet
  <2>6. UNCHANGED <<queue, pushes, waking, reading, pollout, torn, reads, arrived, armed, broken, written>>
    OBVIOUS
  <2>7. /\ Members(tp)' /\ Transport(tp)' /\ writing' \in BOOLEAN
        /\ (writing => writing') /\ (torn => ~writing') /\ Awake'
        /\ Order(written, tp, queue.messages, pushes)'
    BY <2>4, <2>5, <2>6, QuietStep
  <2>8. e.is = "timeout" => e.nr \notin armed
    BY <1>1, <2>2 DEF Fired
  <2>9. armed' \subseteq DOMAIN tp'.by_timeout
    BY <1>1, <2>4, <2>5, <2>6, <2>8
  <2>10. TypeOK'
    BY <2>2, <2>4, <2>6, <2>7, <2>9 DEF DgInv, TypeOK
  <2>11. Fired(todo)'
    BY <1>1, <2>2, <2>4, <2>6 DEF Fired
  <2>12. Phases' /\ Settled' /\ Timeouts'
    BY <1>1, <2>4, <2>6, <2>7, <2>11 DEF DgInv, Phases, Settled, Timeouts, Fired, InWriteEvent
  <2> QED
    BY <2>7, <2>10, <2>12 DEF DgInv
<1> QED
  BY <1>2, <1>3

(* ... a packet that sendto() takes ... *)
LEMMA WriteSomeInv ==
  ASSUME DgInv, WriteSome
  PROVE  DgInv'
<1> USE DEF WriteSome
<1>1. writing /\ phase = "write"
  BY DEF DgInv, Phases, InWriteEvent
<1>2. CASE tp.packets = <<>>
  <2>1. TypeOK' /\ Members(tp)'
    BY <1>2 DEF DgInv, TypeOK, Transport
  <2>2. Awake' /\ Phases' /\ Settled' /\ Timeouts'
    BY <1>1, <1>2 DEF DgInv, Awake, Phases, Settled, Timeouts, Fired, InWriteEvent, IsEmpty
  <2> QED
    BY <1>2, <2>1, <2>2 DEF DgInv
<1>3. CASE tp.packets # <<>>
  <2>1. Members(tp) /\ Transport(tp) /\ written \in Seq(Packet) /\ tp.packets \in Seq(Packet)
    BY DEF DgInv, TypeOK, Transport
  <2>2. PICK p \in Packet : p = Head(tp.packets)
    BY <1>3, <2>1, Rest
  <2>3. tp' = recycle(tp) /\ phase' = phase /\ (written' = written \/ written' = Append(written, p))
    BY <1>3, <2>2
  <2>4. OneLess(tp, tp')
    BY <1>3, <2>1, <2>3, Recycles
  <2>5. written' \in Seq(Packet)
    BY <2>1, <2>2, <2>3
  <2>6. Order(written, tp', queue.messages, pushes)
        /\ Order(Append(written, p), tp', queue.messages, pushes)
    BY <1>3, <2>1, <2>2, <2>4, WrittenOrder DEF DgInv
  <2>7. Order(written, tp, queue.messages, pushes)'
    BY <2>3, <2>6
  <2>8. TypeOK' /\ Members(tp)'
    BY <2>3, <2>4, <2>5 DEF DgInv, TypeOK, OneLess
  <2>9. Awake' /\ Phases' /\ Settled' /\ Timeouts'
    BY <1>1, <2>3 DEF DgInv, Awake, Phases, Settled, Timeouts, Fired, InWriteEvent, IsEmpty
  <2> QED
    BY <2>7, <2>8, <2>9 DEF DgInv
<1> QED
  BY <1>2, <1>3

(* ... or refuses ... *)
LEMMA WriteFailsInv ==
  ASSUME DgInv, NEW err, WriteFails(err)
  PROVE  DgInv'
<1>1. phase' \in {"idle", "end"} /\ broken' \in BOOLEAN /\ (broken => broken')
      /\ (phase' = "end" => broken') /\ writing
  BY DEF DgInv, TypeOK, WriteFails, Phases, InWriteEvent
<1>2. TypeOK' /\ Members(tp)'
  BY <1>1 DEF DgInv, TypeOK, WriteFails, Transport
<1>3. Awake' /\ Phases' /\ Settled' /\ Timeouts'
  BY <1>1 DEF DgInv, Awake, Phases, Settled, Timeouts, Fired, InWriteEvent, WriteFails, IsEmpty
<1> QED
  BY <1>2, <1>3 DEF DgInv, WriteFails

(* ... and the event ends. *)
LEMMA WriteEndsInv ==
  ASSUME DgInv, WriteEnds
  PROVE  DgInv'
<1>1. queue \in Queue(Event, Message)
  BY DEF DgInv, TypeOK
<1>2. /\ queue' \in Queue(Event, Message) /\ queue'.events = queue.events
      /\ queue'.messages = queue.messages
      /\ (queue'.blocked <=> queue.blocked \/ IsEmpty(queue))
  BY <1>1, QueueOps DEF WriteEnds
<1>3. writing' = ~queue'.blocked /\ phase' = "idle"
      /\ (tp.packets = <<>> \/ broken) /\ ~torn
      /\ UNCHANGED <<pushes, waking, reading, pollout, torn, todo, reads, arrived, tp, armed, broken, written>>
  BY DEF WriteEnds, DgInv, Phases, Settled
<1>4. TypeOK' /\ Members(tp)'
  BY <1>2, <1>3 DEF DgInv, TypeOK, Transport
<1>5. Awake' /\ Phases' /\ Settled'
  BY <1>2, <1>3 DEF DgInv, Awake, Phases, Settled, InWriteEvent, IsEmpty
<1>6. Timeouts'
  BY <1>2, <1>3 DEF DgInv, Timeouts, Fired
<1> QED
  BY <1>2, <1>3, <1>4, <1>5, <1>6 DEF DgInv

(* A message is written, skipped or cannot be written. *)
LEMMA FetchInv ==
  ASSUME DgInv, NEW d \in {"write", "skip", "init_fails"}, Fetch(d)
  PROVE  DgInv'
<1>1. /\ Members(tp) /\ Transport(tp) /\ queue \in Queue(Event, Message)
      /\ queue.messages \in Seq(Message) /\ written \in Seq(Packet)
      /\ armed \subseteq DOMAIN tp.by_timeout /\ writing /\ phase = "fetch"
      /\ tp.packets = <<>>
  BY DEF DgInv, TypeOK, Queue, Fetch, Phases, InWriteEvent
<1>2. /\ UNCHANGED <<pushes, waking, reading, pollout, torn, todo, reads, arrived, armed, broken,
                      written>>
      /\ ~torn
  BY DEF Fetch, DgInv, Settled
<1>3. CASE queue.blocked \/ queue.messages = <<>>
  <2>1. phase' = "end" /\ UNCHANGED <<queue, tp, writing>>
    BY <1>3 DEF Fetch
  <2>2. TypeOK' /\ Members(tp)'
    BY <1>1, <1>2, <2>1 DEF DgInv, TypeOK, Transport
  <2>3. Awake' /\ Phases' /\ Settled' /\ Timeouts'
    BY <1>1, <1>2, <2>1 DEF DgInv, Awake, Phases, Settled, Timeouts, Fired, InWriteEvent, IsEmpty
  <2> QED
    BY <1>2, <2>1, <2>2, <2>3 DEF DgInv
<1>4. CASE ~queue.blocked /\ queue.messages # <<>>
  <2>1. PICK m : m = Head(queue.messages)
    OBVIOUS
  <2>2. PICK t : t = write_message(tp, m, d)
    OBVIOUS
  <2>3. queue' = next_message(queue) /\ tp' = t /\ RegisterFor(t) /\ phase' = "write"
    BY <1>4, <2>1, <2>2 DEF Fetch
  <2>4. m \in Message /\ m = queue.messages[1] /\ m.node \in Nodes /\ m.node \in NodeIds
        /\ NoEndpoint \in Ids
    <3>1. m \in Message /\ m = queue.messages[1]
      BY <1>1, <1>4, <2>1, Rest
    <3> QED
      BY <3>1 DEF Message, NodeIds, Ids
  <2>5. /\ queue' \in Queue(Event, Message) /\ queue'.events = queue.events
        /\ queue'.messages = Tail(queue.messages)
        /\ (queue'.blocked <=> queue'.events = <<>> /\ queue'.messages = <<>>)
    BY <1>1, <1>4, <2>3, NextMessage
  <2>6. PICK u : u = IF m.node \in DOMAIN tp.by_node THEN tp
                     ELSE add_new_worker(tp, m.node, NoEndpoint)
    OBVIOUS
  <2>7. /\ Members(u) /\ Transport(u) /\ Quiet(tp, u) /\ u.by_timeout = tp.by_timeout
        /\ m.node \in DOMAIN u.by_node
    <3>1. CASE m.node \in DOMAIN tp.by_node
      BY <1>1, <2>6, <3>1, QuietSelf
    <3>2. CASE m.node \notin DOMAIN tp.by_node
      <4>1. OneWorker(tp, u, m.node, NoEndpoint)
        BY <1>1, <2>4, <2>6, <3>2, AddsWorker
      <4> QED
        BY <4>1 DEF OneWorker
    <3> QED
      BY <3>1, <3>2
  <2>8. Order(written, u, queue.messages, pushes)
    BY <1>1, <2>7, QuietOrder DEF DgInv
  <2>9. \A x : Order(written, x, queue.messages, pushes)
                 => Order(written, x, Tail(queue.messages), pushes)
    <3>1. \A k \in DOMAIN Tail(queue.messages) :
            /\ k + 1 \in DOMAIN queue.messages /\ k \in Nat
            /\ Tail(queue.messages)[k] = queue.messages[k + 1]
      BY <1>1, <1>4, Rest
    <3>2. \A k, l \in Nat : k < l => k + 1 < l + 1
      OBVIOUS
    <3> QED
      BY <3>1, <3>2 DEF Order
  <2>10. /\ Members(t) /\ Transport(t) /\ t.by_timeout = tp.by_timeout
         /\ Order(written, t, Tail(queue.messages), pushes)
    <3>1. CASE d = "write"
      <4>1. PICK w \in DOMAIN u.workers : w = u.by_node[m.node]
        BY <2>7 DEF Transport
      <4>2. t = WorkerWrites(u, w, {m}, 2)
        BY <2>2, <2>6, <3>1, <4>1 DEF write_message
      <4>3. {m} \in SUBSET Message /\ 2 \in 1 .. 2
        BY <2>4
      <4>4. OnePacket(u, t, u.workers[w], {m}, 2)
        BY <2>7, <4>2, <4>3, WorkerPacket
      <4>5. Order(written, t, Tail(queue.messages), pushes)
        BY <1>1, <1>4, <2>1, <2>7, <2>8, <4>1, <4>4, PacketOrder
      <4> QED
        BY <2>7, <4>4, <4>5 DEF OnePacket
    <3>2. CASE d = "skip"
      <4>1. t = u
        BY <2>2, <2>6, <3>2 DEF write_message
      <4> QED
        BY <2>7, <2>8, <2>9, <4>1
    <3>3. CASE d = "init_fails"
      <4>1. t = tp
        BY <2>2, <3>3 DEF write_message
      <4> QED
        BY <1>1, <2>9, <4>1 DEF DgInv
    <3> QED
      BY <3>1, <3>2, <3>3
  <2>11. writing' \in BOOLEAN /\ writing'
    BY <1>1, <2>3, Registers DEF RegisterFor
  <2>12. TypeOK' /\ Members(tp)'
    BY <1>1, <1>2, <2>3, <2>5, <2>10, <2>11 DEF DgInv, TypeOK
  <2>13. Awake' /\ Phases' /\ Settled'
    BY <1>2, <2>3, <2>5, <2>11 DEF Awake, Phases, Settled, InWriteEvent, IsEmpty
  <2>14. Timeouts'
    BY <1>2, <2>5 DEF DgInv, Timeouts, Fired
  <2>15. Order(written, tp, queue.messages, pushes)'
    BY <1>2, <2>3, <2>5, <2>10
  <2> QED
    BY <2>12, <2>13, <2>14, <2>15 DEF DgInv
<1> QED
  BY <1>3, <1>4

-----------------------------------------------------------------------------
(* The theorems *)

(* Initially all queues are empty. *)
LEMMA InitInv == Init => DgInv
<1> SUFFICES ASSUME Init PROVE DgInv
  OBVIOUS
<1>1. queue = [events |-> <<>>, messages |-> <<>>, blocked |-> TRUE]
  BY DEF Init, NewQueue, try_block, EmptyQueue, IsEmpty
<1>2. Members(tp) /\ tp.workers = <<>> /\ tp.by_id = <<>> /\ tp.by_node = <<>>
      /\ tp.by_timeout = <<>> /\ tp.packets = <<>> /\ tp.header_bufs = 0 /\ tp.payload_bufs = 0
  BY DEF Init, Members
<1>3. Transport(tp)
  BY <1>2, Limits DEF Transport
<1>4. queue \in Queue(Event, Message)
  <2>1. <<>> \in Seq(Event) /\ <<>> \in Seq(Message)
    OBVIOUS
  <2> QED
    BY <1>1, <2>1 DEF Queue
<1>5. TypeOK
  <2>1. pushes \in 0 .. MaxPushes /\ reads \in 0 .. max_consecutive_reads
        /\ arrived \in 0 .. MaxDatagrams /\ waking \in Nat
    BY Limits DEF Init
  <2>2. <<>> \in Seq(Event) /\ <<>> \in Seq(Packet)
    OBVIOUS
  <2>3. /\ writing \in BOOLEAN /\ reading \in BOOLEAN /\ broken \in BOOLEAN
        /\ pollout \in BOOLEAN /\ torn \in BOOLEAN
        /\ phase \in {"idle", "read", "events", "write", "fetch", "end"}
        /\ todo \in Seq(Event) /\ written \in Seq(Packet)
        /\ armed \subseteq DOMAIN tp.by_timeout
    BY <2>2 DEF Init
  <2> QED
    BY <1>3, <1>4, <2>1, <2>3 DEF TypeOK
<1>6. Order(written, tp, queue.messages, pushes)
  BY <1>1, <1>2 DEF Order, Init
<1>7. Phases /\ Awake /\ Settled /\ Timeouts
  BY <1>1, <1>2 DEF Init, Phases, InWriteEvent, Awake, Settled, Timeouts, Fired, IsEmpty
<1> QED
  BY <1>2, <1>5, <1>6, <1>7 DEF DgInv

(* The invariant of endpoint manager, dispatcher and datagram transport    *)
(* holds whatever the threads, the peers and the applications do.          *)
THEOREM DatagramInvariant == Spec => []DgInv
<1>1. DgInv /\ [Next]_vars => DgInv'
  <2> SUFFICES ASSUME DgInv, [Next]_vars PROVE DgInv'
    OBVIOUS
  <2>1. CASE Others
    BY <2>1, PushMessageInv, PushEventInv, ExpireInv DEF Others
  <2>2. CASE Multiplexing
    BY <2>2, WakeInv, ReadEventInv, WriteEventInv, HandleEventInv, WriteSomeInv, WriteEndsInv,
       ReadEndsInv, WriteFailsInv, ReceiveInv, ReceiveUnservedInv, FetchInv, AddWorkerInv
       DEF Multiplexing
  <2>3. CASE UNCHANGED vars
    BY <2>3 DEF vars, DgInv, TypeOK, Members, Transport, Phases, InWriteEvent, Awake, Settled, IsEmpty,
                Timeouts, Fired, Order, Ahead, Routed
  <2> QED
    BY <2>1, <2>2, <2>3 DEF Next
<1> QED
  BY InitInv, <1>1, PTL DEF Spec

(* The queues, the maps of the dispatcher and the caches keep their types: *)
(* every map names a worker that exists, by_id one with that endpoint, the *)
(* caches stay within their limits, and a live timeout has a worker.       *)
THEOREM DatagramTypes == Spec => []TypeOK
<1>1. DgInv => TypeOK
  BY DEF DgInv
<1> QED
  BY <1>1, DatagramInvariant, PTL

(* Whatever waits in the queue of the manager or of the transport will be  *)
(* looked at unless a write failed, or a read event that registered for    *)
(* writing did (datagram_transport.hpp:78, 88): enqueue() wakes the manager*)
(* if it replaced the mark, write_packet() registers it for the first      *)
(* packet, and only poll_once loses a registration.                        *)
THEOREM DatagramWakes == Spec => []NoLostWakeup
<1>1. DgInv => NoLostWakeup
  BY DEF DgInv, Awake, Settled, NoLostWakeup
<1> QED
  BY <1>1, DatagramInvariant, PTL

(* Messages to a node are written in the order in which they were enqueued *)
(* and to one endpoint, for any number of nodes, endpoints and workers.    *)
THEOREM DatagramInOrder == Spec => []InOrder
<1>1. DgInv => InOrder
  <2> SUFFICES ASSUME DgInv, NEW i \in DOMAIN written, NEW j \in DOMAIN written, i < j,
                      NEW m \in written[i].msg, NEW o \in written[j].msg, m.node = o.node
               PROVE  m.nr < o.nr /\ written[i].to = written[j].to
    BY DEF InOrder
  <2>1. Ahead(written[i], written[j]) /\ Routed(written[i], tp) /\ Routed(written[j], tp)
    BY DEF DgInv, Order
  <2> QED
    BY <2>1 DEF Ahead, Routed
<1> QED
  BY <1>1, DatagramInvariant, PTL
=============================================================================
