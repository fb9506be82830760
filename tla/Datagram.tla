------------------------------ MODULE Datagram ------------------------------
(***************************************************************************)
(* caf::net::datagram_transport below an endpoint_manager_impl: one UDP    *)
(* socket, on which a transport_worker_dispatcher serves many endpoints,   *)
(* each by a transport_worker with an application of its own.  Any thread  *)
(* may enqueue messages and events; the multiplexer's thread runs the rest.*)
(* The applications do what their interface lets them do.                  *)
(***************************************************************************)
EXTENDS EndpointManager, FiniteSets

CONSTANTS
  Nodes, NoNode,           \* nodes, and the default node_id
  Endpoints, NoEndpoint,   \* IP endpoints, and the default id_type
  Greets,                  \* whether init() of an application writes a packet
  max_consecutive_reads, max_header_bufs, max_payload_bufs,
  MaxPushes,               \* bound on messages and events
  MaxDatagrams,            \* bound on datagrams that arrive
  MaxWorkers               \* bound on calls to add_new_worker

ASSUME DatagramAssumption ==
  /\ NoNode \notin Nodes /\ NoEndpoint \notin Endpoints
  /\ {max_consecutive_reads, max_header_bufs, max_payload_bufs} \subseteq Nat \ {0}
  /\ {MaxPushes, MaxDatagrams, MaxWorkers} \subseteq Nat

VARIABLES
  queue,       \* endpoint_manager_queue
  pushes,      \* number of messages and events pushed
  waking,      \* threads that have yet to register the manager for writing
  writing, reading,  \* polled by the multiplexer
  pollout,     \* poll_once: writing when the read event began
  torn,        \* the mask has write, and the pollset has no entry
  phase,       \* what the multiplexer's thread does with this manager
  todo,        \* events that handle_write_event took
  reads,       \* iterations of the loop in handle_read_event
  arrived,     \* number of datagrams
  tp,          \* the transport, its dispatcher and workers
  armed,       \* timeouts that the clock has to deliver
  broken,      \* a write failed
  written      \* history: packets with messages that were written, in order

vars == <<queue, pushes, waking, writing, reading, pollout, torn, phase, todo,
          reads, arrived, tp, armed, broken, written>>

-----------------------------------------------------------------------------
Ids == Endpoints \cup {NoEndpoint}
NodeIds == Nodes \cup {NoNode}

Message == [node : Nodes, nr : 1 .. MaxPushes]
Event == [is : {"resolve", "new_proxy", "local_actor_down"}, node : Nodes]
           \cup [is : {"timeout"}, nr : 1 .. MaxDatagrams]

(* The messages in a packet: one or none. *)
Packet == [to : Ids, msg : SUBSET Message, bufs : 1 .. 2]

(* A worker is a number; workers[w] is its endpoint. *)
Transport(t) ==
  LET Worker == DOMAIN t.workers
  IN  /\ t.workers \in Seq(Ids)
      /\ DOMAIN t.by_id \subseteq Ids /\ DOMAIN t.by_node \subseteq NodeIds
      /\ DOMAIN t.by_timeout \subseteq 1 .. MaxDatagrams
      /\ \A i \in DOMAIN t.by_id : t.by_id[i] \in Worker /\ t.workers[t.by_id[i]] = i
      /\ \A n \in DOMAIN t.by_node : t.by_node[n] \in Worker
      /\ \A i \in DOMAIN t.by_timeout : t.by_timeout[i] \in Worker
      /\ t.packets \in Seq(Packet)
      /\ t.header_bufs \in 0 .. max_header_bufs /\ t.payload_bufs \in 0 .. max_payload_bufs

TypeOK ==
  /\ queue \in Queue(Event, Message) /\ pushes \in 0 .. MaxPushes /\ waking \in Nat
  /\ writing \in BOOLEAN /\ reading \in BOOLEAN /\ broken \in BOOLEAN
  /\ pollout \in BOOLEAN /\ torn \in BOOLEAN
  /\ phase \in {"idle", "read", "events", "write", "fetch", "end"}
  /\ todo \in Seq(Event) /\ reads \in 0 .. max_consecutive_reads
  /\ arrived \in 0 .. MaxDatagrams /\ Transport(tp)
  /\ armed \subseteq DOMAIN tp.by_timeout
  /\ written \in Seq(Packet)

Init ==
  /\ queue = NewQueue /\ pushes = 0 /\ waking = 0
  /\ writing = FALSE /\ reading = TRUE /\ broken = FALSE
  /\ pollout = FALSE /\ torn = FALSE
  /\ phase = "idle" /\ todo = <<>> /\ reads = 0 /\ arrived = 0
  /\ tp = [workers |-> <<>>, by_id |-> <<>>, by_node |-> <<>>, by_timeout |-> <<>>,
           packets |-> <<>>, header_bufs |-> 0, payload_bufs |-> 0]
  /\ armed = {} /\ written = <<>>

-----------------------------------------------------------------------------
(* Transport and dispatcher, as operators on tp *)

(* next_header_buffer and next_payload_buffer take a buffer from a cache or*)
(* create one.                                                             *)
Taken(k, n) == IF n > k THEN 0 ELSE k - n

write_packet(t, id, msg, bufs) ==
  [t EXCEPT !.packets = Append(@, [to |-> id, msg |-> msg, bufs |-> bufs]),
            !.header_bufs = Taken(@, 1), !.payload_bufs = Taken(@, bufs - 1)]

(* write_packet registers the manager if the queue was empty, which does   *)
(* nothing if the mask has write already.                                  *)
Registered(t) == writing \/ (tp.packets = <<>> /\ t.packets # <<>> /\ ~torn)
RegisterFor(t) == writing' = Registered(t)

(* Mutant: the caches are not limited. *)
recycle_all(t) ==
  [t EXCEPT !.packets = Tail(@), !.header_bufs = @ + 1,
            !.payload_bufs = @ + Head(t.packets).bufs - 1]

(* A header that finds the header cache full goes to the payload cache. *)
recycle(t) ==
  LET bufs == Head(t.packets).bufs
      hdr == IF t.header_bufs < max_header_bufs THEN 1 ELSE 0
      room == max_payload_bufs - t.payload_bufs
  IN  [t EXCEPT !.packets = Tail(@), !.header_bufs = @ + hdr,
                !.payload_bufs = @ + (IF bufs - hdr < room THEN bufs - hdr ELSE room)]

(* Mutant: a later worker takes the place of an earlier one. *)
emplace_over(f, k, v) == [x \in DOMAIN f \cup {k} |-> IF x = k THEN v ELSE f[x]]

(* std::unordered_map::emplace does nothing if the key is there. *)
emplace(f, k, v) == [x \in DOMAIN f \cup {k} |-> IF x \in DOMAIN f THEN f[x] ELSE v]

add_new_worker(t, node, id) ==
  LET w == Len(t.workers) + 1
      u == [t EXCEPT !.workers = Append(@, id), !.by_id = emplace(@, id, w),
                     !.by_node = emplace(@, node, w)]
  IN  IF Greets THEN write_packet(u, id, {}, 2) ELSE u

(* What a worker writes goes to its endpoint. *)
WorkerWrites(t, w, msg, bufs) == write_packet(t, t.workers[w], msg, bufs)

-----------------------------------------------------------------------------
(* Other threads: endpoint_manager::enqueue, resolve and enqueue_event.    *)

Push(q) ==
  /\ queue' = q
  /\ waking' = IF queue.blocked THEN waking + 1 ELSE waking

PushMessage(n) ==
  /\ pushes < MaxPushes /\ pushes' = pushes + 1
  /\ Push(push_message(queue, [node |-> n, nr |-> pushes + 1]))
  /\ UNCHANGED <<writing, reading, phase, todo, reads, arrived, tp, armed,
                 broken, written, pollout, torn>>

PushEvent(kind, n) ==
  /\ pushes < MaxPushes /\ pushes' = pushes + 1
  /\ Push(push_event(queue, [is |-> kind, node |-> n]))
  /\ UNCHANGED <<writing, reading, phase, todo, reads, arrived, tp, armed,
                 broken, written, pollout, torn>>

(* The actor clock delivers a timeout. *)
Expire(i) ==
  /\ i \in armed /\ armed' = armed \ {i}
  /\ Push(push_event(queue, [is |-> "timeout", nr |-> i]))
  /\ UNCHANGED <<pushes, writing, reading, phase, todo, reads, arrived, tp,
                 broken, written, pollout, torn>>

(* The pollset updater registers the manager. *)
Wake ==
  /\ waking > 0 /\ phase = "idle"
  /\ waking' = waking - 1 /\ writing' = ~torn
  /\ UNCHANGED <<queue, pushes, reading, phase, todo, reads, arrived, tp,
                 armed, broken, written, pollout, torn>>

(* datagram_transport::add_new_worker *)
AddWorker(n, ep) ==
  /\ phase = "idle" /\ Len(tp.workers) < MaxWorkers
  /\ LET t == add_new_worker(tp, n, ep)
     IN  tp' = t /\ RegisterFor(t)
  /\ UNCHANGED <<queue, pushes, waking, reading, phase, todo, reads, arrived,
                 armed, broken, written, pollout, torn>>

-----------------------------------------------------------------------------
(* The socket *)

(* How a system call that fails with this error is reported. *)
check_udp_datagram_socket_io_res(code) ==
  IF code \in {"operation_would_block", "resource_unavailable_try_again"}
  THEN "unavailable_or_would_block" ELSE "socket_operation_failed"

Failures ==
  {check_udp_datagram_socket_io_res(code) :
     code \in {"operation_would_block", "resource_unavailable_try_again", "other"}}

(* What read() returns instead of a datagram; a sender with an address     *)
(* that is no IP address makes it fail as well.  And what write() returns. *)
read == Failures \cup {"invalid_argument"}
write == Failures

-----------------------------------------------------------------------------
(* Read events *)

ReadEvent ==
  /\ phase = "idle" /\ reading
  /\ phase' = "read" /\ pollout' = writing
  /\ UNCHANGED <<queue, pushes, waking, writing, reading, torn, todo, reads, arrived,
                 tp, armed, broken, written>>

(* handle_read_event returns false: poll_once writes back the events that  *)
(* it polled before, less reading, or deletes the entry if none are left.  *)
(* What the event registered is lost, but stays in the mask.               *)
GivesUp(t) ==
  /\ reading' = FALSE /\ phase' = "idle" /\ reads' = 0
  /\ writing' = pollout /\ pollout' = FALSE
  /\ torn' = (torn \/ (Registered(t) /\ ~pollout))

(* A datagram from an endpoint that nobody serves creates a worker, for a  *)
(* node that is not known.                                                 *)
Serving(id) ==
  IF id \in DOMAIN tp.by_id THEN tp ELSE add_new_worker(tp, NoNode, id)

(* The application's handle_data may answer, set a timeout or fail. *)
Receive(id, does) ==
  LET t == Serving(id)
      w == t.by_id[id]
      u == CASE does = "answer" -> WorkerWrites(t, w, {}, 2)
             [] does = "set_timeout" -> [t EXCEPT !.by_timeout = emplace(@, arrived + 1, w)]
             [] OTHER -> t
  IN  /\ phase = "read" /\ reads < max_consecutive_reads /\ arrived < MaxDatagrams
      /\ arrived' = arrived + 1
      /\ tp' = u
      /\ armed' = IF does = "set_timeout" THEN armed \cup {arrived + 1} ELSE armed
      /\ IF does = "fail" THEN GivesUp(u)
         ELSE /\ RegisterFor(u) /\ reads' = reads + 1
              /\ UNCHANGED <<reading, phase, pollout, torn>>
      /\ UNCHANGED <<queue, pushes, waking, todo, broken, written>>

(* The application of a new worker fails in init(). *)
ReceiveUnserved(id) ==
  /\ phase = "read" /\ reads < max_consecutive_reads /\ arrived < MaxDatagrams
  /\ id \notin DOMAIN tp.by_id
  /\ arrived' = arrived + 1 /\ GivesUp(tp)
  /\ UNCHANGED <<queue, pushes, waking, todo, tp, armed, broken, written>>

(* As many datagrams were read as may be read in a row, or read() fails.   *)
ReadEnds(err) ==
  /\ phase = "read"
  /\ (err = "none") = (reads = max_consecutive_reads)
  /\ IF err \in {"none", "unavailable_or_would_block"}
     THEN /\ phase' = "idle" /\ reads' = 0 /\ pollout' = FALSE
          /\ UNCHANGED <<writing, reading, torn>>
     ELSE GivesUp(tp)
  /\ UNCHANGED <<queue, pushes, waking, todo, arrived, tp, armed, broken, written>>

-----------------------------------------------------------------------------
(* Write events: endpoint_manager_impl::handle_write_event *)

WriteEvent ==
  /\ phase = "idle" /\ writing
  /\ IF queue.blocked THEN phase' = "write" /\ UNCHANGED <<queue, todo>>
     ELSE phase' = "events" /\ queue' = take_events(queue) /\ todo' = queue.events
  /\ UNCHANGED <<pushes, waking, writing, reading, reads, arrived, tp, armed,
                 broken, written, pollout, torn>>

(* The dispatcher's functions resolve, new_proxy and local_actor_down do   *)
(* nothing for a node without worker, but resolve tells the listener.      *)
DispatchEvent(t, e) ==
  IF e.is = "timeout" THEN [t EXCEPT !.by_timeout = [i \in DOMAIN @ \ {e.nr} |-> @[i]]]
  ELSE IF e.node \in DOMAIN t.by_node
  THEN WorkerWrites(t, t.by_node[e.node], {}, IF e.is = "new_proxy" THEN 1 ELSE 2)
  ELSE t

HandleEvent ==
  /\ phase = "events"
  /\ IF todo = <<>> THEN phase' = "write" /\ UNCHANGED <<todo, tp, writing>>
     ELSE LET e == Head(todo)
              t == DispatchEvent(tp, e)
          IN  /\ tp' = t /\ RegisterFor(t)
              /\ todo' = Tail(todo)
              /\ UNCHANGED phase
  /\ UNCHANGED <<queue, pushes, waking, reading, reads, arrived, armed, broken,
                 written, pollout, torn>>

(* One iteration of write_some. *)
WriteSome ==
  /\ phase = "write"
  /\ IF tp.packets = <<>> THEN phase' = "fetch" /\ UNCHANGED <<tp, written>>
     ELSE /\ tp' = recycle(tp)
          /\ written' = IF Head(tp.packets).msg = {} THEN written
                        ELSE Append(written, Head(tp.packets))
          /\ UNCHANGED phase
  /\ UNCHANGED <<queue, pushes, waking, writing, reading, todo, reads, arrived,
                 armed, broken, pollout, torn>>

(* The socket is not ready, and the manager stays registered; or it fails, *)
(* and the packet stays at the front.                                      *)
WriteFails(err) ==
  /\ phase = "write" /\ tp.packets # <<>>
  /\ IF err = "unavailable_or_would_block" THEN phase' = "idle" /\ UNCHANGED broken
     ELSE phase' = "end" /\ broken' = TRUE
  /\ UNCHANGED <<queue, pushes, waking, writing, reading, todo, reads, arrived,
                 tp, armed, written, pollout, torn>>

(* write_message of the dispatcher: a node without worker gets one whose   *)
(* endpoint is not known.  The application may fail to serialize, or in    *)
(* init().                                                                 *)
write_message(t, m, does) ==
  LET u == IF m.node \in DOMAIN t.by_node THEN t
           ELSE add_new_worker(t, m.node, NoEndpoint)
  IN  CASE does = "write" -> WorkerWrites(u, u.by_node[m.node], {m}, 2)
        [] does = "skip" -> u
        [] does = "init_fails" -> t

Fetch(does) ==
  /\ phase = "fetch"
  /\ IF queue.blocked \/ queue.messages = <<>>
     THEN phase' = "end" /\ UNCHANGED <<queue, tp, writing>>
     ELSE LET m == Head(queue.messages)
              t == write_message(tp, m, does)
          IN  /\ does = "init_fails" => m.node \notin DOMAIN tp.by_node
              /\ queue' = next_message(queue)
              /\ tp' = t /\ RegisterFor(t)
              /\ phase' = "write"
  /\ UNCHANGED <<pushes, waking, reading, todo, reads, arrived, armed, broken,
                 written, pollout, torn>>

(* The transport has nothing to write: what the manager returns. *)
WriteEnds ==
  /\ phase = "end" /\ phase' = "idle"
  /\ queue' = IF queue.blocked THEN queue ELSE try_block(queue)
  /\ writing' = ~queue'.blocked
  /\ UNCHANGED <<pushes, waking, reading, todo, reads, arrived, tp, armed,
                 broken, written, pollout, torn>>

-----------------------------------------------------------------------------
Others ==
  \/ \E n \in Nodes : PushMessage(n)
  \/ \E n \in Nodes, k \in {"resolve", "new_proxy", "local_actor_down"} : PushEvent(k, n)
  \/ \E i \in armed : Expire(i)

Multiplexing ==
  \/ Wake \/ ReadEvent \/ WriteEvent \/ HandleEvent \/ WriteSome \/ WriteEnds
  \/ \E err \in read \cup {"none"} : ReadEnds(err)
  \/ \E err \in write : WriteFails(err)
  \/ \E id \in Endpoints, d \in {"nothing", "answer", "set_timeout", "fail"} : Receive(id, d)
  \/ \E id \in Endpoints : ReceiveUnserved(id)
  \/ \E d \in {"write", "skip", "init_fails"} : Fetch(d)
  \/ \E n \in Nodes, ep \in Endpoints : AddWorker(n, ep)

Next == Others \/ Multiplexing

Spec == Init /\ [][Next]_vars

-----------------------------------------------------------------------------
(* Properties *)

(* endpoint_manager.cpp, enqueue and next_message; datagram_transport.hpp, *)
(* write_packet: whatever waits in the queue of the manager or of the      *)
(* transport will be looked at: the manager is polled for writing, about   *)
(* to be, or handling a write event.  It is not after a failed write, nor  *)
(* if the transport has stopped reading with a read event that registered  *)
(* for writing (an answer or a new worker's packet) and then failed:       *)
(* poll_once has lost that registration for good.                          *)
NoLostWakeup ==
  /\ ~IsEmpty(queue) \/ tp.packets # <<>>
       => \/ writing \/ waking > 0 \/ phase \in {"events", "write", "fetch", "end"}
          \/ broken \/ torn
  /\ torn => ~reading /\ ~writing /\ phase = "idle"

(* transport_worker_dispatcher.hpp, write_message: messages to a node are  *)
(* written in the order in which they were enqueued and all to the same    *)
(* endpoint, whichever workers are added or found meanwhile.               *)
InOrder ==
  \A i, j \in DOMAIN written : i < j =>
    \A m \in written[i].msg, o \in written[j].msg :
      m.node = o.node => m.nr < o.nr /\ written[i].to = written[j].to
=============================================================================
