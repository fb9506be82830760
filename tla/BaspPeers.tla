----------------------------- MODULE BaspPeers -----------------------------
(***************************************************************************)
(* Two nodes that talk BASP: on each a basp::application with the          *)
(* endpoint_manager in front of it, the registry of local actors and the   *)
(* registry of proxies for actors of the other node.  User threads look up *)
(* remote actors, local actors send to proxies and terminate.  The peer may*)
(* also be a foreign program that sends what it wants.  The transport below*)
(* keeps the order of packets and hands the application as many bytes as it*)
(* asked for.  Packets to a foreign program are forgotten.                 *)
(***************************************************************************)
EXTENDS EndpointManager, FiniteSets

CONSTANTS
  Nodes, Actors, Home,  \* Home[a] is the node that the actor a runs on
  Foreigner,            \* the node that may be a foreign program
  Listeners, Asks,      \* Asks[l] is the node of l and the paths it may look up
  Names,                \* actors that may be published under a name
  AppIds, Configs,      \* application identifiers, and configurations of them
  Nobody,               \* no actor: the actor ID 0, a null pointer
  MaxCalls,             \* bound on lookups and messages
  ForeignPackets,       \* what a foreign program may send
  MaxForeign            \* bound on the packets of a foreign program

VARIABLES
  foreign,     \* whether Foreigner is a foreign program
  calls,       \* number of lookups and messages
  intruded,    \* number of packets of a foreign program
  app_ids,     \* configuration: app-identifiers of each node
  app,         \* basp::application of each node
  queue,       \* endpoint_manager_queue of each node
  writing,     \* managers registered for writing
  wire,        \* packets on their way to each node
  tasks,       \* actor messages that BASP workers deserialize
  life,        \* how far the termination of each actor got
  registry,    \* actors found by ID
  named,       \* actors found by name
  monitors,    \* functors that the peer attached to each actor
  proxies,     \* proxy_registry of each node
  asked,       \* path that each listener asked for
  answers      \* what each listener received

actorVars == <<life, registry, named, monitors>>
nodeVars == <<app, queue, writing, wire, tasks, proxies>>
userVars == <<foreign, app_ids, calls, asked>>
vars == <<userVars, intruded, nodeVars, actorVars, answers>>

Peer(n) == CHOOSE m \in Nodes : m # n

-----------------------------------------------------------------------------
(* Data *)

(* We currently support two path formats, for IDs and for names. *)
Paths == [by : {"id", "name"}, whom : Actors] \cup [by : {"other"}]
NoPath == [by |-> "none"]

(* Payloads, by what they deserialize to. *)
Empty == [is |-> "empty"]
Garbage == [is |-> "garbage"]
Payloads ==
  {Empty, Garbage}
    \cup [is : {"handshake"}, node : Nodes \cup {Nobody}, ids : SUBSET AppIds]
    \cup [is : {"message"}, src : Actors \cup {Nobody}, dst : Actors \cup {Nobody}]
    \cup [is : {"path"}, path : Paths]
    \cup [is : {"aid"}, aid : Actors \cup {Nobody}]
    \cup [is : {"reason"}]

version == 1
message_types == {"handshake", "actor_message", "resolve_request", "resolve_response",
                  "monitor_message", "down_message", "heartbeat"}

(* A header and its payload; op is the operation data: the version, a      *)
(* request ID, an actor or, of an actor message, a message ID.             *)
Packets == [type : message_types \cup {"other"}, op : Nat \cup Actors, payload : Payloads]
packet(t, op, pl) == [type |-> t, op |-> op, payload |-> pl]

Events == [is : {"resolve"}, path : Paths, listener : Listeners]
            \cup [is : {"new_proxy", "local_actor_down"}, id : Actors]
Messages == [is : {"message"}, src : Actors \cup {Nobody}, dst : Actors \cup {Nobody}]

States == {"await_handshake_header", "await_handshake_payload", "await_header",
           "await_payload"}
NoPacket == packet("other", 0, Empty)

ASSUME PeersAssumption ==
  /\ \E m, n \in Nodes : m # n /\ Nodes = {m, n}
  /\ Home \in [Actors -> Nodes] /\ Names \subseteq Actors
  /\ Asks \in [Listeners -> [node : Nodes, paths : SUBSET Paths]]
  /\ Configs \subseteq [Nodes -> SUBSET AppIds]
  /\ Foreigner \in Nodes /\ Nobody \notin Actors
  /\ ForeignPackets \subseteq Packets
  /\ MaxCalls \in Nat /\ MaxForeign \in Nat

(* pending_resolves_ is a function of the request IDs not answered yet;    *)
(* reading: the transport did not give up on its input.                    *)
IsApp(a) ==
  /\ a.state \in States /\ a.hdr \in Packets /\ a.peer_id \in Nodes \cup {Nobody}
  /\ a.next_request_id \in Nat /\ a.reading \in BOOLEAN /\ a.parent \in BOOLEAN
  /\ DOMAIN a.pending_resolves \subseteq 1 .. (a.next_request_id - 1)
  /\ \A i \in DOMAIN a.pending_resolves : a.pending_resolves[i] \in Listeners

TypeOK ==
  /\ foreign \in BOOLEAN /\ calls \in 0 .. MaxCalls /\ intruded \in 0 .. MaxForeign
  /\ app_ids \in [Nodes -> SUBSET AppIds]
  /\ \A n \in Nodes : IsApp(app[n]) /\ queue[n] \in Queue(Events, Messages)
                      /\ wire[n] \in Seq(Packets)
  /\ writing \in [Nodes -> BOOLEAN] /\ tasks \in [Nodes -> Seq(Payloads)]
  /\ life \in [Actors -> {"alive", "terminated", "unmonitored", "gone"}]
  /\ registry \subseteq Actors /\ named \subseteq Actors
  /\ monitors \in [Actors -> Nat] /\ proxies \in [Nodes -> SUBSET Actors]
  /\ asked \in [Listeners -> Paths \cup {NoPath}]
  /\ answers \in [Listeners -> Seq({"proxy", "nullptr", "sec", "error"}
                                     \X (Actors \cup {Nobody}))]

-----------------------------------------------------------------------------
(* application::init writes the handshake. *)
handshake(n) ==
  packet("handshake", version, [is |-> "handshake", node |-> n, ids |-> app_ids[n]])

Init ==
  /\ foreign \in BOOLEAN /\ calls = 0 /\ intruded = 0
  /\ app_ids \in Configs
  /\ foreign => app_ids[Foreigner] = app_ids[Peer(Foreigner)]
  /\ app = [n \in Nodes |->
              [state |-> "await_handshake_header", hdr |-> NoPacket, peer_id |-> Nobody,
               pending_resolves |-> <<>>, next_request_id |-> 1,
               reading |-> TRUE, parent |-> TRUE]]
  /\ queue = [n \in Nodes |-> NewQueue]
  /\ writing = [n \in Nodes |-> FALSE]
  /\ wire = [n \in Nodes |-> IF foreign THEN <<>> ELSE <<handshake(Peer(n))>>]
  /\ tasks = [n \in Nodes |-> <<>>]
  /\ life = [a \in Actors |-> "alive"]
  /\ registry = {} /\ named = {}
  /\ monitors = [a \in Actors |-> 0]
  /\ proxies = [n \in Nodes |-> {}]
  /\ asked = [l \in Listeners |-> NoPath]
  /\ answers = [l \in Listeners |-> <<>>]

(* A node on which the repository's code runs. *)
Native(n) == ~(foreign /\ n = Foreigner)

(* actor_registry::put: for an actor that has terminated, the functor that *)
(* erases it again runs at once.                                           *)
put(S) == registry' = registry \cup {a \in S : life[a] = "alive"}

(* endpoint_manager::enqueue registers the manager for writing if it took  *)
(* the mark of a blocked reader and the multiplexer still exists.          *)
Wakes(n) == queue[n].blocked /\ app[n].parent
enqueue(n, q) ==
  /\ queue' = [queue EXCEPT ![n] = q]
  /\ writing' = [writing EXCEPT ![n] = @ \/ Wakes(n)]

enqueue_event(n, e) == enqueue(n, push_event(queue[n], e))

(* proxy_registry::get_or_put: the constructor of a new proxy enqueues an  *)
(* event for its manager.                                                  *)
get_or_put(n, a) ==
  /\ proxies' = [proxies EXCEPT ![n] = @ \cup {a}]
  /\ IF a \in proxies[n] THEN UNCHANGED <<queue, writing>>
     ELSE enqueue_event(n, [is |-> "new_proxy", id |-> a])

Answer(l, kind, a) == answers' = [answers EXCEPT ![l] = Append(@, <<kind, a>>)]

-----------------------------------------------------------------------------
(* Users and actors *)

(* endpoint_manager::resolve, for a manager that get_or_connect returned.  *)
(* Once the multiplexer is gone, a caller that would have to wake it tells *)
(* the listener, although the event is in the queue by then.               *)
Resolve(l, path) ==
  LET n == Asks[l].node
  IN  /\ asked[l] = NoPath /\ path \in Asks[l].paths /\ Native(n)
      /\ calls < MaxCalls /\ calls' = calls + 1
      /\ asked' = [asked EXCEPT ![l] = path]
      /\ enqueue_event(n, [is |-> "resolve", path |-> path, listener |-> l])
      /\ IF queue[n].blocked /\ ~app[n].parent THEN Answer(l, "error", Nobody)
         ELSE UNCHANGED answers
      /\ UNCHANGED <<foreign, app_ids, intruded, app, wire, tasks, proxies, actorVars>>

(* middleman::publish *)
Publish(a) ==
  /\ a \in Names \ named /\ life[a] = "alive" /\ Native(Home[a])
  /\ named' = named \cup {a}
  /\ UNCHANGED <<userVars, intruded, nodeVars, life, registry, monitors, answers>>

(* actor_proxy_impl::enqueue: the sender is an actor or anonymous. *)
Send(n, src, dst) ==
  /\ calls < MaxCalls /\ calls' = calls + 1
  /\ Native(n)
  /\ src # Nobody => Home[src] = n /\ life[src] = "alive"
  /\ dst \in proxies[n]
  /\ enqueue(n, push_message(queue[n], [is |-> "message", src |-> src, dst |-> dst]))
  /\ UNCHANGED <<foreign, app_ids, asked, intruded, app, wire, tasks, proxies, actorVars, answers>>

(* An actor that terminates runs the functors attached to it, last ones    *)
(* first: those of monitors, then the one that erases it from the registry.*)
Terminate(a) ==
  /\ life[a] = "alive" /\ Native(Home[a])
  /\ life' = [life EXCEPT ![a] = "terminated"]
  /\ UNCHANGED <<userVars, intruded, nodeVars, registry, named, monitors, answers>>

RunMonitors(a) ==
  /\ life[a] = "terminated"
  /\ IF monitors[a] = 0
     THEN /\ life' = [life EXCEPT ![a] = "unmonitored"]
          /\ UNCHANGED <<monitors, queue, writing>>
     ELSE /\ monitors' = [monitors EXCEPT ![a] = @ - 1]
          /\ enqueue_event(Home[a], [is |-> "local_actor_down", id |-> a])
          /\ UNCHANGED life
  /\ UNCHANGED <<userVars, intruded, app, wire, tasks, proxies, registry, named, answers>>

LeaveRegistry(a) ==
  /\ life[a] = "unmonitored"
  /\ life' = [life EXCEPT ![a] = "gone"]
  /\ registry' = registry \ {a} /\ named' = named \ {a}
  /\ UNCHANGED <<userVars, intruded, nodeVars, monitors, answers>>

(* Backends stop, then the multiplexer goes.  One node stops at most. *)
Stop(n) ==
  /\ \A m \in Nodes : app[m].parent
  /\ Native(n)
  /\ app' = [app EXCEPT ![n].parent = FALSE, ![n].reading = FALSE]
  /\ writing' = [writing EXCEPT ![n] = FALSE]
  /\ proxies' = [proxies EXCEPT ![n] = {}]
  /\ UNCHANGED <<userVars, intruded, queue, wire, tasks, actorVars, answers>>

-----------------------------------------------------------------------------
(* Write events *)

(* The lookups among the events es, and the ID that each of them gets:     *)
(* next_request_id_ grows with every one.                                  *)
Lookups(es) == {i \in DOMAIN es : es[i].is = "resolve"}
request_id(a, es, i) == a.next_request_id + Cardinality({j \in Lookups(es) : j < i})

(* pending_resolves_ after these. *)
Pending(a, es) ==
  LET ids == {request_id(a, es, i) : i \in Lookups(es)}
  IN  [r \in DOMAIN a.pending_resolves \cup ids |->
         IF r \in ids
         THEN es[CHOOSE i \in Lookups(es) : request_id(a, es, i) = r].listener
         ELSE a.pending_resolves[r]]

(* Mutant: request IDs are not advanced. *)
resolve_same(a, es) == [a EXCEPT !.pending_resolves = Pending(a, es)]

(* application::resolve, for each of the lookups. *)
resolve(a, es) ==
  [a EXCEPT !.pending_resolves = Pending(a, es),
            !.next_request_id = @ + Cardinality(Lookups(es))]

resolve_request(id, path) == packet("resolve_request", id, [is |-> "path", path |-> path])

(* Mutant: the peer is not asked to monitor the actor. *)
new_proxy_silent(a) == packet("heartbeat", 0, Empty)

new_proxy(a) == packet("monitor_message", a, Empty)
local_actor_down(a) == packet("down_message", a, [is |-> "reason"])

(* The packet that the application writes for the i-th event. *)
HandleEvent(a, es, i) ==
  CASE es[i].is = "resolve" -> resolve_request(request_id(a, es, i), es[i].path)
    [] es[i].is = "new_proxy" -> new_proxy(es[i].id)
    [] es[i].is = "local_actor_down" -> local_actor_down(es[i].id)

(* Mutant: the sender is not put into the registry. *)
Senders_none(ms) == {}

(* application::write_message puts the sender into the registry. *)
Senders(ms) == {ms[i].src : i \in DOMAIN ms} \ {Nobody}
write_message(m) == packet("actor_message", 0, m)

(* endpoint_manager_impl::handle_write_event: first all events, then all   *)
(* messages; the queue is blocked after the last one.                      *)
WriteEvent(n) ==
  LET q == queue[n]
      out == [i \in DOMAIN q.events |-> HandleEvent(app[n], q.events, i)]
               \o [i \in DOMAIN q.messages |-> write_message(q.messages[i])]
  IN  /\ writing[n]
      /\ app' = [app EXCEPT ![n] = resolve(app[n], q.events)]
      /\ wire' = [wire EXCEPT ![Peer(n)] = IF Native(Peer(n)) THEN @ \o out ELSE @]
      /\ put(Senders(q.messages))
      /\ queue' = [queue EXCEPT ![n] = NewQueue]
      /\ writing' = [writing EXCEPT ![n] = FALSE]
      /\ UNCHANGED <<userVars, intruded, tasks, life, named, monitors, proxies, answers>>

-----------------------------------------------------------------------------
(* Read events: the application gets a header, then its payload.  A failing*)
(* handler ends reading.                                                   *)

(* What is on the wires once the application has the bytes it asked for. *)
Rest(n) ==
  [wire EXCEPT ![n] = IF app[n].state \in {"await_header", "await_handshake_header"}
                      THEN Tail(@) ELSE @]
NoReply(n) == wire' = Rest(n)
Reply(n, p) ==
  wire' = [Rest(n) EXCEPT ![Peer(n)] = IF Native(Peer(n)) THEN Append(@, p) ELSE @]

Fail(n, a) ==
  /\ app' = [app EXCEPT ![n] = [a EXCEPT !.reading = FALSE]]
  /\ UNCHANGED <<queue, writing, tasks, proxies, registry, monitors, answers>>

(* handle_handshake *)
ValidHandshake(n, pl) ==
  /\ pl.is = "handshake" /\ pl.node # Nobody
  /\ pl.ids \cap app_ids[n] # {}

HandshakePayload(n) ==
  /\ app[n].state = "await_handshake_payload" /\ app[n].reading
  /\ IF ValidHandshake(n, app[n].hdr.payload)
     THEN /\ app' = [app EXCEPT ![n].state = "await_header",
                                ![n].peer_id = app[n].hdr.payload.node]
          /\ UNCHANGED <<queue, writing, tasks, proxies, registry, monitors, answers>>
     ELSE Fail(n, app[n])
  /\ UNCHANGED <<userVars, intruded, wire, life, named>>

(* A worker or, when all are busy, the multiplexer's thread deserializes   *)
(* the message: see BaspDelivery.                                          *)
handle_actor_message(n, a, pl) ==
  /\ app' = [app EXCEPT ![n] = a]
  /\ tasks' = [tasks EXCEPT ![n] = Append(@, pl)]
  /\ NoReply(n)
  /\ UNCHANGED <<queue, writing, proxies, registry, monitors, answers>>

resolve_local_path(n, path) ==
  IF path.by = "other" THEN Nobody
  ELSE IF Home[path.whom] = n
          /\ path.whom \in (IF path.by = "id" THEN registry ELSE named)
  THEN path.whom ELSE Nobody

(* Mutant: a path that leads nowhere is not answered. *)
handle_resolve_request_mute(n, a, op, pl) ==
  LET result == resolve_local_path(n, pl.path)
  IN  /\ pl.is = "path" /\ put({result} \ {Nobody})
      /\ IF result = Nobody THEN NoReply(n)
         ELSE Reply(n, packet("resolve_response", op, [is |-> "aid", aid |-> result]))
      /\ app' = [app EXCEPT ![n] = a]
      /\ UNCHANGED <<queue, writing, tasks, proxies, monitors, answers>>

handle_resolve_request(n, a, op, pl) ==
  IF pl.is # "path" THEN Fail(n, a) /\ NoReply(n)
  ELSE LET result == resolve_local_path(n, pl.path)
       IN  /\ put({result} \ {Nobody})
           /\ Reply(n, packet("resolve_response", op, [is |-> "aid", aid |-> result]))
           /\ app' = [app EXCEPT ![n] = a]
           /\ UNCHANGED <<queue, writing, tasks, proxies, monitors, answers>>

(* Mutant: the listener stays in pending_resolves_. *)
Answered_kept(a, op) == a

(* The guard erases the listener on every path. *)
Answered(a, op) ==
  [a EXCEPT !.pending_resolves =
     [i \in DOMAIN a.pending_resolves \ {op} |-> a.pending_resolves[i]]]

handle_resolve_response(n, a, op, pl) ==
  LET l == a.pending_resolves[op]
  IN  /\ IF op \notin DOMAIN a.pending_resolves
         THEN /\ app' = [app EXCEPT ![n] = a]
              /\ UNCHANGED <<queue, writing, proxies, answers>>
         ELSE IF pl.is # "aid"
         THEN /\ Answer(l, "sec", Nobody)
              /\ app' = [app EXCEPT ![n] = [Answered(a, op) EXCEPT !.reading = FALSE]]
              /\ UNCHANGED <<queue, writing, proxies>>
         ELSE /\ app' = [app EXCEPT ![n] = Answered(a, op)]
              /\ IF pl.aid = Nobody
                 THEN Answer(l, "nullptr", Nobody) /\ UNCHANGED <<queue, writing, proxies>>
                 ELSE Answer(l, "proxy", pl.aid) /\ get_or_put(n, pl.aid)
      /\ NoReply(n)
      /\ UNCHANGED <<tasks, registry, monitors>>

(* A functor attached to an actor that has terminated runs at once.  An    *)
(* actor that the registry does not know is down.                          *)
handle_monitor_message(n, a, aid, pl) ==
  IF pl # Empty THEN Fail(n, a) /\ NoReply(n)
  ELSE /\ app' = [app EXCEPT ![n] = a]
       /\ IF aid \notin registry
          THEN Reply(n, packet("down_message", aid, [is |-> "reason"]))
               /\ UNCHANGED <<queue, writing, monitors>>
          ELSE IF life[aid] = "alive"
          THEN monitors' = [monitors EXCEPT ![aid] = @ + 1]
               /\ NoReply(n) /\ UNCHANGED <<queue, writing>>
          ELSE enqueue_event(n, [is |-> "local_actor_down", id |-> aid])
               /\ NoReply(n) /\ UNCHANGED monitors
       /\ UNCHANGED <<tasks, proxies, registry, answers>>

handle_down_message(n, a, aid, pl) ==
  IF pl.is # "reason" THEN Fail(n, a) /\ NoReply(n)
  ELSE /\ app' = [app EXCEPT ![n] = a]
       /\ proxies' = [proxies EXCEPT ![n] = @ \ {aid}]
       /\ NoReply(n)
       /\ UNCHANGED <<queue, writing, tasks, registry, monitors, answers>>

handle_heartbeat(n, a) ==
  /\ app' = [app EXCEPT ![n] = a]
  /\ NoReply(n)
  /\ UNCHANGED <<queue, writing, tasks, proxies, registry, monitors, answers>>

(* application::handle for a packet; the state is a's. *)
Handle(n, a, p) ==
  CASE p.type = "actor_message" -> handle_actor_message(n, a, p.payload)
    [] p.type = "resolve_request" -> handle_resolve_request(n, a, p.op, p.payload)
    [] p.type = "resolve_response" -> handle_resolve_response(n, a, p.op, p.payload)
    [] p.type = "monitor_message" -> handle_monitor_message(n, a, p.op, p.payload)
    [] p.type = "down_message" -> handle_down_message(n, a, p.op, p.payload)
    [] p.type = "heartbeat" -> handle_heartbeat(n, a)
    [] OTHER -> Fail(n, a) /\ NoReply(n)

HasHeader(n) == app[n].reading /\ wire[n] # <<>> /\ Native(n)

HandshakeHeader(n) ==
  LET p == Head(wire[n])
  IN  /\ app[n].state = "await_handshake_header" /\ HasHeader(n)
      /\ IF p.type = "handshake" /\ p.op = version /\ p.payload # Empty
         THEN /\ app' = [app EXCEPT ![n].state = "await_handshake_payload", ![n].hdr = p]
              /\ UNCHANGED <<queue, writing, tasks, proxies, registry, monitors, answers>>
         ELSE Fail(n, app[n])
      /\ NoReply(n)
      /\ UNCHANGED <<userVars, intruded, life, named>>

Header(n) ==
  LET p == Head(wire[n])
  IN  /\ app[n].state = "await_header" /\ HasHeader(n)
      /\ IF p.payload = Empty THEN Handle(n, app[n], p)
         ELSE /\ app' = [app EXCEPT ![n].state = "await_payload", ![n].hdr = p]
              /\ NoReply(n)
              /\ UNCHANGED <<queue, writing, tasks, proxies, registry, monitors, answers>>
      /\ UNCHANGED <<userVars, intruded, life, named>>

(* hdr_ keeps its value; the model forgets it. *)
Payload(n) ==
  /\ app[n].state = "await_payload" /\ app[n].reading
  /\ Handle(n, [app[n] EXCEPT !.state = "await_header", !.hdr = NoPacket], app[n].hdr)
  /\ UNCHANGED <<userVars, intruded, life, named>>

(* remote_message_handler: a receiver that is not known is the end of the  *)
(* message; otherwise the sender gets a proxy.  Workers may overtake each  *)
(* other here.                                                             *)
RunTask(n, i) ==
  LET m == tasks[n][i]
  IN  /\ tasks' = [tasks EXCEPT ![n] = RemoveAt(@, i)]
      /\ IF m.is = "message" /\ m.dst \in registry /\ m.src # Nobody
         THEN get_or_put(n, m.src)
         ELSE UNCHANGED <<queue, writing, proxies>>
      /\ UNCHANGED <<userVars, intruded, app, wire, actorVars, answers>>

(* Nothing is known of a foreign program.  It waits until its packets were *)
(* read.                                                                   *)
ForeignSends(p) ==
  /\ foreign /\ intruded < MaxForeign /\ wire[Peer(Foreigner)] = <<>>
  /\ intruded' = intruded + 1
  /\ wire' = [wire EXCEPT ![Peer(Foreigner)] = Append(@, p)]
  /\ UNCHANGED <<userVars, app, queue, writing, tasks, proxies, actorVars, answers>>

-----------------------------------------------------------------------------
UserStep ==
  \/ \E l \in Listeners, path \in Paths : Resolve(l, path)
  \/ \E a \in Actors : Publish(a) \/ Terminate(a)
  \/ \E n \in Nodes, src \in Actors \cup {Nobody}, dst \in Actors : Send(n, src, dst)
  \/ \E n \in Nodes : Stop(n)
  \/ \E p \in ForeignPackets : ForeignSends(p)

ActorStep == \E a \in Actors : RunMonitors(a) \/ LeaveRegistry(a)
ReadStep(n) == HandshakeHeader(n) \/ HandshakePayload(n) \/ Header(n) \/ Payload(n)
TaskStep(n) == \E i \in DOMAIN tasks[n] : RunTask(n, i)

Next ==
  \/ UserStep
  \/ ActorStep
  \/ \E n \in Nodes : WriteEvent(n) \/ ReadStep(n) \/ TaskStep(n)

(* poll() reports a socket that stays readable or writable, the scheduler  *)
(* runs workers and terminating actors finish.  The conditions spell out   *)
(* when the steps are enabled.                                             *)
CanRead(n) ==
  app[n].reading /\ Native(n)
    /\ (wire[n] # <<>> \/ app[n].state \in {"await_payload", "await_handshake_payload"})
CanFinish == \E a \in Actors : life[a] \in {"terminated", "unmonitored"}

Fairness ==
  /\ \A n \in Nodes : /\ []<>~writing[n] \/ []<><<WriteEvent(n)>>_vars
                      /\ []<>~CanRead(n) \/ []<><<ReadStep(n)>>_vars
                      /\ []<>(tasks[n] = <<>>) \/ []<><<TaskStep(n)>>_vars
  /\ WF_vars(ActorStep)

Spec == Init /\ [][Next]_vars /\ Fairness

-----------------------------------------------------------------------------
(* Properties *)

(* endpoint_manager_impl.hpp, application.hpp: a listener hears at most    *)
(* once, whatever the peer sends (pending_resolves_ forgets a request that *)
(* was answered) - unless the multiplexer was gone, when resolve() reports *)
(* an error.  A peer that runs this code names the actor that the listener *)
(* asked for.                                                              *)
RightAnswer ==
  \A l \in Listeners :
    /\ Len(answers[l]) <= 1
    /\ \A i \in DOMAIN answers[l] :
         /\ asked[l] # NoPath
         /\ ~foreign /\ answers[l][i][1] = "proxy"
              => asked[l].by # "other" /\ answers[l][i][2] = asked[l].whom

(* handle_down_message kills a proxy, handle_monitor_message reports actors*)
(* that the registry does not find: since whoever tells the peer an ID puts*)
(* the actor into the registry first, a proxy goes only after its actor    *)
(* terminated, or when the node stops.                                     *)
NoFalseDown ==
  [][\A n \in Nodes : \A a \in proxies[n] \ proxies'[n] :
       foreign \/ life[a] # "alive" \/ ~app'[n].parent]_vars

Broken == foreign \/ \E n \in Nodes : ~app[n].reading

(* actor_proxy_impl.cpp, new_proxy: while the connection works, the proxy  *)
(* of an actor that terminated goes, even when the actor terminates before *)
(* the monitor message arrives, or a late message, deserialized by a       *)
(* worker, brings the proxy back after the down message.                   *)
DeadProxiesGo ==
  \A n \in Nodes, a \in Actors :
    (a \in proxies[n] /\ life[a] = "gone") ~> (a \notin proxies[n] \/ Broken)

(* transport_base.hpp: resolve "sends the resolved actor to listener on    *)
(* success - an `error` otherwise", while the connection works.            *)
AllAnswered ==
  \A l \in Listeners : asked[l] # NoPath ~> (answers[l] # <<>> \/ Broken)
=============================================================================
