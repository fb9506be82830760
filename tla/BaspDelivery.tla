---------------------------- MODULE BaspDelivery ----------------------------
(***************************************************************************)
(* How one BASP connection delivers actor messages.  The multiplexer's     *)
(* thread takes a message from the wire (application::handle_actor_message)*)
(* and either launches an idle worker from the hub or, out of workers,     *)
(* deserializes the message itself.  Workers run on scheduler threads, in  *)
(* any order and in parallel; the message_queue restores the order.        *)
(***************************************************************************)
EXTENDS MessageQueue, FiniteSets

CONSTANTS Workers,   \* the BASP workers of the connection's hub
          Mpx,       \* the multiplexer's thread, deserializing inline
          Payloads,  \* the payloads that may arrive
          Mortal,    \* the receivers that may leave the actor registry
          Idle       \* the task of a handler that has nothing to do

VARIABLES hub,        \* idle workers
          task,       \* what each handler works on
          registry,   \* local actors that registry.get() finds
          abandoned   \* history: IDs that were drawn and given up

bdVars == <<mqVars, hub, task, registry, abandoned>>

Handlers == Workers \cup {Mpx}

(* A payload that deserializes or not and the actor ID it addresses; the   *)
(* ID 0 of an unaddressed message is NoReceiver.                           *)
Payload == [valid : BOOLEAN, dst : Receivers \cup {NoReceiver}]

(* A task is "scheduled" until its handler ran; "resolved" once the handler*)
(* holds a reference to the receiver, "done" when it only has to clean up. *)
Task == [stage : {"scheduled", "resolved", "done"}, id : Ids, payload : Payloads]

ASSUME BDAssumption ==
  /\ Mpx \notin Workers
  /\ Payloads \subseteq Payload
  /\ Mortal \subseteq Receivers
  /\ Idle \notin Task

TypeOK ==
  /\ MQTypeOK
  /\ hub \subseteq Workers
  /\ task \in [Handlers -> Task \cup {Idle}]
  /\ registry \subseteq Receivers
  /\ abandoned \subseteq Ids

Init ==
  /\ MQInit
  /\ hub = Workers
  /\ task = [h \in Handlers |-> Idle]
  /\ registry = Receivers
  /\ abandoned = {}

-----------------------------------------------------------------------------
(* The handler draws an ID in the multiplexer's thread, which keeps IDs in *)
(* the order of arrival: worker::launch or the inline handler's constructor*)
Accept(h, p) ==
  /\ task[Mpx] = Idle
  /\ NewId
  /\ task' = [task EXCEPT ![h] = [stage |-> "scheduled", id |-> next_id,
                                  payload |-> p]]
  /\ UNCHANGED <<registry, abandoned>>

(* Mutant: the hub does not remove the worker it hands out. *)
LaunchKeeps(w, p) ==
  /\ w \in hub
  /\ UNCHANGED hub
  /\ Accept(w, p)

(* Mutant: a worker is launched that is at work already. *)
LaunchBusy(w, p) ==
  /\ hub' = hub \ {w}
  /\ Accept(w, p)

Launch(w, p) ==
  /\ w \in hub
  /\ hub' = hub \ {w}
  /\ Accept(w, p)

RunInline(p) ==
  /\ hub = {}
  /\ Accept(Mpx, p)
  /\ UNCHANGED hub

(* handle_remote_message up to the lookup in the actor registry.  The three*)
(* early returns leave the message ID behind.                              *)
Resolve(h) ==
  /\ task[h] # Idle /\ task[h].stage = "scheduled"
  /\ LET p == task[h].payload
         found == p.valid /\ p.dst # NoReceiver /\ p.dst \in registry
     IN  /\ task' = [task EXCEPT ![h].stage = IF found THEN "resolved"
                                                       ELSE "done"]
         /\ abandoned' = IF found THEN abandoned
                                  ELSE abandoned \cup {task[h].id}
  /\ UNCHANGED <<mqVars, hub, registry>>

(* The remainder of handle_remote_message: queue_->push. *)
Ship(h) ==
  /\ task[h] # Idle /\ task[h].stage = "resolved"
  /\ Push(task[h].id, task[h].payload.dst)
  /\ task' = [task EXCEPT ![h].stage = "done"]
  /\ UNCHANGED <<hub, registry, abandoned>>

(* worker::resume returns the worker to its hub; the inline handler goes   *)
(* out of scope.                                                           *)
Return(h) ==
  /\ task[h] # Idle /\ task[h].stage = "done"
  /\ task' = [task EXCEPT ![h] = Idle]
  /\ hub' = IF h \in Workers THEN hub \cup {h} ELSE hub
  /\ UNCHANGED <<mqVars, registry, abandoned>>

(* A local actor terminates and leaves the registry. *)
Terminate(a) ==
  /\ a \in registry \cap Mortal
  /\ registry' = registry \ {a}
  /\ UNCHANGED <<mqVars, hub, task, abandoned>>

Next ==
  \/ \E w \in Workers, p \in Payloads : Launch(w, p)
  \/ \E p \in Payloads : RunInline(p)
  \/ \E h \in Handlers : Resolve(h) \/ Ship(h) \/ Return(h)
  \/ \E a \in Receivers : Terminate(a)

(* The scheduler runs every enqueued worker and the multiplexer's thread   *)
(* finishes what it started; nobody has to send another message.           *)
Fairness == \A h \in Handlers : WF_bdVars(Resolve(h) \/ Ship(h) \/ Return(h))

Spec == Init /\ [][Next]_bdVars /\ Fairness

-----------------------------------------------------------------------------
Active == {h \in Handlers : task[h] # Idle}

(* CAF_ASSERT(id >= next_undelivered) and CAF_ASSERT(id < next_id) hold    *)
(* for whichever handler calls push() next, and no two handlers hold the   *)
(* same ID.                                                                *)
PushAssertions ==
  \A h \in Active : task[h].stage = "resolved" =>
    /\ next_undelivered <= task[h].id
    /\ task[h].id < next_id
    /\ \A i \in DOMAIN pending : pending[i].id # task[h].id
    /\ \A g \in Active \ {h} : task[g].id # task[h].id

(* No message is lost between the wire and the actors: every drawn ID is   *)
(* shipped, stashed, in the hands of a handler or given up.                *)
NoneLost ==
  \A id \in 0 .. (next_id - 1) :
    \/ id < next_undelivered
    \/ \E i \in DOMAIN pending : pending[i].id = id
    \/ \E h \in Active : task[h].id = id /\ task[h].stage # "done"
    \/ id \in abandoned

(* Every ID that was drawn is in one place, and where push() expects it. *)
IdsAccounted == PushAssertions /\ NoneLost

(* Only an ID that its handler gave up can keep messages in the queue of   *)
(* an idle connection.  (With drop(), which message_queue.hpp:40 offers    *)
(* for this case and nothing calls, there would be none.)                  *)
OnlyAbandonedBlocks ==
  Active = {} /\ pending # <<>> => next_undelivered \in abandoned

(* Every message leaves the queue unless it, or one before it, was given   *)
(* up: no other interleaving of the handlers keeps a message back.         *)
EventuallyShipped ==
  \A id \in Ids : (id < next_id) ~> \/ id < next_undelivered
                                    \/ \E a \in abandoned : a <= id

-----------------------------------------------------------------------------
(* The inductive invariant: a drawn ID belongs to the one handler that     *)
(* works on it until the handler pushes it or gives it up.                 *)
Undone == {h \in Active : task[h].stage # "done"}

OwnedIds ==
  /\ \A h \in Undone : task[h].id \in issued \ abandoned
  /\ \A h \in Active : task[h].id < next_id
  /\ \A g, h \in Active : task[g].id = task[h].id => g = h
  /\ \A id \in issued : id \in abandoned \/ \E h \in Undone : task[h].id = id

BDInv ==
  /\ TypeOK
  /\ MQInv
  /\ \A w \in hub : task[w] = Idle
  /\ \A id \in abandoned : id < next_id
  /\ OwnedIds
=============================================================================
