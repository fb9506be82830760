---------------------------- MODULE MessageQueue ----------------------------
(***************************************************************************)
(* caf::net::basp::message_queue: the queue through which the BASP workers *)
(* of one connection ship deserialized messages, in the order in which the *)
(* messages were taken from the wire.                                      *)
(*                                                                         *)
(* Every operation holds message_queue::lock from its first to its last    *)
(* statement, so each one is a single action.  The class does not know its *)
(* callers; all it relies on is that an ID drawn from new_id is handed     *)
(* back at most once.  The variable `issued' holds the IDs that callers    *)
(* drew and did not hand back yet.                                         *)
(***************************************************************************)
EXTENDS Naturals, SequencesExt

CONSTANTS Receivers,   \* local actors that messages are addressed to
          NoReceiver,  \* the nullptr receiver that drop() passes to push()
          MaxId        \* bound on the IDs that one behavior draws

ASSUME MQAssumption ==
  /\ NoReceiver \notin Receivers
  /\ MaxId \in Nat

VARIABLES next_id,           \* the next available ascending ID
          next_undelivered,  \* the next ID that we can ship
          pending,           \* messages that got ready too early, sorted
          issued,            \* drawn IDs their callers still hold
          shipped            \* history: what left the queue, in order

mqVars == <<next_id, next_undelivered, pending, issued, shipped>>

Ids == 0 .. MaxId

(* struct actor_msg; its content is identified with its ID. *)
ActorMsg == [id : Ids, receiver : Receivers \cup {NoReceiver}]

MQTypeOK ==
  /\ next_id \in 0 .. (MaxId + 1)
  /\ next_undelivered \in Nat
  /\ pending \in Seq(ActorMsg)
  /\ issued \subseteq Ids
  /\ shipped \in Seq(ActorMsg)

MQInit ==
  /\ next_id = 0
  /\ next_undelivered = 0
  /\ pending = <<>>
  /\ issued = {}
  /\ shipped = <<>>

-----------------------------------------------------------------------------
(* Mutant: the delivery loop stops one message too early. *)
ReadyRunShort(q, next) ==
  LET k == CHOOSE k \in 0 .. Len(q) :
             /\ \A i \in 1 .. k : q[i].id = next + i - 1
             /\ k < Len(q) => q[k + 1].id # next + k
  IN  IF k = 0 THEN 0 ELSE k - 1

(* Length of the run of consecutive IDs, starting with `next', at the      *)
(* front of q: how far the delivery loop of push() gets.                   *)
ReadyRun(q, next) ==
  CHOOSE k \in 0 .. Len(q) :
    /\ \A i \in 1 .. k : q[i].id = next + i - 1
    /\ k < Len(q) => q[k + 1].id # next + k

(* Mutant: messages that got ready too early are appended. *)
InsertionPointEnd(q, id) == Len(q) + 1

(* find_if(first, last, x.id >= id): the position to insert `id' at. *)
InsertionPoint(q, id) ==
  CHOOSE k \in 1 .. (Len(q) + 1) :
    /\ \A i \in 1 .. (k - 1) : q[i].id < id
    /\ k <= Len(q) => q[k].id >= id

(* The branch of push() for the message that everyone is waiting for. *)
ShipHead(msg) ==
  LET k == ReadyRun(pending, msg.id + 1)
  IN  /\ shipped' = (shipped \o <<msg>>) \o SubSeq(pending, 1, k)
      /\ pending' = SubSeq(pending, k + 1, Len(pending))
      /\ next_undelivered' = msg.id + 1 + k

(* The branch of push() for a message that got ready too early. *)
Stash(msg) ==
  /\ pending' = InsertAt(pending, InsertionPoint(pending, msg.id), msg)
  /\ UNCHANGED <<next_undelivered, shipped>>

(* Mutant: a message that got ready too early is shipped as well. *)
PushMsgEager(msg) == IF msg.id >= next_undelivered THEN ShipHead(msg) ELSE Stash(msg)

(* message_queue::push without the bookkeeping of who holds which ID. *)
PushMsg(msg) == IF msg.id = next_undelivered THEN ShipHead(msg) ELSE Stash(msg)

NewId ==
  /\ next_id <= MaxId
  /\ next_id' = next_id + 1
  /\ issued' = issued \cup {next_id}
  /\ UNCHANGED <<next_undelivered, pending, shipped>>

Push(id, receiver) ==
  /\ id \in issued
  /\ issued' = issued \ {id}
  /\ PushMsg([id |-> id, receiver |-> receiver])
  /\ UNCHANGED next_id

Drop(id) == Push(id, NoReceiver)

MQNext ==
  \/ NewId
  \/ \E id \in issued, r \in Receivers : Push(id, r)
  \/ \E id \in issued : Drop(id)

MQSpec == MQInit /\ [][MQNext]_mqVars

-----------------------------------------------------------------------------
(* The queue ships exactly the IDs 0, 1, 2, ... in this order: no actor    *)
(* receives a message before one that was taken from the wire earlier, and *)
(* none twice (message_queue.hpp:17).                                      *)
ShipsInOrder ==
  /\ Len(shipped) = next_undelivered
  /\ \A i \in DOMAIN shipped : shipped[i].id = i - 1

(* The vector of pending messages is sorted without duplicates and holds   *)
(* nothing that push() could have shipped (message_queue.hpp:58).          *)
PendingIsBlocked ==
  \A i \in DOMAIN pending :
    /\ pending[i].id > next_undelivered
    /\ \A j \in 1 .. (i - 1) : pending[j].id < pending[i].id

(* CAF_ASSERT(id >= next_undelivered) and CAF_ASSERT(id < next_id) hold    *)
(* when a caller hands back an ID, whatever the other callers did since it *)
(* was drawn, and the ID is not in the vector yet.                         *)
IssuedInWindow ==
  \A id \in issued :
    /\ next_undelivered <= id
    /\ id < next_id
    /\ \A i \in DOMAIN pending : pending[i].id # id

(* Once every caller pushed or dropped its ID, nothing waits any longer:   *)
(* a dropped ID is skipped as message_queue::drop documents.               *)
QueueDrains == issued = {} => pending = <<>> /\ next_undelivered = next_id

(* The queue delivers as a single thread would. *)
Abstract == INSTANCE OrderedDelivery WITH taken <- next_id, log <- shipped
SingleThreaded == Abstract!ODSpec

-----------------------------------------------------------------------------
(* The inductive invariant: no drawn ID that is not shipped gets lost. *)
NoneForgotten ==
  \A id \in next_undelivered .. (next_id - 1) :
    id \in issued \/ \E i \in DOMAIN pending : pending[i].id = id

MQInv ==
  /\ MQTypeOK
  /\ ShipsInOrder
  /\ PendingIsBlocked
  /\ next_undelivered <= next_id
  /\ \A i \in DOMAIN pending : pending[i].id < next_id
  /\ IssuedInWindow
  /\ NoneForgotten
=============================================================================
