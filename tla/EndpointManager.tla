-------------------------- MODULE EndpointManager --------------------------
(***************************************************************************)
(* caf::net::endpoint_manager_queue: a lock-free inbox that any thread may *)
(* fill and that one reader, the handler for write events, empties.  Below *)
(* it are two queues, for events and for messages.  The reader leaves a    *)
(* mark in the empty inbox when it stops looking; whoever replaces the mark*)
(* has to wake it.                                                         *)
(***************************************************************************)
EXTENDS Naturals, Sequences, SequencesExt

EmptyQueue == [events |-> <<>>, messages |-> <<>>, blocked |-> FALSE]

Queue(Event, Message) ==
  [events : Seq(Event), messages : Seq(Message), blocked : BOOLEAN]

IsEmpty(q) == q.events = <<>> /\ q.messages = <<>>

try_block(q) == [q EXCEPT !.blocked = @ \/ IsEmpty(q)]

(* The constructor blocks the queue. *)
NewQueue == try_block(EmptyQueue)

(* The caller wakes the reader if the queue was blocked. *)
push_event(q, e) == [q EXCEPT !.events = Append(@, e), !.blocked = FALSE]
push_message(q, m) == [q EXCEPT !.messages = Append(@, m), !.blocked = FALSE]

(* handle_write_event takes all events that are there. *)
take_events(q) == [q EXCEPT !.events = <<>>]

(* Mutant: the reader stops looking when there is no further message. *)
next_message_blind(q) ==
  [q EXCEPT !.messages = Tail(@), !.blocked = Len(q.messages) = 1]

(* next_message takes a message and blocks the queue after the last one. *)
next_message(q) == try_block([q EXCEPT !.messages = Tail(@)])
=============================================================================
