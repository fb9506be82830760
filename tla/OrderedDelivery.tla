--------------------------- MODULE OrderedDelivery ---------------------------
(***************************************************************************)
(* What basp::message_queue promises (message_queue.hpp:17): messages are  *)
(* delivered "in the same order as if they were deserialized by a single   *)
(* thread".  A single thread numbers the messages as it takes them from    *)
(* the wire and finishes message n before it looks at message n + 1.       *)
(***************************************************************************)
EXTENDS Naturals, SequencesExt

VARIABLES taken,  \* how many messages were taken from the wire
          log     \* the messages the single thread is done with, in order

odVars == <<taken, log>>

ODInit == taken = 0 /\ log = <<>>

Take == taken' = taken + 1 /\ UNCHANGED log

(* The thread finishes the next one or several messages. *)
Finish ==
  /\ Len(log) < Len(log')
  /\ Len(log') <= taken
  /\ SubSeq(log', 1, Len(log)) = log
  /\ \A i \in (Len(log) + 1) .. Len(log') : log'[i].id = i - 1
  /\ UNCHANGED taken

ODNext == Take \/ Finish

ODSpec == ODInit /\ [][ODNext]_odVars
=============================================================================
