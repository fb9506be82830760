--------------------------- MODULE MessageChannel ---------------------------
(***************************************************************************)
(* What a message-oriented protocol layer promises: the receiver gets the  *)
(* messages of the sender, unchanged, in order and each once, or a prefix  *)
(* of them if the connection ends early.                                   *)
(***************************************************************************)
EXTENDS Naturals, Sequences

VARIABLES sent, delivered

MCInit == sent = <<>> /\ delivered = <<>>

(* The sender adds any message. *)
Send ==
  /\ Len(sent') = Len(sent) + 1
  /\ SubSeq(sent', 1, Len(sent)) = sent
  /\ UNCHANGED delivered

(* One read event may complete several messages. *)
Deliver ==
  /\ \E k \in (Len(delivered) + 1) .. Len(sent) : delivered' = SubSeq(sent, 1, k)
  /\ UNCHANGED sent

MCNext == Send \/ Deliver

MCSpec == MCInit /\ [][MCNext]_<<sent, delivered>>
=============================================================================
