---------------------------- MODULE MCWebSocket ----------------------------
(* Frames for model checking WebSocket. *)
EXTENDS WebSocket

Kind(flags, opcode, len) == [flags |-> flags, opcode |-> opcode, len |-> len]

MCFrameKinds ==
  {Kind(128, 1, 1), Kind(0, 2, 126), Kind(0, 0, 14), Kind(128, 0, 1),
   Kind(128, 9, 2), Kind(128, 10, 0), Kind(128, 8, 0), Kind(192, 1, 0),
   Kind(128, 2, 135)}
=============================================================================
