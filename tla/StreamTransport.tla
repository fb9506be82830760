--------------------------- MODULE StreamTransport ---------------------------
(***************************************************************************)
(* caf::net::stream_transport, for the protocol layers on top of it: the   *)
(* state of its receive buffer and the operations on it, as operators from *)
(* state to state.  A byte is identified by its position in the stream     *)
(* that the peer wrote, so that a byte that is lost, repeated or moved     *)
(* shows.  The modules of the upper layers turn these into actions.        *)
(***************************************************************************)
EXTENDS Naturals, Sequences

CONSTANTS
  max_consecutive_reads,   \* caf.middleman.max-consecutive-reads
  max_write_buf_size       \* send buffer size of the socket

ASSUME TransportAssumption ==
  /\ max_consecutive_reads \in Nat \ {0}
  /\ max_write_buf_size \in Nat \ {0}

(* buf: the first offset_ bytes of read_buf_; size: its size().            *)
RxState == [buf : Seq(Nat), size : Nat, delta_offset : Nat,
            min_read_size : Nat, max_read_size : Nat]

Offset(rx) == Len(rx.buf)

(* Before init() of the upper layer. *)
RxInit == [buf |-> <<>>, size |-> 0, delta_offset |-> 0,
           min_read_size |-> 0, max_read_size |-> 0]

(* A receive policy; [min |-> 0, max |-> 0] is receive_policy::stop(). *)
between(min, max) == [min |-> min, max |-> max]

(* It also registers the manager for reading if max_read_size was 0, which *)
(* is a part of init() for the layers that never stop reading.             *)
configure_read(rx, policy) ==
  [rx EXCEPT !.min_read_size = policy.min, !.max_read_size = policy.max]

(* Mutant: bytes that write() left do not count. *)
StaysArmedIfMore(rest, done) == ~done

(* Result of handle_write_event: write() left bytes in the write buffer or *)
(* the upper layer has more to send (done_sending returns FALSE).          *)
StaysArmed(rest, done) == rest # <<>> \/ ~done

can_send_more(write_buf) == Len(write_buf) < max_write_buf_size

-----------------------------------------------------------------------------
(* handle_read_event *)

(* The buffer grows when the event starts ... *)
Prepare(rx) ==
  IF rx.size < rx.max_read_size THEN [rx EXCEPT !.size = rx.max_read_size] ELSE rx

(* Mutant: the loop does not count. *)
MayReadOn(rx, reads) == rx.max_read_size > 0

(* ... the loop goes on ... *)
MayRead(rx, reads) == rx.max_read_size > 0 /\ reads < max_consecutive_reads

(* ... but the upper layer must consume first if there is no room ... *)
IsFull(rx) == Offset(rx) >= rx.max_read_size

(* ... else read() fills this much of the buffer ... *)
Room(rx) == rx.max_read_size - Offset(rx)

Received(rx, bytes) == [rx EXCEPT !.buf = @ \o bytes]

(* ... and the upper layer sees all bytes if they are enough. *)
Ready(rx) == Offset(rx) >= rx.min_read_size

(* Mutant: the last consumed byte stays in the buffer. *)
ShiftShort(rx, consumed) ==
  IF consumed = 0 THEN rx
  ELSE [rx EXCEPT !.buf = SubSeq(@, consumed, Len(@)),
                  !.delta_offset = Offset(rx) - consumed + 1]

(* Afterwards consumed bytes leave the buffer ... *)
Shift(rx, consumed) ==
  IF consumed = 0 THEN rx
  ELSE [rx EXCEPT !.buf = SubSeq(@, consumed + 1, Len(@)),
                  !.delta_offset = Offset(rx) - consumed]

(* ... and its size follows the receive policy. *)
Resize(rx) ==
  IF rx.size # rx.max_read_size /\ Offset(rx) < rx.max_read_size
  THEN [rx EXCEPT !.size = rx.max_read_size] ELSE rx
=============================================================================
