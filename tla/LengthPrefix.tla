---------------------------- MODULE LengthPrefix ----------------------------
(***************************************************************************)
(* caf::net::length_prefix_framing over stream_transport: one peer sends,  *)
(* the other receives.  The socket between them takes and returns bytes in *)
(* chunks of any size.                                                     *)
(***************************************************************************)
EXTENDS StreamTransport, FiniteSetsExt

CONSTANTS
  HeaderSize,             \* sizeof(uint32_t)
  default_receive_size,
  max_message_length,
  Sizes,                  \* payload sizes that the application sends
  MaxFrames,              \* bound on the frames sent
  WireCapacity            \* bytes that fit into the buffers of the kernel

ASSUME LPAssumption ==
  /\ HeaderSize \in Nat \ {0}
  /\ default_receive_size \in Nat /\ default_receive_size >= HeaderSize
  /\ max_message_length \in Nat
  /\ Sizes \subseteq 0 .. (max_message_length - 1)
  /\ MaxFrames \in Nat /\ WireCapacity \in Nat \ {0}

VARIABLES
  frames,      \* history: frames put into the sender's write buffer
  write_buf,   \* sender: write_buf_
  writing,     \* sender: registered for writing
  tx_failed,   \* sender: aborted
  wire,        \* bytes on their way
  rx,          \* receiver: read buffer and thresholds
  bound,       \* receiver: receive_buf_upper_bound_
  reads,       \* receiver: iterations of the loop in handle_read_event
  reading,     \* receiver: registered for reading
  in_event,    \* receiver: inside handle_read_event
  rx_failed,   \* receiver: aborted
  delivered    \* payloads that the receiving application got

txVars == <<frames, write_buf, writing, tx_failed>>
rxVars == <<rx, bound, reads, reading, in_event, rx_failed, delivered>>
vars == <<txVars, wire, rxVars>>

(* A frame starts at a position of the stream with a header that holds     *)
(* `size' and has `len' bytes after the header.                            *)
Frame == [start : Nat, size : 0 .. (max_message_length + 1), len : Nat]

Frames == DOMAIN frames
EndOf(f) == f.start + HeaderSize + f.len
NextStart == IF frames = <<>> THEN 0 ELSE EndOf(frames[Len(frames)])
Bytes(from, to) == [k \in 1 .. (to - from) |-> from + k - 1]
Payload(f) == Bytes(f.start + HeaderSize, EndOf(f))

(* The frame holds a message: end_message refuses an empty one and one that*)
(* is too large, consume() skips the header of the former and fails for the*)
(* latter.  The number of messages in the first k frames, and the frame    *)
(* with message i.                                                         *)
IsMessage(f) == f.size \in 1 .. max_message_length
Messages(k) == Cardinality({j \in 1 .. k : IsMessage(frames[j])})
MessageFrame(i) == CHOOSE j \in Frames : IsMessage(frames[j]) /\ Messages(j) = i

TypeOK ==
  /\ frames \in Seq(Frame) /\ write_buf \in Seq(Nat) /\ wire \in Seq(Nat)
  /\ writing \in BOOLEAN /\ tx_failed \in BOOLEAN
  /\ rx \in RxState /\ bound \in Nat /\ reads \in 0 .. max_consecutive_reads
  /\ reading \in BOOLEAN /\ in_event \in BOOLEAN /\ rx_failed \in BOOLEAN
  /\ delivered \in Seq(Seq(Nat))

(* After init() on both sides. *)
Init ==
  /\ frames = <<>> /\ write_buf = <<>> /\ writing = FALSE /\ tx_failed = FALSE
  /\ wire = <<>>
  /\ rx = configure_read(RxInit, between(HeaderSize, default_receive_size))
  /\ bound = default_receive_size
  /\ reads = 0 /\ reading = TRUE /\ in_event = FALSE
  /\ rx_failed = FALSE /\ delivered = <<>>

-----------------------------------------------------------------------------
(* Sender *)

(* begin_message, `len' bytes of payload, end_message.  The header of a    *)
(* message that end_message refuses stays zero.                            *)
NewFrame(size, len) == [start |-> NextStart, size |-> size, len |-> len]

FrameBytes(f) == Bytes(f.start, EndOf(f))

(* begin_output: registers the manager if it has nothing to write yet. *)
begin_output == writing \/ write_buf = <<>>

(* A message goes into the write buffer outside of a write event. *)
Send(f, fails) ==
  /\ ~tx_failed /\ Len(frames) < MaxFrames
  /\ frames' = Append(frames, f)
  /\ write_buf' = write_buf \o FrameBytes(f)
  /\ writing' = begin_output
  /\ tx_failed' = fails
  /\ UNCHANGED <<wire, rxVars>>

(* The application sends while it handles input.  An empty message makes   *)
(* it fail; the header that begin_message wrote still goes out.            *)
SendMessage(len) == Send(NewFrame(len, len), len = 0)

(* A peer that runs other code may announce a message of any size. *)
SendHuge == Send(NewFrame(max_message_length + 1, 0), TRUE)

(* handle_write_event.  prepare_send adds a message (len > 0) if the write *)
(* buffer is not full, write() takes n bytes of it or would block.         *)
WriteEvent(len, n, done) ==
  LET f == NewFrame(len, len)
      buf == IF len = 0 THEN write_buf ELSE write_buf \o FrameBytes(f)
  IN  /\ writing
      /\ len > 0 => ~tx_failed /\ can_send_more(write_buf) /\ Len(frames) < MaxFrames
      /\ n <= Len(buf) /\ Len(wire) + n <= WireCapacity
      /\ n = 0 => buf = <<>> \/ Len(wire) = WireCapacity
      /\ frames' = IF len = 0 THEN frames ELSE Append(frames, f)
      /\ wire' = wire \o SubSeq(buf, 1, n)
      /\ write_buf' = SubSeq(buf, n + 1, Len(buf))
      /\ writing' = StaysArmed(write_buf', done)
      /\ UNCHANGED <<tx_failed, rxVars>>

(* prepare_send fails, or write() does. *)
WriteFails ==
  /\ writing
  /\ writing' = FALSE /\ tx_failed' = TRUE
  /\ UNCHANGED <<frames, write_buf, wire, rxVars>>

-----------------------------------------------------------------------------
(* Receiver: consume() *)

(* The frame that starts with the first byte of input.  If there is none,  *)
(* consume() takes other bytes for a header and delivers what is no        *)
(* message; all of the input stands for it.                                *)
Aligned(input) == \E i \in Frames : frames[i].start = Head(input)
First(input) == CHOOSE i \in Frames : frames[i].start = Head(input)

(* The frames that the loop of consume() gets through: they are complete,  *)
(* the headers are in range.                                               *)
Complete(input) ==
  {k \in Frames : /\ k >= First(input)
                  /\ EndOf(frames[k]) - Head(input) <= Len(input)
                  /\ \A j \in First(input) .. k : frames[j].size <= max_message_length}

LastComplete(input) == Max(Complete(input) \cup {First(input) - 1})

Consumed(input) ==
  IF ~Aligned(input) THEN Len(input)
  ELSE IF Complete(input) = {} THEN 0
  ELSE EndOf(frames[LastComplete(input)]) - Head(input)

(* What the upper layer gets, up to frame k. *)
Payloads(input, k) ==
  LET skipped == Messages(First(input) - 1)
      from(j) == frames[j].start - Head(input) + HeaderSize
      payload(j) == SubSeq(input, from(j) + 1, from(j) + frames[j].size)
  IN  IF ~Aligned(input) THEN <<input>>
      ELSE [i \in 1 .. (Messages(k) - skipped) |-> payload(MessageFrame(skipped + i))]

(* The header of the next frame, if it is complete, and what it says. *)
HasHeader(input) == Len(input) - Consumed(input) >= HeaderSize
NextSize(input) == frames[LastComplete(input) + 1].size

(* Mutant: the upper bound leaves out the header. *)
Needed_short(input) == IF HasHeader(input) THEN NextSize(input) ELSE 0

(* The buffer must hold the next frame with its header. *)
Needed(input) == IF HasHeader(input) THEN NextSize(input) + HeaderSize ELSE 0

Malformed(input) == HasHeader(input) /\ NextSize(input) > max_message_length

-----------------------------------------------------------------------------
(* Receiver: handle_read_event *)

ReadEvent ==
  /\ reading /\ ~in_event /\ wire # <<>>
  /\ rx' = Prepare(rx) /\ reads' = 0 /\ in_event' = TRUE
  /\ UNCHANGED <<txVars, wire, bound, reading, rx_failed, delivered>>

Return(stay) == in_event' = FALSE /\ reading' = stay

(* The loop ends: enough reads, or receive_policy::stop. *)
ReadEnds ==
  /\ in_event /\ ~MayRead(rx, reads)
  /\ Return(rx.max_read_size > 0)
  /\ UNCHANGED <<txVars, wire, rx, bound, reads, rx_failed, delivered>>

Reads == in_event /\ MayRead(rx, reads) /\ ~IsFull(rx)

(* read() would block ... *)
ReadBlocks ==
  /\ Reads /\ wire = <<>>
  /\ Return(TRUE)
  /\ UNCHANGED <<txVars, wire, rx, bound, reads, rx_failed, delivered>>

(* ... or fails, or the connection is closed. *)
ReadFails ==
  /\ Reads
  /\ Return(FALSE) /\ rx_failed' = TRUE
  /\ UNCHANGED <<txVars, wire, rx, bound, reads, delivered>>

Take(n) ==
  /\ Reads /\ n \in 1 .. Len(wire) /\ n <= Room(rx)
  /\ wire' = SubSeq(wire, n + 1, Len(wire))
  /\ UNCHANGED txVars

Got(n) == Received(rx, SubSeq(wire, 1, n))

ReadTooFew(n) ==
  /\ Take(n) /\ ~Ready(Got(n))
  /\ rx' = Got(n) /\ reads' = reads + 1
  /\ UNCHANGED <<bound, reading, in_event, rx_failed, delivered>>

(* consume() returns a number of bytes: the receive buffer is shifted and, *)
(* if the next message needs more room, grows.                             *)
ReadAndConsume(n) ==
  LET input == Got(n).buf
      bound1 == IF Needed(input) > bound THEN Needed(input) ELSE bound
      rx1 == IF bound1 = bound THEN Got(n)
             ELSE configure_read(Got(n), between(HeaderSize, bound1))
  IN  /\ Take(n) /\ Ready(Got(n)) /\ ~Malformed(input)
      /\ delivered' = delivered \o Payloads(input, LastComplete(input))
      /\ bound' = bound1
      /\ rx' = Resize(Shift(rx1, Consumed(input)))
      /\ reads' = reads + 1
      /\ UNCHANGED <<reading, in_event, rx_failed>>

(* consume() returns -1: a header is out of range, or the application      *)
(* rejects the last message it gets.                                       *)
ReadAndAbort(n, last) ==
  LET input == Got(n).buf
  IN  /\ Take(n) /\ Ready(Got(n)) /\ Aligned(input)
      /\ IF last \in Complete(input)
         THEN frames[last].size > 0
         ELSE Malformed(input) /\ last = LastComplete(input)
      /\ delivered' = delivered \o Payloads(input, last)
      /\ rx' = Got(n)
      /\ Return(FALSE) /\ rx_failed' = TRUE
      /\ UNCHANGED <<bound, reads>>

-----------------------------------------------------------------------------
Sender ==
  \/ \E len \in Sizes : SendMessage(len)
  \/ SendHuge \/ WriteFails
  \/ \E len \in Sizes \cup {0}, done \in BOOLEAN, n \in 0 .. WireCapacity :
       WriteEvent(len, n, done)

Receiver ==
  \/ ReadEvent \/ ReadEnds \/ ReadBlocks \/ ReadFails
  \/ \E n \in 1 .. WireCapacity :
       \/ ReadTooFew(n) \/ ReadAndConsume(n)
       \/ \E last \in 0 .. MaxFrames : ReadAndAbort(n, last)

(* Both peers are between two events. *)
Waiting == ~in_event /\ UNCHANGED vars

Next == Sender \/ Receiver \/ Waiting

(* A socket with room is reported as writable, one with data as readable.  *)
Fairness ==
  /\ WF_vars(\E done \in BOOLEAN, n \in 1 .. WireCapacity : WriteEvent(0, n, done))
  /\ WF_vars(Receiver)

Spec == Init /\ [][Next]_vars /\ Fairness

-----------------------------------------------------------------------------
(* The messages that the sender wrote. *)
Sent == [i \in 1 .. Messages(Len(frames)) |-> Payload(frames[MessageFrame(i)])]

(* The receiver gets the messages of the sender, whole, in order and each  *)
(* once, however the stream was cut into pieces (abstract specification    *)
(* MessageChannel).                                                        *)
Channel == INSTANCE MessageChannel
  WITH sent <- Sent, delivered <- delivered
IsChannel == Channel!MCSpec

(* read() is never given a span beyond the end of read_buf_, and the       *)
(* buffer is never full before a message is complete: length_prefix_framing*)
(* grows its receive policy in time and never meets the transport's        *)
(* "unable to make progress".                                              *)
ReadHasRoom ==
  in_event /\ MayRead(rx, reads) => /\ ~IsFull(rx)
                                    /\ rx.max_read_size <= rx.size

(* Bytes in the write buffer of a working sender are going to be written:  *)
(* begin_output relies on it when it registers only for an empty buffer.   *)
OutputIsArmed == write_buf # <<>> /\ ~tx_failed => writing

(* Neither side of the transport gets stuck with what it has buffered. *)
BuffersMove == ReadHasRoom /\ OutputIsArmed

(* A message that was sent arrives unless one of the peers fails. *)
AllDelivered ==
  \A k \in 1 .. MaxFrames :
    Len(Sent) >= k ~> Len(delivered) >= k \/ tx_failed \/ rx_failed
=============================================================================
