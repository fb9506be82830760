----------------------------- MODULE WebSocket -----------------------------
(***************************************************************************)
(* caf::net::web_socket: the layers server or client with framing, on top  *)
(* of stream_transport, and an application on top of them.  The peer is a  *)
(* WebSocket implementation of any origin; its bytes arrive in chunks of   *)
(* any size.  What the endpoint writes is a sequence of HTTP headers and   *)
(* frames.                                                                 *)
(***************************************************************************)
EXTENDS StreamTransport, Rfc6455, FiniteSetsExt

CONSTANTS
  max_http_size,    \* handshake::max_http_size
  receive_size,     \* the 2048 in framing::consume
  max_frame_size,   \* framing::max_frame_size
  MaskKeys,         \* keys that rng_ may return
  HttpSizes,        \* sizes of the peer's HTTP header
  FrameKinds,       \* frames that the peer may send: flags, opcode, len
  MaxFrames,        \* bound on the frames of the peer
  MaxPayload,       \* longest payload that the peer does send
  Backlog,          \* bytes on the wire that keep the peer from sending more
  ShortReads        \* fill levels of the buffer where a read may end early

ASSUME WSAssumption ==
  /\ max_http_size \in Nat /\ receive_size \in Nat /\ receive_size >= 14
  /\ max_frame_size \in 14 .. INT32_MAX
  /\ MaskKeys \subseteq 0 .. INT32_MAX /\ MaskKeys # {}
  /\ HttpSizes \subseteq Nat \ {0}
  /\ FrameKinds \subseteq [flags : {16 * i : i \in 0 .. 15}, opcode : 0 .. 15,
                           len : 0 .. INT32_MAX]
  /\ MaxFrames \in Nat /\ Backlog \in Nat /\ ShortReads \subseteq Nat
  /\ MaxPayload \in Nat /\ MaxPayload >= max_frame_size

VARIABLES
  role,       \* which of the layers the endpoint runs
  http,       \* peer: its HTTP header, or NoHttp
  frames,     \* peer: number of frames sent
  open,       \* peer: its unfinished message
  conduct,    \* peer: whether it kept to the protocol so far
  sent,       \* peer: messages that it finished
  pings,      \* peer: payloads of its pings
  wire,       \* bytes on their way to the endpoint
  rx,         \* transport: read buffer and thresholds
  reads,      \* transport: iterations of the loop in handle_read_event
  in_event,   \* transport: inside handle_read_event
  writing,    \* socket manager: registered for writing
  pollout,    \* poll_once: writing when the read event began
  failed,     \* why reading ended
  consuming,  \* inside consume()
  consumed,   \* bytes that this call has consumed
  ws,         \* layers: see Layers
  got         \* HTTP headers and pongs that were written

peerVars == <<http, frames, open, conduct, sent, pings>>
vars == <<role, peerVars, wire, rx, reads, in_event, writing, pollout, failed,
          consuming, consumed, ws, got>>

-----------------------------------------------------------------------------
(* Data *)

nil_code == 255

(* Tokens for the bytes of an HTTP header; the last one ends the four      *)
(* bytes of an empty line.                                                 *)
HttpByte == 256
EndOfHeader == 257

Message == [opcode : 0 .. 15, payload : Seq(Bytes)]

(* What a server looks for: the method is GET and a key of 24 characters   *)
(* with its padding is there.                                              *)
request_checks == {"GET", "Sec-WebSocket-Key"}

(* What a client looks for: status 101, the two fields that agree to the   *)
(* upgrade, and the key that belongs to the request.                       *)
response_checks == {"101", "Upgrade", "Connection", "Sec-WebSocket-Accept"}

Checks(r) == IF r = "server" THEN request_checks ELSE response_checks

NoHttp == [size |-> 0, passes |-> {}]

Unit == [http : {"request", "101", "431"}]
          \cup [hdr : Seq(Bytes), data : Seq(Bytes)]

IsFrame(u) == "hdr" \in DOMAIN u

(* write_buf: units not yet written; app: state of the application;        *)
(* messages: the application has sent some.                                *)
Layers == [handshake_complete : BOOLEAN,
           app : {"none", "up", "aborted", "aborted_uninitialized"},
           opcode : 0 .. 15 \cup {nil_code}, payload_buf : Seq(Bytes),
           write_buf : Seq(Unit), messages : BOOLEAN,
           delivered : Seq(Message)]

TypeOK ==
  /\ role \in {"server", "client"}
  /\ http.size \in HttpSizes \cup {0} /\ http.passes \subseteq Checks(role)
  /\ frames \in 0 .. MaxFrames /\ open.payload \in Seq(Bytes)
  /\ conduct \in {"proper", "interleaved", "closed", "improper"}
  /\ sent \in Seq(Message) /\ pings \in Seq(Seq(Bytes))
  /\ wire \in Seq(0 .. EndOfHeader)
  /\ rx \in RxState /\ reads \in 0 .. max_consecutive_reads
  /\ in_event \in BOOLEAN /\ writing \in BOOLEAN /\ pollout \in BOOLEAN
  /\ failed \in {"no", "socket", "application", "protocol"}
  /\ consuming \in BOOLEAN /\ consumed \in 0 .. Offset(rx)
  /\ ws \in Layers /\ got \in Seq(Unit)

(* Mutant: consume() is called for a full buffer only. *)
up_to_full(n) == between(n, n)

up_to(n) == between(1, n)
exactly(n) == between(n, n)

-----------------------------------------------------------------------------
(* The peer.  What it sends to an endpoint that gave up, or while consume()*)
(* runs, is not looked at before the next read.                            *)

Data(k, i) == [j \in 1 .. k.len |-> (16 * i + j) % 256]

(* Peers of a server mask their frames. *)
PeerKey == IF role = "server" THEN Max(MaskKeys) ELSE 0

(* RFC 6455: control frames are not fragmented and may come between the    *)
(* fragments of a message; a message continues with continuation frames.   *)
IsControl(k) == k.opcode \in {connection_close, ping, pong}
Continues == open.opcode # nil_code

HeaderOf(k) == assemble_header(k.opcode, PeerKey, k.len, k.flags)

WellFormed(k) ==
  /\ k.flags \in {0, fin_flag} /\ k.opcode \in opcodes
  /\ k.len < max_frame_size - Len(HeaderOf(k))
  /\ IF IsControl(k) THEN k.flags = fin_flag
     ELSE /\ Continues = (k.opcode = continuation_frame)
          /\ Len(open.payload) + k.len <= max_frame_size

Judge(k) ==
  IF ~WellFormed(k) THEN "improper"
  ELSE IF IsControl(k) /\ Continues THEN "interleaved"
  ELSE IF k.opcode = connection_close THEN "closed" ELSE "proper"

NoMessage == [opcode |-> nil_code, payload |-> <<>>]

PeerSendsHttp(size, passes) ==
  /\ http = NoHttp /\ failed = "no" /\ ~consuming
  /\ http' = [size |-> size, passes |-> passes]
  /\ wire' = wire \o [i \in 1 .. size |-> IF i = size THEN EndOfHeader ELSE HttpByte]
  /\ UNCHANGED <<role, frames, open, conduct, sent, pings, rx, reads, in_event,
                 writing, pollout, failed, consuming, consumed, ws, got>>

PeerSendsFrame(k) ==
  LET data == IF k.len > MaxPayload THEN <<>> ELSE Data(k, frames + 1)
      whole == [opcode |-> IF Continues THEN open.opcode ELSE k.opcode,
                payload |-> open.payload \o data]
      proper == Judge(k) = "proper"
  IN  /\ http # NoHttp /\ failed = "no" /\ ~consuming /\ conduct = "proper"
      /\ frames < MaxFrames /\ Len(wire) <= Backlog
      /\ frames' = frames + 1
      /\ wire' = wire \o HeaderOf(k) \o mask_data(PeerKey, data)
      /\ conduct' = Judge(k)
      /\ pings' = IF proper /\ k.opcode = ping THEN Append(pings, data) ELSE pings
      /\ open' = IF ~proper \/ IsControl(k) THEN open
                 ELSE IF k.flags = fin_flag THEN NoMessage ELSE whole
      /\ sent' = IF proper /\ ~IsControl(k) /\ k.flags = fin_flag
                 THEN Append(sent, whole) ELSE sent
      /\ UNCHANGED <<role, http, rx, reads, in_event, writing, pollout, failed,
                     consuming, consumed, ws, got>>

-----------------------------------------------------------------------------
(* framing *)

(* Mutant: the header holds the key, the payload is not masked. *)
FrameUnit_plain(opcode, key, data) ==
  [hdr |-> assemble_header(opcode, key, Len(data), fin_flag), data |-> data]

FrameUnit(opcode, key, data) ==
  [hdr |-> assemble_header(opcode, key, Len(data), fin_flag),
   data |-> mask_data(key, data)]

(* mask_outgoing_frames *)
OutKeys == IF role = "server" THEN {0} ELSE MaskKeys

ship_pong(w, key, payload) ==
  [w EXCEPT !.write_buf = Append(@, FrameUnit(pong, key, payload))]

(* The transport's abort(), as the layer forwards it. *)
abort(w) ==
  IF ~w.handshake_complete THEN w
  ELSE [w EXCEPT !.app = IF @ \in {"up", "aborted"} THEN "aborted"
                         ELSE "aborted_uninitialized"]

(* handle_read_event returns FALSE: poll_once writes back the events that  *)
(* it polled before.                                                       *)
Fail(reason, w) ==
  /\ failed' = reason /\ in_event' = FALSE /\ consumed' = 0 /\ consuming' = FALSE
  /\ writing' = pollout /\ ws' = abort(w)
  /\ UNCHANGED rx

(* consume() returns n >= 0 with this receive policy. *)
Return(n, policy, w) ==
  /\ rx' = Resize(Shift(configure_read(rx, policy), n))
  /\ consumed' = 0 /\ consuming' = FALSE
  /\ ws' = w /\ writing' = (writing \/ w.write_buf # ws.write_buf)
  /\ UNCHANGED <<failed, in_event>>

(* Mutant: the bytes of earlier frames are counted again. *)
GoOn_again(n, w) ==
  /\ consumed' = consumed + n
  /\ ws' = w /\ writing' = (writing \/ w.write_buf # ws.write_buf)
  /\ UNCHANGED <<rx, consuming, failed, in_event>>

(* consume() goes on after n bytes. *)
GoOn(n, w) ==
  /\ consumed' = n
  /\ ws' = w /\ writing' = (writing \/ w.write_buf # ws.write_buf)
  /\ UNCHANGED <<rx, consuming, failed, in_event>>

buffer == SubSeq(rx.buf, consumed + 1, Offset(rx))

(* One iteration of the loop in framing::consume leaves these alone. *)
Outside == <<role, peerVars, wire, reads, pollout, got>>

(* A complete frame was handled. *)
Advance(frame_size, w) ==
  /\ IF frame_size = Len(buffer)
     THEN Return(consumed + frame_size, up_to(receive_size), w)
     ELSE GoOn(consumed + frame_size, w)
  /\ UNCHANGED Outside

(* An opcode and its whole payload; w is the state after the frame, accept *)
(* the answer of the application and key the choice of rng_.               *)
handle(opcode, payload, frame_size, w, accept, key) ==
  LET w1 == [w EXCEPT !.delivered = Append(@, [opcode |-> opcode, payload |-> payload])]
  IN  \/ /\ opcode \in {text_frame, binary_frame}
         /\ IF accept THEN Advance(frame_size, w1)
            ELSE Fail("application", w1) /\ UNCHANGED Outside
      \/ opcode = ping /\ Advance(frame_size, ship_pong(w, key, payload))
      \/ opcode = pong /\ Advance(frame_size, w)
      \/ /\ opcode \in {continuation_frame, connection_close}
         /\ Fail("protocol", w) /\ UNCHANGED Outside

consuming_frames == consuming /\ ws.handshake_complete

(* The frame with its header must fit into max_frame_size. *)
Exceeds(hdr) == hdr.payload_len >= max_frame_size - hdr.bytes

(* Mutant: the transport waits for the payload alone. *)
NeededShort(hdr) == exactly(hdr.payload_len)

(* What the transport has to read for an incomplete frame. *)
Needed(hdr) == exactly(hdr.bytes + hdr.payload_len)

IsIncomplete(hdr) == Len(buffer) < hdr.bytes + hdr.payload_len

ConsumeNoFrame ==
  LET hdr == decode_header(buffer)
  IN  /\ consuming_frames
      /\ \/ hdr.bytes < 0 /\ Fail("protocol", ws)
         \/ hdr.bytes = 0 /\ Return(consumed, up_to(receive_size), ws)
         \/ hdr.bytes > 0 /\ Exceeds(hdr) /\ Fail("protocol", ws)
         \/ /\ hdr.bytes > 0 /\ ~Exceeds(hdr) /\ IsIncomplete(hdr)
            /\ Return(consumed, Needed(hdr), ws)
      /\ UNCHANGED Outside

(* Mutant: the opcode of an assembled message stays active. *)
ResetBuffer(w) == [w EXCEPT !.payload_buf = <<>>]

(* A fragmented message is complete. *)
Reset(w) == [w EXCEPT !.opcode = nil_code, !.payload_buf = <<>>]

ConsumeFrame(accept, key) ==
  LET hdr == decode_header(buffer)
      frame_size == hdr.bytes + hdr.payload_len
      payload == mask_data(hdr.mask_key, SubSeq(buffer, hdr.bytes + 1, frame_size))
      fresh == ws.opcode = nil_code
      whole == ws.payload_buf \o payload
      fragment_ok == /\ fresh # (hdr.opcode = continuation_frame)
                     /\ fresh \/ Len(whole) <= max_frame_size
  IN  /\ consuming_frames
      /\ hdr.bytes > 0 /\ ~Exceeds(hdr) /\ ~IsIncomplete(hdr)
      /\ \/ hdr.fin /\ fresh /\ handle(hdr.opcode, payload, frame_size, ws, accept, key)
         \/ hdr.fin /\ ~fresh /\ fragment_ok
              /\ handle(ws.opcode, whole, frame_size, Reset(ws), accept, key)
         \/ ~hdr.fin /\ fragment_ok
              /\ Advance(frame_size,
                         [ws EXCEPT !.opcode = IF fresh THEN hdr.opcode ELSE @,
                                    !.payload_buf = whole])
         \/ ~(hdr.fin /\ fresh) /\ ~fragment_ok
              /\ Fail("protocol", ws) /\ UNCHANGED Outside

-----------------------------------------------------------------------------
(* server and client *)

(* The size of the header, or 0 if its end did not arrive yet. *)
split_http_1_header(input) ==
  IF \E i \in DOMAIN input : input[i] = EndOfHeader
  THEN CHOOSE i \in DOMAIN input : input[i] = EndOfHeader ELSE 0

CurrentPolicy == between(rx.min_read_size, rx.max_read_size)

(* The end of the header is missing. *)
ConsumeNoHeader ==
  /\ consuming /\ ~ws.handshake_complete /\ split_http_1_header(rx.buf) = 0
  /\ IF Offset(rx) < max_http_size THEN Return(0, CurrentPolicy, ws)
     ELSE Fail("protocol", [ws EXCEPT !.write_buf = Append(@, [http |-> "431"])])
  /\ UNCHANGED Outside

(* A server answers a valid request and then sets up the application. *)
server_handle_header(valid, init_ok) ==
  [ws EXCEPT !.handshake_complete = valid /\ init_ok,
             !.app = IF valid /\ init_ok THEN "up" ELSE @,
             !.write_buf = IF valid THEN Append(@, [http |-> "101"]) ELSE @]

(* A client leaves the handshake whatever the response is. *)
client_handle_header(valid, init_ok) ==
  [ws EXCEPT !.handshake_complete = TRUE,
             !.app = IF valid /\ init_ok THEN "up" ELSE @]

handle_header(valid, init_ok) ==
  IF role = "server" THEN server_handle_header(valid, init_ok)
  ELSE client_handle_header(valid, init_ok)

(* Mutant: the bytes after the header are dropped. *)
Remainder_dropped(n, w) == Return(Offset(rx), CurrentPolicy, w)

(* The framing layer gets what follows the header. *)
Remainder(n, w) ==
  IF n = Offset(rx) THEN Return(n, CurrentPolicy, w) ELSE GoOn(n, w)

ConsumeHeader(init_ok) ==
  LET n == split_http_1_header(rx.buf)
      valid == http.passes = Checks(role)
      w == handle_header(valid, init_ok)
  IN  /\ consuming /\ ~ws.handshake_complete /\ n > 0
      /\ \/ valid /\ init_ok /\ Remainder(n, w)
         \/ valid /\ ~init_ok /\ Fail("application", w)
         \/ ~valid /\ Fail("protocol", w)
      /\ UNCHANGED Outside

-----------------------------------------------------------------------------
(* stream_transport *)

(* client::init writes its request and asks for a header of any size up to *)
(* the limit; server::init asks for a header.                              *)
client_init == <<[http |-> "request"]>>

(* After init() of the layers. *)
Init ==
  /\ role \in {"server", "client"}
  /\ http = NoHttp /\ frames = 0 /\ open = NoMessage /\ conduct = "proper"
  /\ sent = <<>> /\ pings = <<>> /\ wire = <<>>
  /\ rx = configure_read(RxInit, up_to(max_http_size))
  /\ reads = 0 /\ in_event = FALSE /\ pollout = FALSE /\ failed = "no"
  /\ consuming = FALSE /\ consumed = 0
  /\ ws = [handshake_complete |-> FALSE, app |-> "none", opcode |-> nil_code,
           payload_buf |-> <<>>, messages |-> FALSE, delivered |-> <<>>,
           write_buf |-> IF role = "client" THEN client_init ELSE <<>>]
  /\ writing = (role = "client") /\ got = <<>>

ReadEvent ==
  /\ failed = "no" /\ ~in_event /\ wire # <<>>
  /\ rx' = Prepare(rx) /\ reads' = 0 /\ in_event' = TRUE /\ pollout' = writing
  /\ UNCHANGED <<role, peerVars, wire, writing, failed, consuming, consumed, ws, got>>

Reads == in_event /\ ~consuming /\ MayRead(rx, reads) /\ ~IsFull(rx)

(* Enough reads, or the socket is empty. *)
ReadEnds ==
  /\ in_event /\ ~consuming /\ ~(Reads /\ wire # <<>>)
  /\ in_event' = FALSE /\ reads' = 0 /\ pollout' = FALSE
  /\ UNCHANGED <<role, peerVars, wire, rx, writing, failed, consuming, consumed,
                 ws, got>>

ReadFails ==
  /\ Reads
  /\ Fail("socket", ws)
  /\ UNCHANGED Outside

Most == IF Len(wire) < Room(rx) THEN Len(wire) ELSE Room(rx)

(* What read() may return: all there is, or less.  ShortReads = Nat leaves *)
(* no number out; a run looks at a few.                                    *)
Cuts == {n \in 1 .. Most : n = Most \/ Offset(rx) + n \in ShortReads}

(* read() returns n bytes; the upper layer sees them if they are enough.   *)
Read(n) ==
  /\ Reads
  /\ wire' = SubSeq(wire, n + 1, Len(wire))
  /\ rx' = Received(rx, SubSeq(wire, 1, n))
  /\ reads' = reads + 1
  /\ consuming' = Ready(rx')
  /\ UNCHANGED <<role, peerVars, in_event, writing, pollout, failed, consumed, ws, got>>

(* The layer asks the application for output, and whether it is done, also *)
(* one that was aborted, or (of a client) never initialized.               *)
prepare_send(w) == w.handshake_complete

(* handle_write_event, outside of a read event.  The application, if       *)
(* asked, may add text and binary messages (more), of which the model      *)
(* keeps that they were sent: the codec is that of pongs.  write() then    *)
(* takes all of the first n units of the buffer; the manager stays         *)
(* registered while units are left, or messages, or the application is not *)
(* done (again).                                                           *)
WriteEvent(more, n, again) ==
  LET rest == SubSeq(ws.write_buf, n + 1, Len(ws.write_buf))
  IN  /\ ~in_event /\ writing
      /\ more \/ again => prepare_send(ws)
      /\ ws' = [ws EXCEPT !.write_buf = rest, !.messages = @ \/ more]
      /\ got' = got \o SubSeq(ws.write_buf, 1, n)
      /\ writing' = (again \/ rest # <<>>)
      /\ UNCHANGED <<role, peerVars, wire, rx, reads, in_event, pollout, failed,
                     consuming, consumed>>

(* prepare_send or write() fails; the manager is still polled for reading. *)
WriteFails ==
  /\ ~in_event /\ writing
  /\ writing' = FALSE /\ ws' = abort(ws)
  /\ UNCHANGED <<role, peerVars, wire, rx, reads, in_event, pollout, failed,
                 consuming, consumed, got>>

Reading ==
  \/ ReadEvent \/ ReadEnds
  \/ \E n \in Cuts : Read(n)
  \/ ConsumeNoHeader \/ ConsumeNoFrame
  \/ \E init_ok \in BOOLEAN : ConsumeHeader(init_ok)
  \/ \E accept \in BOOLEAN, key \in OutKeys : ConsumeFrame(accept, key)

Writing ==
  \E more, again \in BOOLEAN, n \in 0 .. Len(ws.write_buf) : WriteEvent(more, n, again)

(* The application is done and the buffer is written. *)
Flush == WriteEvent(FALSE, Len(ws.write_buf), FALSE)

Peer ==
  \/ \E size \in HttpSizes, lacks \in SUBSET Checks(role) :
       Cardinality(lacks) <= 1 /\ PeerSendsHttp(size, Checks(role) \ lacks)
  \/ \E k \in FrameKinds : PeerSendsFrame(k)

Waiting == ~in_event /\ UNCHANGED vars

Next == Reading \/ ReadFails \/ Writing \/ WriteFails \/ Peer \/ Waiting

(* Reading is enabled, and taken. *)
CanRead == in_event \/ (failed = "no" /\ wire # <<>>)
ReadingStep ==
  <<in_event, reads, consuming, consumed>>' # <<in_event, reads, consuming, consumed>>

(* A socket with data is reported as readable, one with room as writable.  *)
(* The first conjunct is WF_vars(Reading), in a form that TLC evaluates    *)
(* faster.                                                                 *)
Fairness ==
  /\ ([]<>~CanRead) \/ []<><<ReadingStep>>_vars
  /\ WF_vars(Flush)

Spec == Init /\ [][Next]_vars /\ Fairness

-----------------------------------------------------------------------------
(* The application gets the messages of the peer: fragments joined, masks  *)
(* removed, kinds kept, each once and in order, whatever pieces consume()  *)
(* is given, and nothing that comes after a frame the protocol forbids.    *)
Channel == INSTANCE MessageChannel WITH delivered <- ws.delivered
WsIsChannel == Channel!MCSpec

(* read() is always given room: consume() asks for frames that fit into    *)
(* the receive buffer and never meets "unable to make progress".           *)
WsReadHasRoom ==
  in_event /\ ~consuming /\ MayRead(rx, reads) =>
    ~IsFull(rx) /\ rx.max_read_size <= rx.size

(* The endpoint gives up for a protocol error only if the peer made one,   *)
(* said goodbye, or sent a control frame between two fragments (which RFC  *)
(* 6455 allows, but consume() takes for a missing continuation frame).     *)
OnlyBadPeersFail ==
  failed = "protocol" =>
    \/ conduct # "proper" \/ http.size > max_http_size
    \/ http.passes # Checks(role)

Output == got \o ws.write_buf
Pongs == {i \in DOMAIN Output : IsFrame(Output[i])}

(* A peer can read the frame u and finds this payload in it. *)
IsPong(u, payload) ==
  LET hdr == decode_header(u.hdr)
  IN  /\ hdr.bytes = Len(u.hdr) /\ hdr.fin /\ hdr.opcode = pong
      /\ hdr.payload_len = Len(u.data)
      /\ mask_data(hdr.mask_key, u.data) = payload

(* What follows the HTTP header are pongs that a peer can read and that    *)
(* hold what its pings held, in the same order, though ship_pong masks     *)
(* them in place in the read buffer.                                       *)
PongsAnswerPings ==
  \A i \in Pongs : i - 1 \in DOMAIN pings /\ IsPong(Output[i], pings[i - 1])

(* Nothing precedes the HTTP header that it must follow, and the           *)
(* application receives nothing before its init().  Nor does it send       *)
(* before: only a client whose handshake failed asks and aborts an         *)
(* application that it never initialized, since it leaves the handshake    *)
(* even if the response is invalid and is still polled for writing.        *)
HandshakeFirst ==
  /\ Pongs # {} \/ ws.delivered # <<>> => ws.app \in {"up", "aborted"}
  /\ ws.messages \/ Pongs # {} =>
       /\ Output # <<>>
       /\ Output[1] = [http |-> IF role = "server" THEN "101" ELSE "request"]
  /\ ws.messages \/ ws.app = "aborted_uninitialized" =>
       ws.app \in {"up", "aborted"} \/ (role = "client" /\ failed # "no")

(* What the endpoint writes is what a peer may expect of it. *)
OutputSound == PongsAnswerPings /\ HandshakeFirst

(* A message arrives, and the pong for a ping is sent, unless reading or   *)
(* writing fails: no read event leaves a complete frame in the buffer, and *)
(* no pong waits in the write buffer of a manager that is polled.          *)
AllConsumed ==
  []<>(\/ /\ Len(ws.delivered) = Len(sent) /\ Cardinality(Pongs) = Len(pings)
          /\ writing => ws.write_buf = <<>>
       \/ failed # "no")
=============================================================================
