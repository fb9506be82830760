------------------------------ MODULE WsClient ------------------------------
(***************************************************************************)
(* A client on caf::net, as in examples/net/web-socket-client.cpp: the     *)
(* whole life of a program with a middleman.  caf_main connects to a       *)
(* WebSocket server, makes and initializes the socket manager, reads lines *)
(* from the user and has a terminal actor pass them to the actor shell of  *)
(* the application; what the server sends is shown by the terminal.  When  *)
(* caf_main is done the actor system waits for its actors and stops the    *)
(* middleman.                                                              *)
(*                                                                         *)
(* Threads: caf_main, the multiplexer's thread and the terminal's.  A      *)
(* write event writes all it has.  The server is the environment.          *)
(***************************************************************************)
EXTENDS Sockets, SequencesExt

CONSTANTS
  Addrs,         \* addresses of the server, by which the sockets are named
  MaxLines,      \* bound on the lines of the user
  MaxTexts       \* bound on the frames of the server

ASSUME ClientAssumption ==
  Addrs \in Seq(Nat \ {0}) /\ MaxLines \in Nat /\ MaxTexts \in Nat

VARIABLES
  main,          \* where the main thread is
  mpx,           \* the multiplexer's thread
  pipe,          \* unread messages for the pollset updater
  polled,        \* operations the manager is polled for
  fds, sock,     \* open sockets; the one that is connected
  mgr,           \* the socket manager
  handshake,     \* is client::handshake_ still there?
  write_buf,     \* of the transport
  max_read_size, \* did configure_read() set the receive policy?
  abort_reason,  \* of the manager
  shell, shellbox,  \* the actor shell and its mailbox
  term, termbox, client,  \* terminal actor, its mailbox, terminal_state::client
  answer,        \* to the request of the main thread
  lines, texts,  \* so far
  link,          \* the connection, and what is under way on it
  server, to_server, from_server,
  raced          \* history: did the multiplexer's thread handle an event of
                 \* the manager while the main thread initialized it?

mpxVars == <<mpx, pipe, polled>>
sockVars == <<fds, sock, link, server, to_server, from_server>>
mgrVars == <<mgr, handshake, write_buf, max_read_size, abort_reason, raced>>
shellVars == <<shell, shellbox>>
termVars == <<term, termbox, client, answer>>
vars == <<main, mpxVars, sockVars, mgrVars, shellVars, termVars, lines, texts>>

Mail == {"attach", "status", "text", "input", "detach", "down"}

(* What the client writes: "too_large" is its answer to a header that      *)
(* exceeds max_http_size.                                                  *)
Output == {"request", "garbage", "line", "too_large"}

(* What the server sends: a valid response, an invalid one or one that is  *)
(* too large; and then a message, or a frame that ends the connection: a   *)
(* bad one or a close frame.                                               *)
Responses == {"ok", "bad", "large"}
Frames == {"text", "close"}

Flags ==
  /\ handshake \in BOOLEAN /\ max_read_size \in BOOLEAN /\ abort_reason \in BOOLEAN
  /\ client \in BOOLEAN

Types ==
  /\ main \in {"init", "start", "connect", "make", "writing", "reading", "loop",
               "ask", "returned", "stop", "exit", "crash"}
  /\ mpx \in {"off", "runs", "shutting_down", "done"}
  /\ pipe \in Seq({"read", "write", "shutdown"})
  /\ polled \subseteq {"read", "write"}
  /\ fds \subseteq ToSet(Addrs) /\ sock \in ToSet(Addrs) \cup {0}
  /\ mgr \in {"none", "alive", "gone"}
  /\ write_buf \in Seq(Output)
  /\ shell \in {"none", "blocked", "open", "closed"} /\ shellbox \in Seq({"line"})
  /\ term \in {"none", "alive", "dead"} /\ termbox \in Seq(Mail)
  /\ answer \in {"none", "ok", "error"}
  /\ lines \in 0 .. MaxLines /\ texts \in 0 .. MaxTexts
  /\ link \in {"none", "up", "lost"}
  /\ server \in {"waits", "serves", "refuses"}
  /\ to_server \in Seq(Output) /\ from_server \in Seq(Responses \cup Frames)
  /\ raced \in {"no", "empty", "torn", "no_policy"}

(* When the program ends its thread is joined and the connection closed. *)
TypeOK ==
  /\ Types /\ Flags
  /\ main = "exit" => mpx \in {"off", "done"} /\ polled = {} /\ sock \notin fds

Init ==
  /\ main = "init" /\ mpx = "off" /\ pipe = <<>> /\ polled = {}
  /\ fds = {} /\ sock = 0 /\ link = "none"
  /\ server = "waits" /\ to_server = <<>> /\ from_server = <<>>
  /\ mgr = "none" /\ handshake = TRUE /\ write_buf = <<>> /\ max_read_size = FALSE
  /\ abort_reason = FALSE /\ raced = "no"
  /\ shell = "none" /\ shellbox = <<>>
  /\ term = "none" /\ termbox = <<>> /\ client = FALSE /\ answer = "none"
  /\ lines = 0 /\ texts = 0

-----------------------------------------------------------------------------
(* The middleman *)

(* middleman::init: without the pipe of the multiplexer it raises an error.*)
(* The program has no backends (create_backends ends at once).             *)
middleman_init(ok) ==
  /\ main = "init"
  /\ main' = IF ok THEN "start" ELSE "exit"
  /\ UNCHANGED <<mpxVars, sockVars, mgrVars, shellVars, termVars, lines, texts>>

(* middleman::start, without manual multiplexing. *)
middleman_start ==
  /\ main = "start"
  /\ main' = "connect" /\ mpx' = "runs"
  /\ UNCHANGED <<pipe, polled, sockVars, mgrVars, shellVars, termVars, lines, texts>>

(* The actor system calls middleman::stop when its actors are gone: tell   *)
(* the multiplexer to shut down and wait for its thread.                   *)
middleman_stop ==
  /\ main = "returned" /\ term # "alive" /\ shell \in {"none", "closed"}
  /\ main' = "stop"
  /\ pipe' = Append(pipe, "shutdown")
  /\ UNCHANGED <<mpx, polled, sockVars, mgrVars, shellVars, termVars, lines, texts>>

(* Mutant: the thread is not waited for. *)
JoinNot ==
  /\ main = "stop"
  /\ main' = "exit"
  /\ UNCHANGED <<mpxVars, sockVars, mgrVars, shellVars, termVars, lines, texts>>

Join ==
  /\ main = "stop" /\ mpx = "done"
  /\ main' = "exit"
  /\ UNCHANGED <<mpxVars, sockVars, mgrVars, shellVars, termVars, lines, texts>>

-----------------------------------------------------------------------------
(* caf_main *)

(* The URI is usable and some address of the host accepts the connection. *)
caf_main_connect(valid) ==
  /\ main = "connect"
  /\ \E r \in make_connected_tcp_stream_socket(80, Addrs) :
       /\ fds' = IF valid THEN r.open ELSE {}
       /\ sock' = IF valid THEN r.sock ELSE 0
  /\ main' = IF sock' = 0 THEN "returned" ELSE "make"
  /\ link' = IF sock' = 0 THEN "none" ELSE "up"
  /\ UNCHANGED <<mpxVars, mgrVars, shellVars, termVars, lines, texts, server,
                 to_server, from_server>>

(* Spawn the terminal, make the manager and call its init(), here, in the  *)
(* main thread.  It may fail; else client::init begins its output:         *)
(* register for writing, ...                                               *)
caf_main_init ==
  /\ main = "make"
  /\ mgr' = "alive" /\ term' = "alive"
  /\ \E r \in socket_manager_init(sock, stream_transport_init) :
       /\ main' = IF r.ok THEN "writing" ELSE "returned"
       /\ pipe' = IF r.ok THEN Append(pipe, "write") ELSE pipe
  /\ UNCHANGED <<mpx, polled, sockVars, handshake, write_buf, max_read_size,
                 abort_reason, raced, shellVars, termbox, client, answer, lines, texts>>

(* ... write the request to the buffer, which the multiplexer's thread may *)
(* be using at the same time; register for reading, ...                    *)
write_http_1_request ==
  /\ main = "writing"
  /\ main' = "reading"
  /\ write_buf' = Append(write_buf, IF raced = "torn" THEN "garbage" ELSE "request")
  /\ pipe' = Append(pipe, "read")
  /\ UNCHANGED <<mpx, polled, sockVars, mgr, handshake, max_read_size, abort_reason,
                 raced, shellVars, termVars, lines, texts>>

(* ... and only then set the receive policy. *)
configure_read ==
  /\ main = "reading"
  /\ main' = "loop"
  /\ max_read_size' = TRUE
  /\ UNCHANGED <<mpxVars, sockVars, mgr, handshake, write_buf, abort_reason, raced,
                 shellVars, termVars, lines, texts>>

(* main_loop: a line goes to the terminal as a request without timeout. *)
getline ==
  /\ main = "loop" /\ lines < MaxLines
  /\ lines' = lines + 1
  /\ IF term = "alive"
     THEN main' = "ask" /\ termbox' = Append(termbox, "input")
     ELSE main' = "returned" /\ UNCHANGED termbox
  /\ UNCHANGED <<mpxVars, sockVars, mgrVars, shellVars, term, client, answer, texts>>

Answered ==
  /\ main = "ask" /\ answer # "none"
  /\ main' = IF answer = "ok" THEN "loop" ELSE "returned"
  /\ answer' = "none"
  /\ UNCHANGED <<mpxVars, sockVars, mgrVars, shellVars, term, termbox, client,
                 lines, texts>>

EndOfInput ==
  /\ main = "loop" /\ main' = "returned"
  /\ UNCHANGED <<mpxVars, sockVars, mgrVars, shellVars, termVars, lines, texts>>

-----------------------------------------------------------------------------
(* The manager, in the multiplexer's thread *)

Runs == mpx \in {"runs", "shutting_down"}

(* pollset_updater::handle_read_event *)
TakePipe ==
  /\ Runs /\ pipe # <<>>
  /\ pipe' = Tail(pipe)
  /\ LET op == Head(pipe)
     IN  /\ polled' = IF mpx = "shutting_down" THEN polled
                      ELSE IF op = "shutdown" THEN polled \ {"read"}
                      ELSE polled \cup {op}
         /\ mpx' = IF op = "shutdown" THEN "shutting_down" ELSE mpx
  /\ UNCHANGED <<main, sockVars, mgrVars, shellVars, termVars, lines, texts>>

RunEnds ==
  /\ mpx = "shutting_down" /\ pipe = <<>> /\ polled = {}
  /\ mpx' = "done"
  /\ UNCHANGED <<main, pipe, polled, sockVars, mgrVars, shellVars, termVars, lines,
                 texts>>

(* Messages to an actor that terminated are dropped. *)
Tell(msgs) == termbox' = IF term = "alive" THEN termbox \o msgs ELSE termbox

(* client::abort and app::abort: after the handshake the terminal is told. *)
app_abort == Tell(IF handshake THEN <<>> ELSE <<"status", "detach">>)

(* A handler fails: the manager aborts and is polled for ops only. *)
Fail(ops) ==
  /\ abort_reason' = TRUE
  /\ polled' = ops
  /\ app_abort

(* Mutant: the constructor of the shell does not block the mailbox. *)
app_init_open == shell' = "open" /\ Tell(<<"attach", "status">>)

(* app::init: the constructor of the shell blocks the mailbox. *)
app_init == shell' = "blocked" /\ Tell(<<"attach", "status">>)

consume_text == Tell(<<"text">>)

(* client::consume, with the framing and the application behind it, for a  *)
(* header or a frame of the server.  A valid response ends the handshake.  *)
(* So does an invalid one, so that the abort that follows reaches an       *)
(* application without a shell: app::abort dereferences the null pointer   *)
(* self_.  A header that is too large is answered and, like a frame that   *)
(* the framing gives up on, makes consume return -1: the manager aborts    *)
(* and the read event returns false, so that poll_once forgets what        *)
(* begin_output() registered.                                              *)
client_consume(data) ==
  \/ /\ data = "ok" /\ app_init /\ handshake' = FALSE
     /\ UNCHANGED <<main, polled, write_buf, abort_reason>>
  \/ /\ data = "bad" /\ main' = "crash"
     /\ UNCHANGED <<shell, termbox, handshake, polled, write_buf, abort_reason>>
  \/ /\ data = "text" /\ consume_text
     /\ UNCHANGED <<main, shell, handshake, polled, write_buf, abort_reason>>
  \/ /\ data \in {"large", "close"} /\ Fail(polled \ {"read"})
     /\ write_buf' = IF data = "large" THEN Append(write_buf, "too_large") ELSE write_buf
     /\ UNCHANGED <<main, shell, handshake>>

(* A read event with data. *)
HandleRead ==
  /\ Runs /\ "read" \in polled /\ max_read_size /\ from_server # <<>>
  /\ from_server' = Tail(from_server)
  /\ client_consume(Head(from_server))
  /\ UNCHANGED <<mpx, pipe, fds, sock, link, server, to_server, mgr, max_read_size,
                 raced, shellbox, term, client, answer, lines, texts>>

(* A read event before the receive policy is set stops reading. *)
HandleReadEarly ==
  /\ Runs /\ "read" \in polled /\ ~max_read_size
  /\ from_server # <<>> \/ link = "lost"
  /\ polled' = polled \ {"read"}
  /\ raced' = "no_policy"
  /\ UNCHANGED <<main, mpx, pipe, sockVars, mgr, handshake, write_buf, max_read_size,
                 abort_reason, shellVars, termVars, lines, texts>>

(* The connection is closed: read() reports it, or poll() does. *)
HandleLost ==
  /\ Runs /\ polled # {} /\ link = "lost"
  /\ \/ "read" \in polled /\ max_read_size /\ from_server = <<>> /\ Fail(polled \ {"read"})
     \/ Fail({})
  /\ UNCHANGED <<main, mpx, pipe, sockVars, mgr, handshake, write_buf, max_read_size,
                 raced, shellVars, term, client, answer, lines, texts>>

(* A write event while the main thread is writing the request: the buffer  *)
(* is still empty, so that the event ends writing, or it is torn.          *)
HandleWriteEarly ==
  /\ Runs /\ "write" \in polled /\ main = "writing" /\ raced = "no"
  /\ \/ raced' = "empty" /\ polled' = polled \ {"write"}
     \/ raced' = "torn" /\ polled' \in {polled, polled \ {"write"}}
  /\ UNCHANGED <<main, mpx, pipe, sockVars, mgr, handshake, write_buf, max_read_size,
                 abort_reason, shellVars, termVars, lines, texts>>

(* handle_write_event: prepare_send turns messages into frames, until it   *)
(* finds an abort reason; then all is written, and done_sending blocks the *)
(* mailbox.                                                                *)
HandleWrite ==
  /\ Runs /\ "write" \in polled /\ main # "writing"
  /\ IF shellbox # <<>> /\ abort_reason
     THEN /\ Fail(polled \ {"write"})
          /\ shellbox' = Tail(shellbox)
          /\ UNCHANGED <<write_buf, to_server, shell>>
     ELSE /\ shellbox' = <<>>
          /\ IF link = "up" \/ write_buf \o shellbox = <<>>
             THEN /\ to_server' = to_server \o write_buf \o shellbox
                  /\ write_buf' = <<>>
                  /\ polled' = polled \ {"write"}
                  /\ shell' = IF shell = "open" THEN "blocked" ELSE shell
                  /\ UNCHANGED <<abort_reason, termbox>>
             ELSE /\ write_buf' = write_buf \o shellbox
                  /\ Fail(polled \ {"write"})
                  /\ UNCHANGED <<to_server, shell>>
  /\ UNCHANGED <<main, mpx, pipe, fds, sock, link, server, from_server, mgr,
                 handshake, max_read_size, raced, term, client, answer, lines, texts>>

(* The main thread, the pollset or a message in the pipe refers to the     *)
(* manager.                                                                *)
Referenced ==
  \/ main \in {"writing", "reading", "loop", "ask"} \/ polled # {}
  \/ \E i \in DOMAIN pipe : pipe[i] # "shutdown"

(* The last reference goes: the socket is closed, the shell terminates and *)
(* the terminal, which monitors it, gets a down message.                   *)
Destroy ==
  /\ mgr = "alive" /\ ~Referenced
  /\ mgr' = "gone" /\ fds' = fds \ {sock}
  /\ link' = "lost"
  /\ shell' = IF shell = "none" THEN "none" ELSE "closed"
  /\ shellbox' = <<>>
  /\ Tell(IF client THEN <<"down">> ELSE <<>>)
  /\ UNCHANGED <<main, mpxVars, sock, server, to_server, from_server, handshake,
                 write_buf, max_read_size, abort_reason, raced, term, client, answer, lines, texts>>

-----------------------------------------------------------------------------
(* The terminal actor *)

(* quit(): a request in the mailbox is answered with an error. *)
Quit ==
  /\ term' = "dead" /\ termbox' = <<>>
  /\ answer' = IF "input" \in ToSet(Tail(termbox)) THEN "error" ELSE answer
  /\ UNCHANGED client

Behavior(kind) == term = "alive" /\ termbox # <<>> /\ Head(termbox) = kind

(* attach: monitor the shell; one that is closed sends its down message. *)
Attach ==
  /\ Behavior("attach")
  /\ client' = TRUE
  /\ termbox' = IF shell = "closed" THEN Append(Tail(termbox), "down") ELSE Tail(termbox)
  /\ UNCHANGED <<term, answer, shellVars, pipe>>

Render ==
  /\ Behavior("status") \/ Behavior("text")
  /\ termbox' = Tail(termbox)
  /\ UNCHANGED <<term, client, answer, shellVars, pipe>>

(* detach, if the sender is the attached client, and the down handler. *)
Detach ==
  /\ Behavior("detach") \/ Behavior("down")
  /\ IF client THEN Quit ELSE termbox' = Tail(termbox) /\ UNCHANGED <<term, client, answer>>
  /\ UNCHANGED <<shellVars, pipe>>

(* Mutant: the answer is left to the shell. *)
InputUnanswered ==
  /\ Behavior("input")
  /\ termbox' = Tail(termbox)
  /\ IF client /\ shell \in {"blocked", "open"}
     THEN /\ shellbox' = Append(shellbox, "line") /\ shell' = "open"
          /\ pipe' = IF shell = "blocked" THEN Append(pipe, "write") ELSE pipe
          /\ UNCHANGED answer
     ELSE answer' = "ok" /\ UNCHANGED <<shellVars, pipe>>
  /\ UNCHANGED <<term, client>>

(* input: pass the line to the client, whose enqueue wakes the manager if  *)
(* the mailbox is blocked, or complain; the request is answered.           *)
Input ==
  /\ Behavior("input")
  /\ termbox' = Tail(termbox)
  /\ answer' = "ok"
  /\ IF client /\ shell \in {"blocked", "open"}
     THEN /\ shellbox' = Append(shellbox, "line") /\ shell' = "open"
          /\ pipe' = IF shell = "blocked" THEN Append(pipe, "write") ELSE pipe
     ELSE UNCHANGED <<shellVars, pipe>>
  /\ UNCHANGED <<term, client>>

(* Nobody refers to the terminal any longer. *)
Unreachable ==
  /\ term = "alive" /\ main = "returned" /\ mgr = "gone" /\ termbox = <<>>
  /\ term' = "dead"
  /\ UNCHANGED <<termbox, client, answer, shellVars, pipe>>

Terminal ==
  /\ Attach \/ Render \/ Detach \/ Input \/ Unreachable
  /\ UNCHANGED <<main, mpx, polled, sockVars, mgrVars, lines, texts>>

-----------------------------------------------------------------------------
(* The server *)

(* Only a valid response needs the request: a server may refuse before it  *)
(* has read one.                                                           *)
Respond(data) ==
  /\ link = "up" /\ server = "waits"
  /\ data = "ok" => "request" \in ToSet(to_server)
  /\ server' = IF data = "ok" THEN "serves" ELSE "refuses"
  /\ from_server' = Append(from_server, data)
  /\ UNCHANGED <<main, mpxVars, fds, sock, link, to_server, mgrVars, shellVars,
                 termVars, lines, texts>>

ServerSends(data) ==
  /\ link = "up" /\ server = "serves" /\ texts < MaxTexts
  /\ texts' = texts + 1
  /\ from_server' = Append(from_server, data)
  /\ UNCHANGED <<main, mpxVars, fds, sock, link, server, to_server, mgrVars,
                 shellVars, termVars, lines>>

ServerCloses ==
  /\ link = "up" /\ link' = "lost"
  /\ UNCHANGED <<main, mpxVars, fds, sock, server, to_server, from_server, mgrVars, shellVars,
                 termVars, lines, texts>>

-----------------------------------------------------------------------------
Main ==
  \/ middleman_start \/ write_http_1_request \/ configure_read \/ Answered
  \/ middleman_stop \/ Join

MpxThread ==
  \/ TakePipe \/ RunEnds \/ HandleRead \/ HandleReadEarly \/ HandleLost
  \/ HandleWriteEarly \/ HandleWrite \/ Destroy

Running ==
  \/ Main \/ MpxThread \/ Terminal \/ getline \/ EndOfInput \/ caf_main_init
  \/ \E ok \in BOOLEAN : middleman_init(ok) \/ caf_main_connect(ok)
  \/ \E data \in Responses : Respond(data)
  \/ \E data \in Frames : ServerSends(data)
  \/ ServerCloses

Ended == main \in {"exit", "crash"}

Next ==
  \/ ~Ended /\ Running
  \/ Ended /\ UNCHANGED vars

(* The threads of the program run on; neither user nor server has to do    *)
(* anything.                                                               *)
Fairness ==
  /\ WF_vars(~Ended /\ Main) /\ WF_vars(~Ended /\ Terminal)
  /\ WF_vars(~Ended /\ MpxThread)

Spec == Init /\ [][Next]_vars /\ Fairness

-----------------------------------------------------------------------------
Expected(op) == op \in polled \/ op \in ToSet(pipe)

(* A client that waits for the server has sent its request or will: the    *)
(* manager is polled for what it needs.  The exception is an event that    *)
(* came while the main thread was in init(), which is not synchronized     *)
(* with the multiplexer's thread: the request may then never be sent, or   *)
(* the response never be read.  Nor does a line of the user stay behind.   *)
NotStranded ==
  /\ main \in {"loop", "ask"} /\ handshake /\ ~abort_reason /\ raced = "no" =>
       /\ Expected("read")
       /\ write_buf # <<>> => Expected("write")
  /\ shellbox # <<>> /\ ~abort_reason => Expected("write")

(* The program never hangs on its own account: the terminal answers every  *)
(* request of the main thread, even if the connection is lost meanwhile,   *)
(* and after the last line the program ends once the connection is lost.   *)
ProgramEnds ==
  /\ main = "ask" ~> main # "ask"
  /\ (main = "returned" /\ link # "up") ~> Ended
=============================================================================
