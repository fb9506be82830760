------------------------------- MODULE WsFeed -------------------------------
(***************************************************************************)
(* A server on caf::net, as in examples/net/web-socket-feed.cpp: caf_main  *)
(* opens a port and hands it to the middleman, whose connection_acceptor   *)
(* makes a socket manager for each connection.  After the WebSocket        *)
(* handshake the application of a connection has an actor shell, which     *)
(* subscribes to the feed actor, and sends what the feed publishes to its  *)
(* peer.                                                                   *)
(*                                                                         *)
(* Three threads: caf_main, the multiplexer's and the one that runs the    *)
(* feed.  The protocol stack of a connection is in WebSocket, the wake-ups *)
(* of the shell in ActorShell; a connection here is either polled for      *)
(* reading or not, and for writing as long as it has something to send.    *)
(***************************************************************************)
EXTENDS Sockets, SequencesExt, FiniteSets

CONSTANTS
  Clients,       \* peers
  Symbols,       \* of the stocks
  Vals,          \* what next_value() returns
  MaxUpdates,    \* bound on the updates of the feed
  listener       \* the listening socket

ASSUME FeedAssumption == Vals \subseteq Nat /\ listener \notin Clients

VARIABLES
  acceptor,      \* the listening socket's manager
  queue,         \* connections the system completed, not yet accepted
  peer,          \* is the peer away, connected or has it left?
  conn,          \* the manager of each connection
  write_buf,     \* frames in the transport's write buffer
  seen,          \* what each peer received
  mailbox,       \* of the shell of each connection
  infos,         \* random_feed_state::infos
  listeners,     \* random_feed_state::listeners
  inbox,         \* mailbox of the feed, without update_atom
  updates,       \* updates so far
  fds            \* open sockets of the server

netVars == <<queue, peer, seen>>
connVars == <<conn, write_buf, mailbox>>
feedVars == <<infos, listeners, updates>>
vars == <<acceptor, netVars, connVars, feedVars, inbox, fds>>

Info == [symbol : Symbols, current : Vals, high : Vals, low : Vals]
Mail == [kind : {"subscribe", "down"}, of : Clients]

TypeOK ==
  /\ acceptor \in {"none", "pipe", "reads", "failed", "gone"}
  /\ queue \in Seq(Clients)
  /\ peer \in [Clients -> {"away", "here", "left"}]
  /\ conn \in [Clients -> {"none", "handshake", "open", "no read", "no write", "gone"}]
  /\ write_buf \in [Clients -> Seq(Info)]
  /\ seen \in [Clients -> Seq(Info)]
  /\ mailbox \in [Clients -> Seq(Info)]
  /\ \A s \in Symbols : infos[s] \in Info /\ infos[s].symbol = s
  /\ listeners \in Seq(Clients) /\ IsInjective(listeners)
  /\ inbox \in Seq(Mail)
  /\ updates \in 0 .. MaxUpdates
  /\ fds \subseteq Clients \cup {listener}

(* random_feed_state(): all fields of a stock start with the same value. *)
Init ==
  /\ acceptor = "none" /\ fds = {}
  /\ queue = <<>> /\ peer = [c \in Clients |-> "away"]
  /\ conn = [c \in Clients |-> "none"]
  /\ write_buf = [c \in Clients |-> <<>>] /\ seen = [c \in Clients |-> <<>>]
  /\ mailbox = [c \in Clients |-> <<>>]
  /\ \E f \in [Symbols -> Vals] :
       infos = [s \in Symbols |->
                  [symbol |-> s, current |-> f[s], high |-> f[s], low |-> f[s]]]
  /\ listeners = <<>> /\ inbox = <<>> /\ updates = 0

-----------------------------------------------------------------------------
(* middleman::make_acceptor makes the manager of the socket and sends it   *)
(* to the multiplexer's thread.                                            *)
make_acceptor == acceptor' = "pipe"

(* caf_main: open the port; spawn the feed and make the acceptor, or give  *)
(* up.                                                                     *)
caf_main ==
  /\ acceptor = "none"
  /\ \E r \in make_tcp_accept_socket(listener, [embeds_v4 |-> TRUE, zero |-> TRUE], FALSE) :
       /\ IF r.ok THEN make_acceptor ELSE acceptor' = "failed"
       /\ fds' = r.open
  /\ UNCHANGED <<netVars, connVars, feedVars, inbox>>

(* The manager of the acceptor goes, to which nothing but the multiplexer  *)
(* refers: it closes the listening socket, and the system resets the       *)
(* connections that wait.                                                  *)
AcceptorStops(open) ==
  /\ acceptor' = "gone"
  /\ fds' = open \ {listener}
  /\ queue' = <<>>
  /\ peer' = [c \in Clients |-> IF c \in ToSet(queue) THEN "left" ELSE peer[c]]

(* The multiplexer's thread initializes the acceptor's manager: the socket *)
(* becomes nonblocking, connection_acceptor::init() registers for reading. *)
(* If that fails the reference in the message was the last one.            *)
acceptor_init ==
  /\ acceptor = "pipe"
  /\ \E r \in socket_manager_init(listener, <<>>) :
       IF r.ok THEN acceptor' = "reads" /\ UNCHANGED <<fds, queue, peer>>
       ELSE AcceptorStops(r.open)
  /\ UNCHANGED <<seen, connVars, feedVars, inbox>>

(* The factory's make(): add_conn of caf_main makes the manager of the     *)
(* connection, which then registers for reading.                           *)
make(c) == conn' = [conn EXCEPT ![c] = "handshake"]

(* connection_acceptor::handle_read_event: accept a connection, make its   *)
(* manager with the factory and initialize it.  A failure of either ends   *)
(* the acceptor; the child that failed closes its socket.                  *)
handle_read_event ==
  /\ acceptor = "reads" /\ queue # <<>>
  /\ LET c == Head(queue)
     IN  \E a \in accept(c), r \in socket_manager_init(c, stream_transport_init) :
           IF a.ok /\ r.ok
           THEN /\ make(c)
                /\ fds' = fds \cup r.open
                /\ queue' = Tail(queue)
                /\ UNCHANGED <<acceptor, peer>>
           ELSE /\ AcceptorStops(fds \cup (IF a.ok THEN r.open ELSE a.open))
                /\ UNCHANGED conn
  /\ UNCHANGED <<seen, write_buf, mailbox, feedVars, inbox>>

(* An error on the listening socket: connection_acceptor::abort(). *)
acceptor_abort ==
  /\ acceptor = "reads"
  /\ AcceptorStops(fds)
  /\ UNCHANGED <<seen, connVars, feedVars, inbox>>

-----------------------------------------------------------------------------
(* The application of a connection *)

(* Mutant: the handshake does not end with the first request. *)
app_init_again(c) ==
  /\ conn[c] \in {"handshake", "open"} /\ peer[c] = "here"
  /\ conn' = [conn EXCEPT ![c] = "open"]
  /\ inbox' = Append(inbox, [kind |-> "subscribe", of |-> c])
  /\ UNCHANGED <<acceptor, netVars, write_buf, mailbox, feedVars, fds>>

(* app::init, called at the end of the handshake: make the shell and       *)
(* subscribe it to the feed.                                               *)
app_init(c) ==
  /\ conn[c] = "handshake" /\ peer[c] = "here"
  /\ conn' = [conn EXCEPT ![c] = "open"]
  /\ inbox' = Append(inbox, [kind |-> "subscribe", of |-> c])
  /\ UNCHANGED <<acceptor, netVars, write_buf, mailbox, feedVars, fds>>

(* The manager goes, and with it the socket and the shell: those that      *)
(* monitor the shell get a down message.                                   *)
Destroy(c) ==
  /\ conn' = [conn EXCEPT ![c] = "gone"]
  /\ fds' = fds \ {c}
  /\ mailbox' = [mailbox EXCEPT ![c] = <<>>]
  /\ write_buf' = [write_buf EXCEPT ![c] = <<>>]
  /\ inbox' = IF c \in ToSet(listeners)
              THEN Append(inbox, [kind |-> "down", of |-> c]) ELSE inbox

(* The server rejects the HTTP request of the peer. *)
handshake_fails(c) ==
  /\ conn[c] = "handshake" /\ peer[c] = "here"
  /\ Destroy(c)
  /\ peer' = [peer EXCEPT ![c] = "left"]
  /\ UNCHANGED <<acceptor, queue, seen, feedVars>>

(* Does the manager want to write?  A message wakes it, if the mailbox was *)
(* blocked.                                                                *)
Sends(c) == mailbox[c] # <<>> \/ write_buf[c] # <<>>

(* Mutant: prepare_send takes the messages but forgets the buffer. *)
handle_write_event_drops(c, n) ==
  /\ conn[c] = "open" /\ Sends(c) /\ peer[c] = "here"
  /\ n \in 0 .. Len(mailbox[c])
  /\ mailbox' = [mailbox EXCEPT ![c] = <<>>]
  /\ seen' = [seen EXCEPT ![c] = @ \o SubSeq(mailbox[c], 1, n)]
  /\ write_buf' = [write_buf EXCEPT ![c] = SubSeq(mailbox[c], n + 1, Len(mailbox[c]))]
  /\ UNCHANGED <<acceptor, queue, peer, conn, feedVars, inbox, fds>>

(* A write event: prepare_send turns all messages into text frames, then   *)
(* n frames leave the write buffer.                                        *)
handle_write_event(c, n) ==
  /\ conn[c] = "open" /\ Sends(c) /\ peer[c] = "here"
  /\ LET buf == write_buf[c] \o mailbox[c]
     IN  /\ n \in 0 .. Len(buf)
         /\ seen' = [seen EXCEPT ![c] = @ \o SubSeq(buf, 1, n)]
         /\ write_buf' = [write_buf EXCEPT ![c] = SubSeq(buf, n + 1, Len(buf))]
  /\ mailbox' = [mailbox EXCEPT ![c] = <<>>]
  /\ UNCHANGED <<acceptor, queue, peer, conn, feedVars, inbox, fds>>

(* consume_text and consume_binary discard the input; the read event of a  *)
(* peer that left ends in abort().  The manager goes unless it still wants *)
(* to write.                                                               *)
ReadFails(c) ==
  /\ conn[c] \in {"handshake", "open", "no write"} /\ peer[c] = "left"
  /\ IF conn[c] = "open" /\ Sends(c)
     THEN conn' = [conn EXCEPT ![c] = "no read"]
          /\ UNCHANGED <<write_buf, mailbox, inbox, fds>>
     ELSE Destroy(c)
  /\ UNCHANGED <<acceptor, netVars, feedVars>>

(* write() fails, or prepare_send sees the abort reason of the read event; *)
(* a manager that still reads is told by its next read event.              *)
WriteFails(c) ==
  /\ conn[c] \in {"open", "no read"} /\ Sends(c) /\ peer[c] = "left"
  /\ IF conn[c] = "open"
     THEN /\ conn' = [conn EXCEPT ![c] = "no write"]
          /\ write_buf' = [write_buf EXCEPT ![c] = @ \o mailbox[c]]
          /\ mailbox' = [mailbox EXCEPT ![c] = <<>>]
          /\ UNCHANGED <<inbox, fds>>
     ELSE Destroy(c)
  /\ UNCHANGED <<acceptor, netVars, feedVars>>

(* poll() reports an error of the socket: handle_error. *)
handle_error(c) ==
  /\ conn[c] \notin {"none", "gone"} /\ peer[c] = "left"
  /\ Destroy(c)
  /\ UNCHANGED <<acceptor, netVars, feedVars>>

-----------------------------------------------------------------------------
(* The feed actor *)

HasShell(c) == conn[c] \in {"open", "no read", "no write"}

(* self->send(hdl, xs...): a shell that is gone drops its messages. *)
Send(hdls, xs) ==
  mailbox' = [c \in Clients |->
                IF c \in hdls /\ HasShell(c) THEN mailbox[c] \o xs ELSE mailbox[c]]

(* random_feed_state::update().  The code takes the minimum of the new     *)
(* value and the high, so that low is always the current value.            *)
Updated(x, val) ==
  LET high == IF val > x.high THEN val ELSE x.high
  IN  [x EXCEPT !.current = val, !.high = high,
                !.low = IF val < high THEN val ELSE high]

(* update_atom, which the feed sends to itself again after a second. *)
Update(s, val) ==
  /\ acceptor \notin {"none", "failed"} /\ updates < MaxUpdates
  /\ updates' = updates + 1
  /\ infos' = [infos EXCEPT ![s] = Updated(@, val)]
  /\ Send(ToSet(listeners), <<infos'[s]>>)
  /\ UNCHANGED <<acceptor, netVars, conn, write_buf, listeners, inbox, fds>>

(* subscribe_atom: monitor the shell (one that is gone already sends its   *)
(* down message at once), add it and send it all stocks.                   *)
Subscribe ==
  /\ inbox # <<>> /\ Head(inbox).kind = "subscribe"
  /\ LET c == Head(inbox).of
     IN  /\ inbox' = IF HasShell(c) THEN Tail(inbox)
                     ELSE Append(Tail(inbox), [kind |-> "down", of |-> c])
         /\ listeners' = Append(listeners, c)
         /\ Send({c}, SetToSeq({infos[s] : s \in Symbols}))
  /\ UNCHANGED <<acceptor, netVars, conn, write_buf, infos, updates, fds>>

(* The down handler. *)
Down ==
  /\ inbox # <<>> /\ Head(inbox).kind = "down"
  /\ inbox' = Tail(inbox)
  /\ listeners' = SelectSeq(listeners, LAMBDA c : c # Head(inbox).of)
  /\ UNCHANGED <<acceptor, netVars, connVars, infos, updates, fds>>

-----------------------------------------------------------------------------
(* Peers connect, if somebody listens, and leave. *)
Connect(c) ==
  /\ peer[c] = "away" /\ listener \in fds
  /\ peer' = [peer EXCEPT ![c] = "here"]
  /\ queue' = Append(queue, c)
  /\ UNCHANGED <<acceptor, seen, connVars, feedVars, inbox, fds>>

Leave(c) ==
  /\ peer[c] = "here"
  /\ peer' = [peer EXCEPT ![c] = "left"]
  /\ UNCHANGED <<acceptor, queue, seen, connVars, feedVars, inbox, fds>>

Acceptor == acceptor_init \/ handle_read_event

Closing(c) == ReadFails(c) \/ WriteFails(c) \/ handle_error(c)

Connection(c) ==
  \/ app_init(c) \/ handshake_fails(c) \/ Closing(c)
  \/ \E n \in 0 .. Len(write_buf[c] \o mailbox[c]) : handle_write_event(c, n)

Next ==
  \/ caf_main \/ Acceptor \/ acceptor_abort \/ Subscribe \/ Down
  \/ \E c \in Clients : Connect(c) \/ Leave(c) \/ Connection(c)
  \/ \E s \in Symbols, val \in Vals : Update(s, val)

(* The threads run on and poll() reports what is ready; nobody has to      *)
(* connect, to leave or to complete a handshake.                           *)
Fairness ==
  /\ WF_vars(Acceptor) /\ WF_vars(Subscribe \/ Down)
  /\ \A c \in Clients : WF_vars(Closing(c))

Spec == Init /\ [][Next]_vars /\ Fairness

-----------------------------------------------------------------------------
Stream(c) == seen[c] \o write_buf[c] \o mailbox[c]

(* What a listener has received and what is under way to it ends, for each *)
(* stock, in the value that the feed has now: a subscription that arrives  *)
(* between two updates misses neither, and nothing is lost or reordered    *)
(* between the mailbox, the write buffer and the socket.                   *)
InSync ==
  \A c \in ToSet(listeners) :
    conn[c] = "open" =>
      \A s \in Symbols :
        LET xs == SelectSeq(Stream(c), LAMBDA x : x.symbol = s)
        IN  xs # <<>> /\ xs[Len(xs)] = infos[s]

(* No failure on the way from socket() to a running connection leaves a    *)
(* socket without an owner, which would never be closed.                   *)
NoLeak ==
  fds = (IF acceptor \in {"pipe", "reads"} THEN {listener} ELSE {})
        \cup {c \in Clients : conn[c] \notin {"none", "gone"}}

(* A connection in the queue is accepted, or the acceptor is gone and the  *)
(* peer notices; and the feed drops every listener whose connection is     *)
(* gone, even if it was gone before its subscription arrived.              *)
Settles ==
  /\ \A c \in Clients : c \in ToSet(queue) ~> c \notin ToSet(queue)
  /\ \A c \in Clients : (conn[c] = "gone" /\ c \in ToSet(listeners))
                        ~> c \notin ToSet(listeners)
=============================================================================
