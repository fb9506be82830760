-------------------------- MODULE WsClientProofs ---------------------------
(***************************************************************************)
(* Proofs about the client of examples/net/web-socket-client.cpp: for      *)
(* every list of addresses, every number of lines and messages and every   *)
(* interleaving of its threads, its thread is joined and its socket closed *)
(* when the program ends, and what it waits for is asked for and polled.   *)
(***************************************************************************)
EXTENDS WsClient, SequenceTheorems, TLAPS

(* Up to here the client has not sent its request. *)
Early == {"init", "start", "connect", "make", "writing"}

(* In these places the main thread holds the manager, and init() has       *)
(* registered it.                                                          *)
Waiting == {"reading", "loop", "ask"}

(* Is x in s? *)
Has(s, x) == \E i \in DOMAIN s : s[i] = x

(* Who is there with whom.  The manager lives while the main thread uses   *)
(* it, the pollset or the pipe refers to it; the shell closes with it, and *)
(* a terminal that ended had a shell or outlived the manager.              *)
Owner ==
  /\ mgr = "none" => term = "none" /\ shell = "none"
  /\ term = "none" => mgr = "none"
  /\ main \in {"init", "start", "connect", "make"} => mgr = "none"
  /\ main \in Waiting \cup {"writing"} => mgr = "alive"
  /\ shell = "closed" => mgr = "gone"
  /\ mgr # "alive" => shell \in {"none", "closed"} /\ polled = {}
  /\ mgr # "alive" => ~Has(pipe, "read") /\ ~Has(pipe, "write")
  /\ term = "dead" => mgr = "gone" \/ shell # "none"
  /\ client \/ Has(termbox, "attach") => shell # "none"
  /\ shell \notin {"blocked", "open"} => shellbox = <<>>

(* The program that made no manager has no socket, and the manager that is *)
(* gone has closed its socket.                                             *)
Socket ==
  /\ main \in {"init", "start", "connect", "returned", "stop", "exit"} /\ mgr = "none" => sock = 0
  /\ mgr = "gone" => sock \notin fds

(* The middleman is stopped only when the manager is gone, so that         *)
(* shutting down finds nothing to poll.                                    *)
Stopping ==
  /\ main = "init" => mpx = "off"
  /\ mpx \in {"shutting_down", "done"} \/ Has(pipe, "shutdown") =>
       main \in {"stop", "exit", "crash"} /\ mgr # "alive"
  /\ main = "exit" => mpx \in {"off", "done"} /\ mgr # "alive"

(* Nothing is written or read on the connection before the request is in   *)
(* the buffer.                                                             *)
Silent ==
  main \in Early => /\ shell = "none" /\ server # "serves" /\ ~max_read_size
                    /\ to_server = <<>> /\ write_buf = <<>>

(* The manager is, or will be, polled for op. *)
Due(op) == op \in polled \/ Has(pipe, op)

(* What has to be sent or read is due, unless the manager aborted or an    *)
(* event came during init().                                               *)
Armed ==
  /\ main = "writing" /\ raced = "no" => abort_reason \/ Due("write")
  /\ main \in Waiting /\ raced = "no" =>
       abort_reason \/ (Due("read") /\ (write_buf # <<>> => Due("write")))
  /\ shell = "open" \/ shellbox # <<>> => abort_reason \/ Due("write")

(* The inductive invariant of the client. *)
CInv == Types /\ Flags /\ Owner /\ Socket /\ Stopping /\ Silent /\ Armed

(* The empty sequence has no element. *)
LEMMA HasNone == \A x : ~Has(<<>>, x)
  BY DEF Has

(* Append adds one element. *)
LEMMA HasAppend ==
  ASSUME NEW S, NEW s \in Seq(S), NEW e \in S
  PROVE  \A x : Has(Append(s, e), x) <=> Has(s, x) \/ x = e
<1> SUFFICES ASSUME NEW x PROVE Has(Append(s, e), x) <=> Has(s, x) \/ x = e
  OBVIOUS
<1>1. /\ Len(s) \in Nat /\ DOMAIN s = 1 .. Len(s) /\ DOMAIN Append(s, e) = 1 .. (Len(s) + 1)
      /\ Append(s, e)[Len(s) + 1] = e /\ \A i \in 1 .. Len(s) : Append(s, e)[i] = s[i]
  OBVIOUS
<1> QED
  BY <1>1 DEF Has

(* A sequence has its head and the elements of its tail. *)
LEMMA HasTail ==
  ASSUME NEW S, NEW s \in Seq(S), s # <<>>
  PROVE  /\ \A x : Has(s, x) <=> x = Head(s) \/ Has(Tail(s), x)
         /\ Tail(s) \in Seq(S) /\ Head(s) \in S
<1>1. /\ Len(s) \in Nat /\ Len(s) >= 1 /\ DOMAIN s = 1 .. Len(s)
      /\ Tail(s) \in Seq(S) /\ DOMAIN Tail(s) = 1 .. (Len(s) - 1)
      /\ Head(s) = s[1] /\ \A i \in 1 .. (Len(s) - 1) : Tail(s)[i] = s[i + 1]
  OBVIOUS
<1>2. ASSUME NEW x, Has(s, x) PROVE x = Head(s) \/ Has(Tail(s), x)
  <2>1. PICK i \in 1 .. Len(s) : s[i] = x
    BY <1>1, <1>2 DEF Has
  <2>2. CASE i = 1
    BY <1>1, <2>1, <2>2
  <2>3. CASE i # 1
    <3>1. i - 1 \in 1 .. (Len(s) - 1) /\ (i - 1) + 1 = i
      BY <1>1, <2>3
    <3>2. Tail(s)[i - 1] = x
      BY <1>1, <2>1, <3>1
    <3> QED
      BY <1>1, <3>1, <3>2 DEF Has
  <2> QED
    BY <2>2, <2>3
<1>3. ASSUME NEW x, x = Head(s) \/ Has(Tail(s), x) PROVE Has(s, x)
  <2>1. CASE x = Head(s)
    <3>1. 1 \in DOMAIN s /\ s[1] = x
      BY <1>1, <2>1
    <3> QED
      BY <3>1 DEF Has
  <2>2. CASE Has(Tail(s), x)
    <3>1. PICK i \in 1 .. (Len(s) - 1) : Tail(s)[i] = x
      BY <1>1, <2>2 DEF Has
    <3>2. i + 1 \in DOMAIN s /\ s[i + 1] = x
      BY <1>1, <3>1
    <3> QED
      BY <3>2 DEF Has
  <2> QED
    BY <1>3, <2>1, <2>2
<1>4. Head(s) \in S
  BY <1>1
<1> QED
  BY <1>1, <1>2, <1>3, <1>4

(* What a concatenation has is in one of its parts. *)
LEMMA HasCat ==
  ASSUME NEW S, NEW s \in Seq(S), NEW t \in Seq(S), NEW x, Has(s \o t, x)
  PROVE  Has(s, x) \/ Has(t, x)
<1>1. /\ Len(s) \in Nat /\ Len(t) \in Nat /\ DOMAIN s = 1 .. Len(s) /\ DOMAIN t = 1 .. Len(t)
      /\ DOMAIN (s \o t) = 1 .. (Len(s) + Len(t))
      /\ \A i \in 1 .. (Len(s) + Len(t)) :
           (s \o t)[i] = IF i <= Len(s) THEN s[i] ELSE t[i - Len(s)]
  OBVIOUS
<1>2. PICK i \in 1 .. (Len(s) + Len(t)) : (s \o t)[i] = x
  BY <1>1 DEF Has
<1>3. CASE i <= Len(s)
  <2>1. i \in DOMAIN s /\ s[i] = x
    BY <1>1, <1>2, <1>3
  <2> QED
    BY <2>1 DEF Has
<1>4. CASE ~(i <= Len(s))
  <2>1. i - Len(s) \in DOMAIN t /\ t[i - Len(s)] = x
    BY <1>1, <1>2, <1>4
  <2> QED
    BY <2>1 DEF Has
<1> QED
  BY <1>3, <1>4

(* Due says of the pipe what Expected says. *)
LEMMA DueIs == \A op : Expected(op) <=> Due(op)
<1>1. \A op : op \in ToSet(pipe) <=> Has(pipe, op)
  BY DEF ToSet, Has
<1> QED
  BY <1>1 DEF Expected, Due

-----------------------------------------------------------------------------
(* The main thread *)

(* The invariant holds when the program starts. *)
LEMMA InitKeeps ==
  ASSUME Init
  PROVE  CInv
<1>1. Types
  BY ClientAssumption DEF Init, Types
<1>10. Flags
  BY Zenon DEF Init, Flags
<1>2. \A x : ~Has(pipe, x) /\ ~Has(termbox, x)
  BY HasNone DEF Init
<1>3. Owner /\ Socket /\ Stopping /\ Silent
  BY <1>2 DEF Init, Owner, Socket, Stopping, Silent, Waiting
<1>4. Armed
  BY DEF Init, Armed, Waiting
<1> QED
  BY <1>1, <1>10, <1>3, <1>4 DEF CInv

(* Only the main thread moves. *)
LEMMA MainMoves ==
  ASSUME CInv, Types', Flags',
         UNCHANGED <<pipe, polled, sockVars, mgr, write_buf, abort_reason, raced, shellVars, term, client>>,
         mpx' = mpx \/ (main = "start" /\ mpx' = "runs"),
         max_read_size' = max_read_size \/ main = "reading",
         termbox' = termbox \/ (Has(termbox', "attach") => Has(termbox, "attach")),
         \/ main = "init" /\ main' = "start"
         \/ main = "init" /\ main' = "exit"
         \/ main = "start" /\ main' = "connect"
         \/ main = "stop" /\ main' = "exit" /\ mpx = "done"
         \/ main = "reading" /\ main' = "loop"
         \/ main = "loop" /\ main' \in {"ask", "returned"}
         \/ main = "ask" /\ main' \in {"loop", "returned"}
  PROVE  CInv'
<1>1. Owner'
  BY DEF CInv, Owner, Waiting, shellVars
<1>2. Socket'
  BY DEF CInv, Owner, Socket, sockVars, Waiting
<1>3. Stopping'
  BY DEF CInv, Stopping, Owner, Waiting
<1>4. Silent'
  BY DEF CInv, Silent, Early, sockVars, shellVars
<1>5. Armed'
  BY DEF CInv, Armed, Due, Waiting, shellVars
<1> QED
  BY <1>1, <1>2, <1>3, <1>4, <1>5 DEF CInv

(* The steps of the main thread that only move it. *)
LEMMA MainKeeps ==
  ASSUME CInv,
         \/ \E ok \in BOOLEAN : middleman_init(ok)
         \/ middleman_start \/ Join \/ configure_read \/ getline \/ Answered \/ EndOfInput
  PROVE  CInv'
<1>1. CASE \E ok \in BOOLEAN : middleman_init(ok)
  <2>1. Types'
    BY <1>1 DEF CInv, Types, middleman_init, mpxVars, sockVars, mgrVars, shellVars, termVars
  <2>7. Flags'
    BY <1>1, Zenon DEF CInv, Flags, middleman_init, mgrVars, termVars
  <2> QED
    BY <1>1, <2>1, <2>7, MainMoves DEF middleman_init, mpxVars, mgrVars, termVars
<1>2. CASE middleman_start
  <2>1. Types'
    BY <1>2 DEF CInv, Types, middleman_start, mpxVars, sockVars, mgrVars, shellVars, termVars
  <2>7. Flags'
    BY <1>2, Zenon DEF CInv, Flags, middleman_start, mgrVars, termVars
  <2> QED
    BY <1>2, <2>1, <2>7, MainMoves DEF middleman_start, mgrVars, termVars
<1>3. CASE Join
  <2>1. Types'
    BY <1>3 DEF CInv, Types, Join, mpxVars, sockVars, mgrVars, shellVars, termVars
  <2>7. Flags'
    BY <1>3, Zenon DEF CInv, Flags, Join, mgrVars, termVars
  <2> QED
    BY <1>3, <2>1, <2>7, MainMoves DEF Join, mpxVars, mgrVars, termVars
<1>4. CASE configure_read
  <2>1. Types'
    BY <1>4 DEF CInv, Types, configure_read, mpxVars, sockVars, mgrVars, shellVars, termVars
  <2>7. Flags'
    BY <1>4, Zenon DEF CInv, Flags, configure_read, mgrVars, termVars
  <2> QED
    BY <1>4, <2>1, <2>7, MainMoves DEF configure_read, mpxVars, mgrVars, termVars
<1>5. CASE getline
  <2>1. termbox' = termbox \/ termbox' = Append(termbox, "input")
    BY <1>5 DEF getline
  <2>4. termbox \in Seq(Mail) /\ "input" \in Mail /\ "attach" # "input" /\ lines \in 0 .. MaxLines
    BY DEF CInv, Types, Mail
  <2>5. lines' \in 0 .. MaxLines
    BY <1>5, <2>4, ClientAssumption DEF getline
  <2>6. termbox' \in Seq(Mail)
    BY <2>1, <2>4
  <2>2. Types'
    BY <1>5, <2>5, <2>6 DEF CInv, Types, getline, mpxVars, sockVars, mgrVars, shellVars
  <2>3. Has(termbox', "attach") => Has(termbox, "attach")
    <3>1. \A x : Has(Append(termbox, "input"), x) <=> Has(termbox, x) \/ x = "input"
      BY <2>4, HasAppend
    <3> QED
      BY <2>1, <2>4, <3>1
  <2>7. Flags'
    BY <1>5, Zenon DEF CInv, Flags, getline, mgrVars, termVars
  <2> QED
    BY <1>5, <2>2, <2>3, <2>7, MainMoves DEF getline, mpxVars, mgrVars
<1>6. CASE Answered
  <2>1. Types'
    BY <1>6 DEF CInv, Types, Answered, mpxVars, sockVars, mgrVars, shellVars
  <2>7. Flags'
    BY <1>6, Zenon DEF CInv, Flags, Answered, mgrVars, termVars
  <2> QED
    BY <1>6, <2>1, <2>7, MainMoves DEF Answered, mpxVars, mgrVars
<1>7. CASE EndOfInput
  <2>1. Types'
    BY <1>7 DEF CInv, Types, EndOfInput, mpxVars, sockVars, mgrVars, shellVars, termVars
  <2>7. Flags'
    BY <1>7, Zenon DEF CInv, Flags, EndOfInput, mgrVars, termVars
  <2> QED
    BY <1>7, <2>1, <2>7, MainMoves DEF EndOfInput, mpxVars, mgrVars, termVars
<1> QED
  BY <1>1, <1>2, <1>3, <1>4, <1>5, <1>6, <1>7

(* middleman::stop: no actor is left, so the manager is gone before the    *)
(* shutdown message is in the pipe.                                        *)
LEMMA StopKeeps ==
  ASSUME CInv, middleman_stop
  PROVE  CInv'
<1>1. /\ main = "returned" /\ term # "alive" /\ shell \in {"none", "closed"} /\ main' = "stop"
      /\ pipe' = Append(pipe, "shutdown")
      /\ UNCHANGED <<mpx, polled, sockVars, mgrVars, shellVars, termVars, lines, texts>>
  BY DEF middleman_stop
<1>2. \A x : Has(pipe', x) <=> Has(pipe, x) \/ x = "shutdown"
  BY <1>1, HasAppend DEF CInv, Types
<1>3. Types'
  BY <1>1 DEF CInv, Types, sockVars, mgrVars, shellVars, termVars
<1>10. Flags'
  BY <1>1, Zenon DEF CInv, Flags, mgrVars, termVars
<1>4. mgr # "alive"
  BY <1>1 DEF CInv, Types, Owner
<1>5. Owner'
  BY <1>1, <1>2 DEF CInv, Owner, mgrVars, shellVars, termVars, Waiting
<1>6. Socket'
  BY <1>1 DEF CInv, Socket, mgrVars, sockVars
<1>7. Stopping'
  BY <1>1, <1>4 DEF Stopping, mgrVars
<1>8. Silent'
  BY <1>1 DEF Silent, Early
<1>9. Armed'
  BY <1>1, <1>2 DEF CInv, Armed, Due, Waiting, mgrVars, shellVars
<1> QED
  BY <1>3, <1>10, <1>5, <1>6, <1>7, <1>8, <1>9 DEF CInv

(* make_connected_tcp_stream_socket opens only sockets of the addresses it *)
(* tries, and returns one of them or none.                                 *)
LEMMA Connects ==
  ASSUME NEW r \in make_connected_tcp_stream_socket(80, Addrs)
  PROVE  r.open \subseteq ToSet(Addrs) /\ r.sock \in ToSet(Addrs) \cup {0}
<1> DEFINE Fails(k) == {q.open : q \in {p \in ip_connect(Addrs[k]) : ~p.ok}}
           Left(n) == {UNION {f[k] : k \in 1 .. n} :
                         f \in {g \in [1 .. n -> UNION {Fails(k) : k \in 1 .. n}] :
                                  \A k \in 1 .. n : g[k] \in Fails(k)}}
           none == {[sock |-> 0, open |-> l] : l \in Left(Len(Addrs))}
           some(k) == {[sock |-> Addrs[k], open |-> l \cup {Addrs[k]}] : l \in Left(k - 1)}
<1>1. Addrs \in Seq(Nat \ {0}) /\ Len(Addrs) \in Nat /\ DOMAIN Addrs = 1 .. Len(Addrs)
  BY ClientAssumption
<1>2. \A k \in DOMAIN Addrs : Addrs[k] \in ToSet(Addrs)
  BY DEF ToSet
<1>3. ASSUME NEW k \in DOMAIN Addrs, NEW o \in Fails(k) PROVE o \subseteq ToSet(Addrs)
  <2>1. PICK q \in ip_connect(Addrs[k]) : o = q.open
    BY <1>3
  <2>2. q.open \subseteq {Addrs[k]}
    BY <2>1 DEF ip_connect, socket_guard
  <2> QED
    BY <1>2, <2>1, <2>2
<1>4. ASSUME NEW n \in 0 .. Len(Addrs), NEW l \in Left(n) PROVE l \subseteq ToSet(Addrs)
  <2>1. PICK f : /\ \A k \in 1 .. n : f[k] \in Fails(k)
                 /\ l = UNION {f[k] : k \in 1 .. n}
    BY <1>4
  <2>2. \A k \in 1 .. n : f[k] \subseteq ToSet(Addrs)
    <3>1. SUFFICES ASSUME NEW k \in 1 .. n PROVE f[k] \subseteq ToSet(Addrs)
      OBVIOUS
    <3>2. k \in DOMAIN Addrs
      BY <1>1, <3>1
    <3>3. f[k] \in Fails(k)
      BY <2>1, <3>1
    <3> HIDE DEF Fails
    <3> QED
      BY <1>3, <3>2, <3>3
  <2> HIDE DEF Fails
  <2> QED
    BY <2>1, <2>2
<1>5. r \in {[sock |-> 0, open |-> {}]} \/ r \in none \/ \E k \in DOMAIN Addrs : r \in some(k)
  BY DEF make_connected_tcp_stream_socket
<1>6. CASE r \in {[sock |-> 0, open |-> {}]}
  BY <1>6
<1>7. CASE r \in none
  <2>1. PICK l \in Left(Len(Addrs)) : r = [sock |-> 0, open |-> l]
    BY <1>7
  <2>2. Len(Addrs) \in 0 .. Len(Addrs)
    BY <1>1
  <2>3. l \subseteq ToSet(Addrs)
    <3> HIDE DEF Left
    <3> QED
      BY <1>4, <2>1, <2>2
  <2>4. r.open = l /\ r.sock = 0
    BY <2>1
  <2> QED
    BY <2>3, <2>4
<1>8. CASE \E k \in DOMAIN Addrs : r \in some(k)
  <2>1. PICK k \in DOMAIN Addrs : r \in some(k)
    BY <1>8
  <2>2. PICK l \in Left(k - 1) : r = [sock |-> Addrs[k], open |-> l \cup {Addrs[k]}]
    BY <2>1
  <2>3. k - 1 \in 0 .. Len(Addrs)
    BY <1>1, <2>1
  <2>4. l \subseteq ToSet(Addrs)
    <3> HIDE DEF Left
    <3> QED
      BY <1>4, <2>2, <2>3
  <2>5. r.open = l \cup {Addrs[k]} /\ r.sock = Addrs[k]
    BY <2>2
  <2> QED
    BY <1>2, <2>1, <2>4, <2>5
<1> QED
  BY <1>5, <1>6, <1>7, <1>8

(* Without a socket caf_main returns; nothing else exists yet. *)
LEMMA ConnectKeeps ==
  ASSUME CInv, NEW valid \in BOOLEAN, caf_main_connect(valid)
  PROVE  CInv'
<1>1. PICK r \in make_connected_tcp_stream_socket(80, Addrs) :
        /\ fds' = IF valid THEN r.open ELSE {}
        /\ sock' = IF valid THEN r.sock ELSE 0
  BY DEF caf_main_connect
<1>2. fds' \subseteq ToSet(Addrs) /\ sock' \in ToSet(Addrs) \cup {0}
  BY <1>1, Connects
<1>3. /\ main = "connect" /\ main' \in {"returned", "make"}
      /\ (main' = "returned" => sock' = 0) /\ link' \in {"none", "up"}
      /\ UNCHANGED <<mpxVars, mgrVars, shellVars, termVars, lines, texts, server,
                     to_server, from_server>>
  BY DEF caf_main_connect
<1>4. Types'
  BY <1>2, <1>3 DEF CInv, Types, mpxVars, mgrVars, shellVars, termVars
<1>5. Flags'
  BY <1>3, Zenon DEF CInv, Flags, mgrVars, termVars
<1>6. mgr = "none" /\ mgr' = "none" /\ shell = "none" /\ shellbox = <<>>
  BY <1>3 DEF CInv, Owner, mgrVars
<1>7. Owner'
  BY <1>3, <1>6 DEF CInv, Owner, Waiting, mpxVars, mgrVars, shellVars, termVars
<1>8. Socket'
  BY <1>3, <1>6 DEF Socket
<1>9. Stopping'
  BY <1>3, <1>6 DEF CInv, Stopping, mpxVars
<1>10. Silent'
  BY <1>3 DEF CInv, Silent, Early, mgrVars, shellVars
<1>11. Armed'
  BY <1>3, <1>6 DEF Armed, Waiting, shellVars
<1> QED
  BY <1>4, <1>5, <1>7, <1>8, <1>9, <1>10, <1>11 DEF CInv

(* caf_main makes terminal and manager; if init() does not fail, writing   *)
(* is due.                                                                 *)
LEMMA MakeKeeps ==
  ASSUME CInv, caf_main_init
  PROVE  CInv'
<1>1. /\ main = "make" /\ mgr' = "alive" /\ term' = "alive"
      /\ \/ main' = "writing" /\ pipe' = Append(pipe, "write")
         \/ main' = "returned" /\ pipe' = pipe
      /\ UNCHANGED <<mpx, polled, sockVars, handshake, write_buf, max_read_size,
                     abort_reason, raced, shellVars, termbox, client, answer, lines, texts>>
  BY DEF caf_main_init
<1>2. pipe \in Seq({"read", "write", "shutdown"})
  BY DEF CInv, Types
<1>3. \A x : Has(Append(pipe, "write"), x) <=> Has(pipe, x) \/ x = "write"
  BY <1>2, HasAppend
<1>4. pipe' \in Seq({"read", "write", "shutdown"})
  BY <1>1, <1>2
<1>5. Types'
  BY <1>1, <1>4 DEF CInv, Types, sockVars, shellVars
<1>6. Flags'
  BY <1>1, Zenon DEF CInv, Flags
<1>7. mgr = "none" /\ shell = "none" /\ shellbox = <<>> /\ shell' = "none" /\ shellbox' = <<>>
  BY <1>1 DEF CInv, Owner, shellVars
<1>8. Owner'
  BY <1>1, <1>7 DEF CInv, Owner, Waiting
<1>9. Socket'
  BY <1>1 DEF Socket
<1>10. mpx \notin {"shutting_down", "done"} /\ ~Has(pipe, "shutdown")
  BY <1>1 DEF CInv, Stopping
<1>11. Stopping'
  BY <1>1, <1>3, <1>10 DEF Stopping
<1>12. Silent'
  BY <1>1 DEF CInv, Silent, Early, sockVars, shellVars
<1>13. Armed'
  BY <1>1, <1>3, <1>7 DEF Armed, Due, Waiting
<1> QED
  BY <1>5, <1>6, <1>8, <1>9, <1>11, <1>12, <1>13 DEF CInv

(* The request is in the buffer and writing is due from before; now        *)
(* reading is due as well.                                                 *)
LEMMA RequestKeeps ==
  ASSUME CInv, write_http_1_request
  PROVE  CInv'
<1> DEFINE e == IF raced = "torn" THEN "garbage" ELSE "request"
<1>1. /\ main = "writing" /\ main' = "reading" /\ pipe' = Append(pipe, "read")
      /\ write_buf' = Append(write_buf, e)
      /\ UNCHANGED <<mpx, polled, sockVars, mgr, handshake, max_read_size, abort_reason,
                     raced, shellVars, termVars, lines, texts>>
  BY DEF write_http_1_request
<1>2. /\ pipe \in Seq({"read", "write", "shutdown"})
      /\ write_buf \in Seq(Output) /\ e \in Output
  BY DEF CInv, Types, Output
<1> HIDE DEF e
<1>3. \A x : Has(pipe', x) <=> Has(pipe, x) \/ x = "read"
  BY <1>1, <1>2, HasAppend
<1>4. pipe' \in Seq({"read", "write", "shutdown"}) /\ write_buf' \in Seq(Output)
  BY <1>1, <1>2
<1>5. Types'
  BY <1>1, <1>4 DEF CInv, Types, sockVars, shellVars, termVars
<1>6. Flags'
  BY <1>1, Zenon DEF CInv, Flags, termVars
<1>7. /\ mgr = "alive" /\ mgr' = "alive"
      /\ shell = "none" /\ shellbox = <<>> /\ shell' = "none" /\ shellbox' = <<>>
  BY <1>1 DEF CInv, Owner, Silent, Early, shellVars
<1>8. Owner'
  BY <1>1, <1>7 DEF CInv, Owner, Waiting, termVars
<1>9. Socket'
  BY <1>1, <1>7 DEF Socket
<1>10. Stopping'
  BY <1>1, <1>3 DEF CInv, Stopping
<1>11. Silent'
  BY <1>1 DEF Silent, Early
<1>12. Armed'
  BY <1>1, <1>3, <1>7 DEF CInv, Armed, Due, Waiting
<1> QED
  BY <1>5, <1>6, <1>8, <1>9, <1>10, <1>11, <1>12 DEF CInv

-----------------------------------------------------------------------------
(* The multiplexer's thread *)

(* Only the manager's events read what the terminal gets: no attach message *)
(* comes of telling it anything else.                                       *)
LEMMA TellIs ==
  ASSUME NEW msgs \in Seq(Mail), termbox \in Seq(Mail), Tell(msgs)
  PROVE  /\ termbox' \in Seq(Mail)
         /\ Has(termbox', "attach") => Has(termbox, "attach") \/ Has(msgs, "attach")
<1>1. termbox' = termbox \/ termbox' = termbox \o msgs
  BY DEF Tell
<1>2. termbox \o msgs \in Seq(Mail)
  OBVIOUS
<1>3. CASE termbox' = termbox
  BY <1>3
<1>4. CASE termbox' = termbox \o msgs
  BY <1>2, <1>4, HasCat
<1> QED
  BY <1>1, <1>3, <1>4

(* An abort tells the terminal nothing that it answers by attaching. *)
LEMMA FailTells ==
  ASSUME NEW ops, CInv, Fail(ops)
  PROVE  /\ termbox' \in Seq(Mail) /\ abort_reason' = TRUE /\ polled' = ops
         /\ Has(termbox', "attach") => Has(termbox, "attach")
<1> DEFINE msgs == IF handshake THEN <<>> ELSE <<"status", "detach">>
<1>1. termbox \in Seq(Mail) /\ Tell(msgs)
  BY DEF CInv, Types, Fail, app_abort
<1>2. msgs \in Seq(Mail) /\ ~Has(msgs, "attach")
  <2>1. <<>> \in Seq(Mail) /\ ~Has(<<>>, "attach")
    BY DEF Has
  <2>2. <<"status", "detach">> \in Seq(Mail)
    BY DEF Mail
  <2>3. ~Has(<<"status", "detach">>, "attach")
    BY DEF Has
  <2> QED
    BY <2>1, <2>2, <2>3
<1> HIDE DEF msgs
<1> QED
  BY <1>1, <1>2, TellIs DEF Fail

(* A manager that is polled is alive and was made. *)
LEMMA PolledOwner ==
  ASSUME CInv, polled # {}
  PROVE  mgr = "alive" /\ main \notin {"init", "start", "connect", "make"} /\ shell # "closed"
  BY DEF CInv, Owner

(* A message taken from the pipe becomes polling: what is due stays due. *)
LEMMA TakeKeeps ==
  ASSUME CInv, TakePipe
  PROVE  CInv'
<1> DEFINE op == Head(pipe)
<1>1. /\ Runs /\ pipe # <<>> /\ pipe' = Tail(pipe)
      /\ polled' = (IF mpx = "shutting_down" THEN polled
                    ELSE IF op = "shutdown" THEN polled \ {"read"} ELSE polled \cup {op})
      /\ mpx' = (IF op = "shutdown" THEN "shutting_down" ELSE mpx)
      /\ UNCHANGED <<main, sockVars, mgrVars, shellVars, termVars, lines, texts>>
  BY DEF TakePipe
<1>2. pipe \in Seq({"read", "write", "shutdown"}) /\ polled \subseteq {"read", "write"}
  BY DEF CInv, Types
<1>3. /\ \A x : Has(pipe, x) <=> x = op \/ Has(pipe', x)
      /\ pipe' \in Seq({"read", "write", "shutdown"}) /\ op \in {"read", "write", "shutdown"}
  BY <1>1, <1>2, HasTail
<1> HIDE DEF op
<1>4. Types'
  BY <1>1, <1>2, <1>3 DEF CInv, Types, Runs, sockVars, mgrVars, shellVars, termVars
<1>5. Flags'
  BY <1>1, Zenon DEF CInv, Flags, mgrVars, termVars
<1>6. CASE op = "shutdown"
  <2>1. main \in {"stop", "exit", "crash"} /\ mgr # "alive" /\ polled = {} /\ polled' = {}
    BY <1>1, <1>3, <1>6 DEF CInv, Stopping, Owner
  <2>2. shellbox = <<>> /\ shell \in {"none", "closed"}
    BY <2>1 DEF CInv, Owner
  <2>3. Owner'
    BY <1>1, <1>3, <2>1 DEF CInv, Owner, Waiting, mgrVars, shellVars, termVars
  <2>4. Socket'
    BY <1>1 DEF CInv, Socket, mgrVars, sockVars
  <2>5. Stopping'
    BY <1>1, <1>6, <2>1 DEF CInv, Stopping, Runs, mgrVars
  <2>6. Silent'
    BY <1>1, <2>1 DEF Silent, Early
  <2>7. Armed'
    BY <1>1, <2>1, <2>2 DEF Armed, Waiting, shellVars
  <2> QED
    BY <1>4, <1>5, <2>3, <2>4, <2>5, <2>6, <2>7 DEF CInv
<1>7. CASE op # "shutdown"
  <2>1. mgr = "alive"
    BY <1>3, <1>7 DEF CInv, Owner
  <2>2. mpx = "runs" /\ ~Has(pipe, "shutdown")
    BY <1>1, <2>1 DEF CInv, Stopping, Runs
  <2>3. polled' = polled \cup {op} /\ mpx' = mpx
    BY <1>1, <1>7, <2>2
  <2>4. \A x : (x \in polled' \/ Has(pipe', x)) <=> (x \in polled \/ Has(pipe, x))
    BY <1>3, <2>3
  <2>5. Owner'
    BY <1>1, <2>1 DEF CInv, Owner, Waiting, mgrVars, shellVars, termVars
  <2>6. Socket'
    BY <1>1 DEF CInv, Socket, mgrVars, sockVars
  <2>7. Stopping'
    BY <1>1, <1>3, <2>2, <2>3 DEF CInv, Stopping, mgrVars
  <2>8. Silent'
    BY <1>1 DEF CInv, Silent, mgrVars, sockVars, shellVars
  <2>9. Armed'
    BY <1>1, <2>4 DEF CInv, Armed, Due, mgrVars, shellVars
  <2> QED
    BY <1>4, <1>5, <2>5, <2>6, <2>7, <2>8, <2>9 DEF CInv
<1> QED
  BY <1>6, <1>7

(* The multiplexer's thread ends. *)
LEMMA EndKeeps ==
  ASSUME CInv, RunEnds
  PROVE  CInv'
<1>1. /\ mpx = "shutting_down" /\ mpx' = "done"
      /\ UNCHANGED <<main, pipe, polled, sockVars, mgrVars, shellVars, termVars, lines, texts>>
  BY DEF RunEnds
<1>2. Types'
  BY <1>1 DEF CInv, Types, sockVars, mgrVars, shellVars, termVars
<1>3. Flags'
  BY <1>1, Zenon DEF CInv, Flags, mgrVars, termVars
<1>4. Owner'
  BY <1>1 DEF CInv, Owner, mgrVars, shellVars, termVars
<1>5. Socket'
  BY <1>1 DEF CInv, Socket, mgrVars, sockVars
<1>6. Stopping'
  BY <1>1 DEF CInv, Stopping, mgrVars
<1>7. Silent'
  BY <1>1 DEF CInv, Silent, mgrVars, sockVars, shellVars
<1>8. Armed'
  BY <1>1 DEF CInv, Armed, Due, mgrVars, shellVars
<1> QED
  BY <1>2, <1>3, <1>4, <1>5, <1>6, <1>7, <1>8 DEF CInv

(* A read event; the receive policy was set, hence init() is over. *)
LEMMA ReadKeeps ==
  ASSUME CInv, HandleRead
  PROVE  CInv'
<1> DEFINE data == Head(from_server)
<1>1. /\ "read" \in polled /\ from_server # <<>> /\ from_server' = Tail(from_server)
      /\ max_read_size
      /\ UNCHANGED <<mpx, pipe, fds, sock, link, server, to_server, mgr, max_read_size,
                     raced, shellbox, term, client, answer, lines, texts>>
  BY DEF HandleRead
<1>2. \/ /\ app_init /\ handshake' = FALSE
         /\ UNCHANGED <<main, polled, write_buf, abort_reason>>
      \/ /\ main' = "crash"
         /\ UNCHANGED <<shell, termbox, handshake, polled, write_buf, abort_reason>>
      \/ /\ Tell(<<"text">>)
         /\ UNCHANGED <<main, shell, handshake, polled, write_buf, abort_reason>>
      \/ /\ Fail(polled \ {"read"}) /\ write_buf' \in {write_buf, Append(write_buf, "too_large")}
         /\ UNCHANGED <<main, shell, handshake>>
  BY DEF HandleRead, client_consume, consume_text
<1> HIDE DEF data
<1>3. /\ termbox \in Seq(Mail) /\ from_server' \in Seq(Responses \cup Frames)
      /\ write_buf \in Seq(Output)
  BY <1>1, HasTail DEF CInv, Types
<1>4. mgr = "alive" /\ main \notin Early /\ shell # "closed"
  BY <1>1, PolledOwner DEF CInv, Silent, Early
<1>5. <<"text">> \in Seq(Mail) /\ <<"attach", "status">> \in Seq(Mail)
  BY DEF Mail
<1>6. ~Has(<<"text">>, "attach")
  BY DEF Has
<1>7. Append(write_buf, "too_large") \in Seq(Output)
  BY <1>3 DEF Output
<1>8. /\ termbox' \in Seq(Mail) /\ shell' \in {shell, "blocked"} /\ main' \in {main, "crash"}
      /\ Has(termbox', "attach") => Has(termbox, "attach") \/ shell' = "blocked"
      /\ polled' \subseteq polled /\ write_buf' \in Seq(Output)
      /\ abort_reason' \/ (UNCHANGED <<polled, write_buf, abort_reason>>)
  <2>1. CASE app_init /\ UNCHANGED <<main, polled, write_buf, abort_reason>>
    BY <1>3, <1>5, <2>1, TellIs DEF app_init
  <2>2. CASE main' = "crash" /\ UNCHANGED <<shell, termbox, polled, write_buf, abort_reason>>
    BY <1>3, <2>2
  <2>3. CASE Tell(<<"text">>) /\ UNCHANGED <<main, shell, polled, write_buf, abort_reason>>
    BY <1>3, <1>5, <1>6, <2>3, TellIs
  <2>4. CASE /\ Fail(polled \ {"read"}) /\ UNCHANGED <<main, shell>>
             /\ write_buf' \in {write_buf, Append(write_buf, "too_large")}
    <3>1. /\ termbox' \in Seq(Mail) /\ abort_reason' = TRUE /\ polled' = polled \ {"read"}
          /\ Has(termbox', "attach") => Has(termbox, "attach")
      BY <2>4, FailTells
    <3> QED
      BY <1>3, <1>7, <2>4, <3>1
  <2> QED
    BY <1>2, <2>1, <2>2, <2>3, <2>4
<1>9. Types'
  BY <1>1, <1>3, <1>8 DEF CInv, Types
<1>10. handshake' \in BOOLEAN /\ abort_reason' \in BOOLEAN
  BY <1>2, Zenon DEF CInv, Flags, Fail
<1>11. Flags'
  BY <1>1, <1>10, Zenon DEF CInv, Flags
<1>12. Owner'
  BY <1>1, <1>4, <1>8 DEF CInv, Owner, Waiting, Early
<1>13. Socket'
  BY <1>1, <1>4 DEF CInv, Socket
<1>14. Stopping'
  BY <1>1, <1>4, <1>8 DEF CInv, Stopping, Early
<1>15. Silent'
  BY <1>4, <1>8 DEF Silent, Early
<1>16. Armed'
  <2>1. CASE abort_reason'
    BY <2>1 DEF Armed
  <2>2. CASE UNCHANGED <<polled, write_buf, abort_reason>>
    BY <1>1, <1>8, <2>2 DEF CInv, Armed, Due, Waiting
  <2> QED
    BY <1>8, <2>1, <2>2
<1> QED
  BY <1>9, <1>11, <1>12, <1>13, <1>14, <1>15, <1>16 DEF CInv

(* A read event before the receive policy is set, the first exception of   *)
(* NotStranded.                                                            *)
LEMMA EarlyReadKeeps ==
  ASSUME CInv, HandleReadEarly
  PROVE  CInv'
<1>1. /\ "read" \in polled /\ polled' = polled \ {"read"} /\ raced' = "no_policy"
      /\ UNCHANGED <<main, mpx, pipe, sockVars, mgr, handshake, write_buf, max_read_size,
                     abort_reason, shellVars, termVars, lines, texts>>
  BY DEF HandleReadEarly
<1>2. mgr = "alive"
  BY <1>1, PolledOwner
<1>3. Types'
  BY <1>1 DEF CInv, Types, sockVars, shellVars, termVars
<1>4. Flags'
  BY <1>1, Zenon DEF CInv, Flags, termVars
<1>5. Owner'
  BY <1>1, <1>2 DEF CInv, Owner, shellVars, termVars
<1>6. Socket'
  BY <1>1 DEF CInv, Socket, sockVars
<1>7. Stopping'
  BY <1>1 DEF CInv, Stopping
<1>8. Silent'
  BY <1>1 DEF CInv, Silent, sockVars, shellVars
<1>9. Armed'
  BY <1>1 DEF CInv, Armed, Due, shellVars
<1> QED
  BY <1>3, <1>4, <1>5, <1>6, <1>7, <1>8, <1>9 DEF CInv

(* The connection is lost and the manager aborts. *)
LEMMA LostKeeps ==
  ASSUME CInv, HandleLost
  PROVE  CInv'
<1>1. /\ polled # {}
      /\ UNCHANGED <<main, mpx, pipe, sockVars, mgr, handshake, write_buf, max_read_size,
                     raced, shellVars, term, client, answer, lines, texts>>
  BY DEF HandleLost
<1>2. \E ops \in SUBSET polled : Fail(ops)
  <2>1. Fail(polled \ {"read"}) \/ Fail({})
    BY DEF HandleLost
  <2> QED
    BY <2>1
<1>3. PICK ops \in SUBSET polled : Fail(ops)
  BY <1>2
<1>4. /\ termbox' \in Seq(Mail) /\ abort_reason' = TRUE /\ polled' \subseteq polled
      /\ Has(termbox', "attach") => Has(termbox, "attach")
  BY <1>3, FailTells
<1>5. mgr = "alive"
  BY <1>1, PolledOwner
<1>6. Types'
  BY <1>1, <1>4 DEF CInv, Types, sockVars, shellVars
<1>7. Flags'
  BY <1>1, <1>4, Zenon DEF CInv, Flags
<1>8. Owner'
  BY <1>1, <1>4, <1>5 DEF CInv, Owner, shellVars
<1>9. Socket'
  BY <1>1 DEF CInv, Socket, sockVars
<1>10. Stopping'
  BY <1>1 DEF CInv, Stopping
<1>11. Silent'
  BY <1>1 DEF CInv, Silent, sockVars, shellVars
<1>12. Armed'
  BY <1>4 DEF Armed
<1> QED
  BY <1>6, <1>7, <1>8, <1>9, <1>10, <1>11, <1>12 DEF CInv

(* A write event in the middle of init(), the second exception. *)
LEMMA EarlyWriteKeeps ==
  ASSUME CInv, HandleWriteEarly
  PROVE  CInv'
<1>1. /\ "write" \in polled /\ main = "writing"
      /\ raced' \in {"empty", "torn"} /\ polled' \subseteq polled
      /\ UNCHANGED <<main, mpx, pipe, sockVars, mgr, handshake, write_buf, max_read_size,
                     abort_reason, shellVars, termVars, lines, texts>>
  BY DEF HandleWriteEarly
<1>2. mgr = "alive" /\ shell = "none" /\ shellbox = <<>>
  BY <1>1, PolledOwner DEF CInv, Silent, Early, Owner
<1>3. Types'
  BY <1>1 DEF CInv, Types, sockVars, shellVars, termVars
<1>4. Flags'
  BY <1>1, Zenon DEF CInv, Flags, termVars
<1>5. Owner'
  BY <1>1, <1>2 DEF CInv, Owner, shellVars, termVars
<1>6. Socket'
  BY <1>1 DEF CInv, Socket, sockVars
<1>7. Stopping'
  BY <1>1 DEF CInv, Stopping
<1>8. Silent'
  BY <1>1 DEF CInv, Silent, sockVars, shellVars
<1>9. Armed'
  BY <1>1, <1>2 DEF Armed, shellVars
<1> QED
  BY <1>3, <1>4, <1>5, <1>6, <1>7, <1>8, <1>9 DEF CInv

(* A write event ends writing only with empty buffers and a blocked        *)
(* mailbox, or with an abort.                                              *)
LEMMA WriteKeeps ==
  ASSUME CInv, HandleWrite
  PROVE  CInv'
<1> DEFINE Data == Output
<1>1. /\ "write" \in polled /\ main # "writing"
      /\ UNCHANGED <<main, mpx, pipe, fds, sock, link, server, from_server, mgr,
                     handshake, max_read_size, raced, term, client, answer, lines, texts>>
  BY DEF HandleWrite
<1>2. mgr = "alive" /\ main \notin Early /\ shell # "closed"
  BY <1>1, PolledOwner DEF Early
<1>3. /\ write_buf \in Seq(Data) /\ to_server \in Seq(Data) /\ shellbox \in Seq({"line"})
      /\ termbox \in Seq(Mail) /\ polled \subseteq {"read", "write"}
      /\ shell \in {"none", "blocked", "open", "closed"}
  BY DEF CInv, Types
<1>4. shellbox \in Seq(Data)
  <2>1. Seq({"line"}) \subseteq Seq(Data)
    BY DEF Output
  <2> QED
    BY <1>3, <2>1
<1>5. abort_reason \in BOOLEAN
  BY Zenon DEF CInv, Flags
<1> DEFINE W == /\ write_buf' \in Seq(Data) /\ to_server' \in Seq(Data)
                /\ shellbox' \in Seq({"line"}) /\ termbox' \in Seq(Mail)
                /\ polled' = polled \ {"write"} /\ shell' \in {shell, "blocked"}
                /\ shell' = "blocked" => shell \in {"blocked", "open"}
                /\ Has(termbox', "attach") => Has(termbox, "attach")
                /\ shell \notin {"blocked", "open"} => shellbox' = <<>>
           Quiet == write_buf' = <<>> /\ shellbox' = <<>> /\ shell' # "open"
<1>6. W /\ (abort_reason' = TRUE \/ (abort_reason' = abort_reason /\ Quiet))
  <2>1. CASE shellbox # <<>> /\ abort_reason
    <3>1. Fail(polled \ {"write"}) /\ shellbox' = Tail(shellbox) /\ UNCHANGED <<write_buf, to_server, shell>>
      BY <2>1 DEF HandleWrite
    <3>2. Tail(shellbox) \in Seq({"line"})
      BY <1>3, <2>1, HasTail
    <3>3. shell \in {"blocked", "open"}
      BY <2>1 DEF CInv, Owner
    <3> QED
      BY <1>3, <3>1, <3>2, <3>3, FailTells
  <2>2. CASE ~(shellbox # <<>> /\ abort_reason) /\ (link = "up" \/ write_buf \o shellbox = <<>>)
    <3>1. /\ shellbox' = <<>> /\ to_server' = to_server \o write_buf \o shellbox
          /\ write_buf' = <<>> /\ polled' = polled \ {"write"}
          /\ shell' = (IF shell = "open" THEN "blocked" ELSE shell)
          /\ UNCHANGED <<abort_reason, termbox>>
      BY <2>2 DEF HandleWrite
    <3>2. to_server' \in Seq(Data)
      <4>1. to_server \o write_buf \in Seq(Data)
        BY <1>3
      <4> QED
        BY <1>4, <3>1, <4>1
    <3> QED
      BY <1>3, <3>1, <3>2
  <2>3. CASE ~(shellbox # <<>> /\ abort_reason) /\ ~(link = "up" \/ write_buf \o shellbox = <<>>)
    <3>1. /\ shellbox' = <<>> /\ write_buf' = write_buf \o shellbox
          /\ Fail(polled \ {"write"}) /\ UNCHANGED <<to_server, shell>>
      BY <2>3 DEF HandleWrite
    <3>2. write_buf' \in Seq(Data)
      BY <1>3, <1>4, <3>1
    <3>3. shell' = "blocked" => shell \in {"blocked", "open"}
      BY <3>1
    <3>4. /\ termbox' \in Seq(Mail) /\ abort_reason' = TRUE /\ polled' = polled \ {"write"}
          /\ Has(termbox', "attach") => Has(termbox, "attach")
      BY <3>1, FailTells
    <3>5. shellbox' \in Seq({"line"}) /\ to_server' \in Seq(Data) /\ shell' = shell
      BY <1>3, <3>1
    <3> QED
      BY <3>1, <3>2, <3>3, <3>4, <3>5
  <2> QED
    BY <2>1, <2>2, <2>3
<1>7. Types'
  BY <1>1, <1>3, <1>6 DEF CInv, Types
<1>8. abort_reason' \in BOOLEAN
  BY <1>5, <1>6, Zenon
<1>9. Flags'
  BY <1>1, <1>8, Zenon DEF CInv, Flags
<1>10. Owner'
  BY <1>1, <1>2, <1>3, <1>6 DEF CInv, Owner
<1>11. Socket'
  BY <1>1 DEF CInv, Socket
<1>12. Stopping'
  BY <1>1 DEF CInv, Stopping
<1>13. Silent'
  BY <1>1, <1>2 DEF Silent
<1>14. Armed'
  BY <1>1, <1>6 DEF CInv, Armed, Due
<1> QED
  BY <1>7, <1>9, <1>10, <1>11, <1>12, <1>13, <1>14 DEF CInv

(* The last reference to the manager goes. *)
LEMMA DestroyKeeps ==
  ASSUME CInv, Destroy
  PROVE  CInv'
<1> DEFINE msgs == IF client THEN <<"down">> ELSE <<>>
<1>1. /\ mgr = "alive" /\ ~Referenced /\ mgr' = "gone" /\ fds' = fds \ {sock} /\ link' = "lost"
      /\ shell' = (IF shell = "none" THEN "none" ELSE "closed") /\ shellbox' = <<>> /\ Tell(msgs)
      /\ UNCHANGED <<main, mpxVars, sock, server, to_server, from_server, handshake,
                     write_buf, max_read_size, abort_reason, raced, term, client, answer, lines, texts>>
  BY DEF Destroy
<1>2. msgs \in Seq(Mail) /\ ~Has(msgs, "attach")
  <2>1. <<>> \in Seq(Mail) /\ ~Has(<<>>, "attach")
    BY DEF Has
  <2>2. <<"down">> \in Seq(Mail)
    BY DEF Mail
  <2>3. ~Has(<<"down">>, "attach")
    BY DEF Has
  <2> QED
    BY <2>1, <2>2, <2>3
<1> HIDE DEF msgs
<1>3. termbox' \in Seq(Mail) /\ (Has(termbox', "attach") => Has(termbox, "attach"))
  BY <1>1, <1>2, TellIs DEF CInv, Types
<1>4. /\ main \notin {"writing", "reading", "loop", "ask"} /\ polled = {}
      /\ ~Has(pipe, "read") /\ ~Has(pipe, "write")
  BY <1>1 DEF Referenced, Has
<1>5. main \notin {"init", "start", "connect", "make"}
  BY <1>1 DEF CInv, Owner
<1>6. Types'
  BY <1>1, <1>3 DEF CInv, Types, mpxVars
<1>7. Flags'
  BY <1>1, Zenon DEF CInv, Flags
<1>8. Owner'
  BY <1>1, <1>3, <1>4, <1>5 DEF CInv, Owner, Waiting, mpxVars
<1>9. Socket'
  BY <1>1 DEF Socket
<1>10. Stopping'
  BY <1>1 DEF CInv, Stopping, mpxVars
<1>11. Silent'
  BY <1>1, <1>4, <1>5 DEF Silent, Early
<1>12. Armed'
  BY <1>1, <1>4 DEF Armed, Waiting
<1> QED
  BY <1>6, <1>7, <1>8, <1>9, <1>10, <1>11, <1>12 DEF CInv

-----------------------------------------------------------------------------
(* The terminal *)

(* The terminal takes a message and gets nothing but down messages. *)
LEMMA TermMoves ==
  ASSUME CInv, Types', Flags',
         UNCHANGED <<main, mpx, polled, sockVars, mgrVars, lines, texts>>,
         UNCHANGED <<shellVars, pipe>>,
         term' = term \/ (term = "alive" /\ term' = "dead" /\ (mgr = "gone" \/ shell # "none")),
         client' \/ Has(termbox', "attach") => client \/ Has(termbox, "attach")
  PROVE  CInv'
<1>1. Owner'
  BY DEF CInv, Owner, mgrVars, shellVars
<1>2. Socket'
  BY DEF CInv, Socket, mgrVars, sockVars
<1>3. Stopping'
  BY DEF CInv, Stopping, mgrVars
<1>4. Silent'
  BY DEF CInv, Silent, mgrVars, sockVars, shellVars
<1>5. Armed'
  BY DEF CInv, Armed, Due, mgrVars, shellVars
<1> QED
  BY <1>1, <1>2, <1>3, <1>4, <1>5 DEF CInv

(* What taking a message leaves. *)

(* What the terminal's mailbox has when it takes a message. *)
LEMMA TakesMail ==
  ASSUME CInv, NEW kind, Behavior(kind)
  PROVE  /\ term = "alive" /\ termbox \in Seq(Mail) /\ Tail(termbox) \in Seq(Mail)
         /\ Has(termbox, kind)
         /\ \A x : Has(Tail(termbox), x) => Has(termbox, x)
<1>1. term = "alive" /\ termbox \in Seq(Mail) /\ termbox # <<>> /\ Head(termbox) = kind
  BY DEF CInv, Types, Behavior
<1> QED
  BY <1>1, HasTail

(* attach: the sender is the shell. *)
LEMMA AttachKeeps ==
  ASSUME CInv, Attach, UNCHANGED <<main, mpx, polled, sockVars, mgrVars, lines, texts>>
  PROVE  CInv'
<1>1. /\ client' = TRUE /\ UNCHANGED <<term, answer, shellVars, pipe>>
      /\ termbox' = Append(Tail(termbox), "down") \/ termbox' = Tail(termbox)
  BY DEF Attach
<1>2. /\ termbox \in Seq(Mail) /\ Tail(termbox) \in Seq(Mail) /\ Has(termbox, "attach")
  BY TakesMail DEF Attach
<1>3. termbox' \in Seq(Mail)
  BY <1>1, <1>2 DEF Mail
<1>4. Types'
  BY <1>1, <1>3 DEF CInv, Types, sockVars, mgrVars, shellVars
<1>5. Flags'
  BY <1>1, Zenon DEF CInv, Flags, mgrVars
<1> QED
  BY <1>1, <1>2, <1>4, <1>5, TermMoves

(* status and text are only shown. *)
LEMMA RenderKeeps ==
  ASSUME CInv, Render, UNCHANGED <<main, mpx, polled, sockVars, mgrVars, lines, texts>>
  PROVE  CInv'
<1>1. termbox' = Tail(termbox) /\ UNCHANGED <<term, client, answer, shellVars, pipe>>
  BY DEF Render
<1>2. /\ termbox' \in Seq(Mail)
      /\ Has(termbox', "attach") => Has(termbox, "attach")
  BY <1>1, TakesMail DEF Render
<1>3. Types'
  BY <1>1, <1>2 DEF CInv, Types, sockVars, mgrVars, shellVars
<1>4. Flags'
  BY <1>1, Zenon DEF CInv, Flags, mgrVars
<1> QED
  BY <1>1, <1>2, <1>3, <1>4, TermMoves

(* detach and down end the terminal of an attached client. *)
LEMMA DetachKeeps ==
  ASSUME CInv, Detach, UNCHANGED <<main, mpx, polled, sockVars, mgrVars, lines, texts>>
  PROVE  CInv'
<1>1. UNCHANGED <<shellVars, pipe>> /\ client' = client
  BY DEF Detach, Quit
<1>2. /\ term = "alive" /\ Tail(termbox) \in Seq(Mail)
      /\ Has(Tail(termbox), "attach") => Has(termbox, "attach")
  BY TakesMail DEF Detach
<1>3. CASE client
  <2>1. term' = "dead" /\ termbox' = <<>> /\ answer' \in {"error", answer}
    BY <1>3 DEF Detach, Quit
  <2>2. Types'
    BY <1>1, <2>1 DEF CInv, Types, sockVars, mgrVars, shellVars
  <2>3. Flags'
    BY <1>1, Zenon DEF CInv, Flags, mgrVars
  <2>4. ~Has(termbox', "attach") /\ shell # "none"
    BY <1>3, <2>1, HasNone DEF CInv, Owner
  <2> QED
    BY <1>1, <1>2, <2>1, <2>2, <2>3, <2>4, TermMoves
<1>4. CASE ~client
  <2>1. termbox' = Tail(termbox) /\ UNCHANGED <<term, answer>>
    BY <1>4 DEF Detach
  <2>2. Types'
    BY <1>1, <1>2, <2>1 DEF CInv, Types, sockVars, mgrVars, shellVars
  <2>3. Flags'
    BY <1>1, Zenon DEF CInv, Flags, mgrVars
  <2> QED
    BY <1>1, <1>2, <2>1, <2>2, <2>3, TermMoves
<1> QED
  BY <1>3, <1>4

(* input: the line that opens a blocked mailbox also makes writing due. *)
LEMMA InputKeeps ==
  ASSUME CInv, Input, UNCHANGED <<main, mpx, polled, sockVars, mgrVars, lines, texts>>
  PROVE  CInv'
<1> DEFINE Ops == {"read", "write", "shutdown"}
<1>1. termbox' = Tail(termbox) /\ answer' = "ok" /\ UNCHANGED <<term, client>>
  BY DEF Input
<1>2. /\ termbox' \in Seq(Mail)
      /\ Has(termbox', "attach") => Has(termbox, "attach")
  BY <1>1, TakesMail DEF Input
<1>3. Flags'
  BY <1>1, Zenon DEF CInv, Flags, mgrVars
<1>4. CASE UNCHANGED <<shellVars, pipe>>
  <2>1. Types'
    BY <1>1, <1>2, <1>4 DEF CInv, Types, sockVars, mgrVars, shellVars
  <2> QED
    BY <1>1, <1>2, <1>3, <1>4, <2>1, TermMoves
<1>5. CASE /\ client /\ shell \in {"blocked", "open"}
           /\ shellbox' = Append(shellbox, "line") /\ shell' = "open"
           /\ pipe' = IF shell = "blocked" THEN Append(pipe, "write") ELSE pipe
  <2>1. pipe \in Seq(Ops) /\ shellbox \in Seq({"line"}) /\ "write" \in Ops
    BY DEF CInv, Types
  <2>2. pipe' \in Seq(Ops) /\ shellbox' \in Seq({"line"})
    BY <1>5, <2>1
  <2>3. /\ \A x : Has(pipe, x) => Has(pipe', x)
        /\ \A x : Has(pipe', x) => Has(pipe, x) \/ x = "write"
        /\ shell = "blocked" => Has(pipe', "write")
    <3>1. \A x : Has(Append(pipe, "write"), x) <=> Has(pipe, x) \/ x = "write"
      BY <2>1, HasAppend
    <3> QED
      BY <1>5, <3>1
  <2>4. mgr = "alive" /\ main \notin Early
    BY <1>5 DEF CInv, Owner, Silent
  <2>5. Types'
    BY <1>1, <1>2, <1>5, <2>2 DEF CInv, Types, sockVars, mgrVars
  <2>6. Owner'
    BY <1>1, <1>2, <1>5, <2>4 DEF CInv, Owner, mgrVars
  <2>7. Socket'
    BY DEF CInv, Socket, mgrVars, sockVars
  <2>8. Stopping'
    BY <2>3 DEF CInv, Stopping, mgrVars
  <2>9. Silent'
    BY <2>4 DEF Silent
  <2>10. Armed'
    BY <1>5, <2>3 DEF CInv, Armed, Due, mgrVars
  <2> QED
    BY <1>3, <2>5, <2>6, <2>7, <2>8, <2>9, <2>10 DEF CInv
<1> QED
  BY <1>4, <1>5 DEF Input

(* A terminal that nobody refers to ends after the manager. *)
LEMMA UnreachableKeeps ==
  ASSUME CInv, Unreachable, UNCHANGED <<main, mpx, polled, sockVars, mgrVars, lines, texts>>
  PROVE  CInv'
<1>1. /\ term = "alive" /\ mgr = "gone" /\ term' = "dead"
      /\ UNCHANGED <<termbox, client, answer, shellVars, pipe>>
  BY DEF Unreachable
<1>2. Types'
  BY <1>1 DEF CInv, Types, sockVars, mgrVars, shellVars
<1>3. Flags'
  BY <1>1, Zenon DEF CInv, Flags, mgrVars
<1> QED
  BY <1>1, <1>2, <1>3, TermMoves

-----------------------------------------------------------------------------
(* The server *)

(* The server responds, sends frames and closes the connection. *)
LEMMA ServerKeeps ==
  ASSUME CInv,
         \/ \E data \in Responses : Respond(data)
         \/ \E data \in Frames : ServerSends(data)
         \/ ServerCloses
  PROVE  CInv'
<1>1. /\ UNCHANGED <<main, mpxVars, fds, sock, to_server, mgrVars, shellVars, termVars, lines>>
      /\ link' \in {link, "lost"}
      /\ \/ server' \in {server, "refuses"}
         \/ server' = "serves" /\ "request" \in ToSet(to_server)
  BY DEF Respond, ServerSends, ServerCloses
<1>2. from_server' \in Seq(Responses \cup Frames) /\ texts' \in 0 .. MaxTexts
  <2>1. from_server \in Seq(Responses \cup Frames) /\ texts \in 0 .. MaxTexts
    BY DEF CInv, Types
  <2>2. \/ from_server' = from_server
        \/ \E d \in Responses \cup Frames : from_server' = Append(from_server, d)
    BY DEF Respond, ServerSends, ServerCloses
  <2>3. texts' = texts \/ (texts < MaxTexts /\ texts' = texts + 1)
    BY DEF Respond, ServerSends, ServerCloses
  <2>4. texts' \in 0 .. MaxTexts
    BY <2>1, <2>3, ClientAssumption
  <2>5. \A d \in Responses \cup Frames : Append(from_server, d) \in Seq(Responses \cup Frames)
    BY <2>1
  <2>6. from_server' \in Seq(Responses \cup Frames)
    BY <2>1, <2>2, <2>5
  <2> QED
    BY <2>4, <2>6
<1>3. Types'
  BY <1>1, <1>2 DEF CInv, Types, mpxVars, mgrVars, shellVars, termVars
<1>4. Flags'
  BY <1>1, Zenon DEF CInv, Flags, mgrVars, termVars
<1>5. Owner'
  BY <1>1 DEF CInv, Owner, mpxVars, mgrVars, shellVars, termVars
<1>6. Socket'
  BY <1>1 DEF CInv, Socket, mgrVars
<1>7. Stopping'
  BY <1>1 DEF CInv, Stopping, mpxVars, mgrVars
<1>8. "request" \in ToSet(to_server) => to_server # <<>>
  BY DEF ToSet
<1>9. Silent'
  BY <1>1, <1>8 DEF CInv, Silent, mgrVars, shellVars
<1>10. Armed'
  BY <1>1 DEF CInv, Armed, Due, mpxVars, mgrVars, shellVars
<1> QED
  BY <1>3, <1>4, <1>5, <1>6, <1>7, <1>9, <1>10 DEF CInv

(* Every step of the program preserves the invariant. *)
LEMMA NextKeeps == CInv /\ [Next]_vars => CInv'
<1> SUFFICES ASSUME CInv, [Next]_vars PROVE CInv'
  OBVIOUS
<1>1. CASE Terminal
  BY <1>1, AttachKeeps, RenderKeeps, DetachKeeps, InputKeeps, UnreachableKeeps DEF Terminal
<1>2. CASE MpxThread
  BY <1>2, TakeKeeps, EndKeeps, ReadKeeps, EarlyReadKeeps, LostKeeps, EarlyWriteKeeps,
     WriteKeeps, DestroyKeeps DEF MpxThread
<1>3. CASE Main
  BY <1>3, MainKeeps, RequestKeeps, StopKeeps DEF Main
<1>4. CASE getline \/ EndOfInput \/ caf_main_init
  BY <1>4, MainKeeps, MakeKeeps
<1>5. CASE \E ok \in BOOLEAN : middleman_init(ok) \/ caf_main_connect(ok)
  BY <1>5, MainKeeps, ConnectKeeps
<1>6. CASE \/ \E data \in Responses : Respond(data)
           \/ \E data \in Frames : ServerSends(data)
           \/ ServerCloses
  BY <1>6, ServerKeeps
<1>7. CASE UNCHANGED vars
  <2>1. /\ UNCHANGED <<main, mpxVars, sockVars, mgrVars, shellVars, termVars, lines, texts>>
    BY <1>7 DEF vars
  <2>2. Types'
    BY <2>1 DEF CInv, Types, mpxVars, sockVars, mgrVars, shellVars, termVars
  <2>3. Flags'
    BY <2>1, Zenon DEF CInv, Flags, mgrVars, termVars
  <2> QED
    BY <2>1, <2>2, <2>3, TermMoves DEF mpxVars, termVars
<1>8. Next => Running \/ UNCHANGED vars
  BY DEF Next
<1>9. CASE Running
  BY <1>1, <1>2, <1>3, <1>4, <1>5, <1>6, <1>9 DEF Running
<1> QED
  BY <1>7, <1>8, <1>9

(* The inductive invariant of web-socket-client.cpp, for every list of     *)
(* addresses and every number of lines and texts.                          *)
THEOREM ClientInvariant == Spec => []CInv
<1>1. Init => CInv
  BY InitKeeps
<1>2. CInv /\ [Next]_vars => CInv'
  BY NextKeeps
<1> QED
  BY <1>1, <1>2, PTL DEF Spec

(* When the program ends, middleman::stop has joined the thread of the     *)
(* multiplexer, nothing is polled and the connected socket is closed,      *)
(* whichever system calls failed.                                          *)
THEOREM ClientTypes == Spec => []TypeOK
<1>1. CInv => TypeOK
  <2> SUFFICES ASSUME CInv PROVE TypeOK
    OBVIOUS
  <2>1. ASSUME main = "exit" PROVE mpx \in {"off", "done"} /\ polled = {} /\ sock \notin fds
    <3>1. mpx \in {"off", "done"} /\ mgr # "alive"
      BY <2>1 DEF CInv, Stopping
    <3>2. polled = {}
      BY <3>1 DEF CInv, Owner
    <3>3. CASE mgr = "none"
      <4>1. sock = 0 /\ fds \subseteq ToSet(Addrs)
        BY <2>1, <3>3 DEF CInv, Socket, Types
      <4>2. 0 \notin ToSet(Addrs)
        BY ClientAssumption DEF ToSet
      <4> QED
        BY <3>1, <3>2, <4>1, <4>2
    <3>4. CASE mgr = "gone"
      BY <3>1, <3>2, <3>4 DEF CInv, Socket
    <3> QED
      BY <3>1, <3>3, <3>4 DEF CInv, Types
  <2> QED
    BY <2>1 DEF CInv, TypeOK
<1> QED
  BY <1>1, ClientInvariant, PTL

(* However the threads interleave, a client that waits for the server has  *)
(* its request sent or due and reading due, and no line of the user stays  *)
(* behind, unless an event came during init().                             *)
THEOREM ClientNotStranded == Spec => []NotStranded
<1>1. CInv => NotStranded
  BY DueIs DEF CInv, Armed, NotStranded, Waiting
<1> QED
  BY <1>1, ClientInvariant, PTL
=============================================================================
