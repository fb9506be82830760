------------------------------- MODULE Sockets -------------------------------
(***************************************************************************)
(* How caf::net opens TCP sockets: sequences of system calls, each of      *)
(* which may fail.  A socket that exists when a call fails stays open      *)
(* unless a socket_guard holds it by then.                                 *)
(***************************************************************************)
EXTENDS Naturals, Sequences

(* child_process_inherit and nonblocking read the flags and set them. *)
child_process_inherit == <<"fcntl", "fcntl">>
nonblocking == <<"fcntl", "fcntl">>

(* What may come of making socket s with these calls, of which the first   *)
(* creates it and the ones from position `guard' on run under a            *)
(* socket_guard: the guard closes the socket if one of them fails.         *)
socket_guard(s, calls, guard) ==
  {[ok |-> TRUE, open |-> {s}]} \cup
  {[ok |-> FALSE, open |-> IF k = 1 \/ k >= guard THEN {} ELSE {s}] :
     k \in DOMAIN calls}

(* Mutant: the guard is set up after child_process_inherit here as well. *)
acceptor_late_guard(s, v6, reuse_addr, any) ==
  socket_guard(s, <<"socket">> \o child_process_inherit \o <<"inet_pton", "bind", "listen">>, 4)

(* new_tcp_acceptor_impl, then listen() of make_tcp_accept_socket; both    *)
(* have a guard from the first call after socket() on.                     *)
new_tcp_acceptor_impl(s, v6, reuse_addr, any) ==
  socket_guard(s,
    <<"socket">> \o child_process_inherit
    \o (IF reuse_addr THEN <<"setsockopt">> ELSE <<>>)
    \o (IF any /\ v6 THEN <<"setsockopt">> ELSE <<>>)
    \o <<"inet_pton", "bind", "listen">>, 2)

(* make_tcp_accept_socket(ip_endpoint): the family and whether the address *)
(* is the wildcard follow from the endpoint.                               *)
make_tcp_accept_socket(s, node, reuse_addr) ==
  new_tcp_acceptor_impl(s, ~node.embeds_v4, reuse_addr, node.zero)

(* accept() on a listening socket, for the connection s. *)
accept(s) == {[ok |-> TRUE, open |-> {s}], [ok |-> FALSE, open |-> {}]}

(* make_connected_tcp_stream_socket(ip_endpoint): the guard comes after    *)
(* child_process_inherit.                                                  *)
ip_connect(s) ==
  socket_guard(s, <<"socket">> \o child_process_inherit \o <<"connect">>, 4)

(* make_connected_tcp_stream_socket(authority): tries the addresses of the *)
(* host, each with a socket of its own, until one connects.                *)
make_connected_tcp_stream_socket(port, addrs) ==
  LET Fails(k) == {r.open : r \in {q \in ip_connect(addrs[k]) : ~q.ok}}
      Left(n) == {UNION {f[k] : k \in 1 .. n} :
                    f \in {g \in [1 .. n -> UNION {Fails(k) : k \in 1 .. n}] :
                             \A k \in 1 .. n : g[k] \in Fails(k)}}
      none == {[sock |-> 0, open |-> l] : l \in Left(Len(addrs))}
  IN  IF port = 0 \/ addrs = <<>> THEN {[sock |-> 0, open |-> {}]}
      ELSE none \cup
           UNION {{[sock |-> addrs[k], open |-> l \cup {addrs[k]}] : l \in Left(k - 1)} :
                    k \in DOMAIN addrs}

-----------------------------------------------------------------------------
(* A socket manager owns its socket, as a guard does, from its constructor *)
(* on.                                                                     *)

send_buffer_size == <<"getsockopt">>

(* stream_transport::init.  Its call of nodelay() is never compiled: the   *)
(* managers' handle() is a stream_socket, the base of tcp_stream_socket,   *)
(* so that the condition of the `if constexpr' is false.                   *)
stream_transport_init == send_buffer_size

(* socket_manager_impl::init, for a protocol with these calls. *)
socket_manager_init(s, protocol) == socket_guard(s, nonblocking \o protocol, 1)
=============================================================================
