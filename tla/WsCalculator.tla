---------------------------- MODULE WsCalculator ----------------------------
(***************************************************************************)
(* A connection of examples/net/web-socket-calculator.cpp after its        *)
(* handshake.  The peer sends lines of JSON in text frames that may hold a *)
(* part of a line or several; each line becomes a request to the worker    *)
(* actor, whose response comes back to the shell of the connection.  The   *)
(* multiplexer's thread, the worker and the actor clock run concurrently.  *)
(* The acceptor is the one in WsFeed, the way of a wake-up in ActorShell.  *)
(***************************************************************************)
EXTENDS Naturals, Sequences, SequencesExt, FiniteSets

CONSTANTS
  Texts,         \* what a text frame may hold
  max_buf_size,  \* app::max_buf_size
  MaxTexts       \* bound on the frames of the peer

VARIABLES
  polled,        \* operations that the manager is polled for
  texts,         \* number of text frames so far
  buf,           \* app::buf_
  asked,         \* number of lines so far, empty ones left out
  requests,      \* mailbox of the worker
  clock,         \* timeouts that the actor clock has to deliver
  handlers,      \* abstract_actor_shell::multiplexed_responses_
  shell,         \* mailbox of the shell: its messages and whether it is blocked
  sending,       \* how far handle_write_event got
  frames,        \* write buffer of the transport
  replies,       \* what the peer got
  abort_reason   \* of the manager

calcVars == <<polled, texts, buf, asked, requests, clock, handlers, shell, sending,
              frames, replies, abort_reason>>

(* A character is a piece of a request ("r"), of JSON that is no request   *)
(* ("j"), of no JSON at all ("g"), or the end of a line.                   *)
Chars == {"r", "j", "g", "nl"}

ASSUME CalculatorAssumption ==
  Texts \subseteq Seq(Chars) /\ max_buf_size \in Nat /\ MaxTexts \in Nat

(* Requests are known by the number of their line. *)
Reply == [line : Nat \ {0}, is : {"result", "error"}]
Answer == [line : Nat \ {0}, is : {"response", "timeout"}]

CalcTypeOK ==
  /\ polled \subseteq {"read", "write"} /\ texts \in 0 .. MaxTexts
  /\ buf \in Seq(Chars \ {"nl"}) /\ Len(buf) <= max_buf_size
  /\ asked \in Nat /\ requests \in Seq(1 .. asked)
  /\ clock \subseteq 1 .. asked /\ handlers \subseteq 1 .. asked
  /\ shell.msgs \in Seq(Answer) /\ (shell.blocked => shell.msgs = <<>>)
  /\ sending \in {"no", "prepare", "write"} /\ abort_reason \in BOOLEAN
  /\ frames \in Seq(Reply) /\ replies \in Seq(Reply)

(* app::init makes the shell, whose mailbox is blocked. *)
CalcInit ==
  /\ polled = {"read"} /\ texts = 0 /\ buf = <<>> /\ asked = 0
  /\ requests = <<>> /\ clock = {} /\ handlers = {}
  /\ shell = [msgs |-> <<>>, blocked |-> TRUE]
  /\ sending = "no" /\ frames = <<>> /\ replies = <<>> /\ abort_reason = FALSE

Gone == polled = {}

-----------------------------------------------------------------------------
(* Read events *)

Newlines(s) == SetToSortSeq({i \in DOMAIN s : s[i] = "nl"}, <)

(* The lines of s that are complete, and what follows the last of them. *)
Lines(s) ==
  LET nl == Newlines(s)
  IN  [k \in DOMAIN nl |-> SubSeq(s, IF k = 1 THEN 1 ELSE nl[k - 1] + 1, nl[k] - 1)]
Unfinished(s) == SelectInSeq(Reverse(s), LAMBDA c : c = "nl")
Rest(s) ==
  LET n == Unfinished(s)
  IN  IF n = 0 THEN s ELSE SubSeq(s, Len(s) - n + 2, Len(s))

(* json_reader::load, and try_request of the adapter. *)
load(line) == "g" \notin ToSet(line)
try_request(line) == load(line) /\ "j" \notin ToSet(line)

(* begin_output registers the manager if the write buffer was empty. *)
begin_output(sent) == IF sent # <<>> /\ frames = <<>> THEN {"write"} ELSE {}

(* A frame for each of these lines. *)
send_error(errs) == [i \in DOMAIN errs |-> [line |-> errs[i], is |-> "error"]]

(* The loop of consume_text skips empty lines. *)
LinesOf(text) == SelectSeq(Lines(buf \o text), LAMBDA l : l # <<>>)

(* A handler returns -1.  If an earlier frame of the same read event began *)
(* the output, poll_once forgets about that.                               *)
Reject ==
  /\ abort_reason' = TRUE
  /\ \/ polled' = polled \ {"read"}
     \/ frames # <<>> /\ polled' = {}

(* app::consume_text *)
consume_text(text) ==
  LET lines == LinesOf(text)
      nrs == [i \in DOMAIN lines |-> asked + i]
      reqs == SelectSeq(nrs, LAMBDA k : try_request(lines[k - asked]))
      errs == SelectSeq(nrs, LAMBDA k : ~try_request(lines[k - asked]))
      errors == send_error(errs)
  IN  /\ "read" \in polled /\ sending = "no" /\ texts < MaxTexts
      /\ texts' = texts + 1
      /\ IF Len(buf) + Len(text) > max_buf_size
         THEN /\ Reject
              /\ UNCHANGED <<buf, asked, requests, clock, handlers, frames>>
         ELSE /\ buf' = Rest(buf \o text)
              /\ asked' = asked + Len(lines)
              /\ requests' = requests \o reqs
              /\ handlers' = handlers \cup ToSet(reqs)
              /\ clock' = clock \cup ToSet(reqs)
              /\ frames' = frames \o errors
              /\ polled' = polled \cup begin_output(errors)
              /\ UNCHANGED abort_reason
      /\ UNCHANGED <<shell, sending, replies>>

(* app::consume_binary rejects its input; a peer that left has the same    *)
(* effect.                                                                 *)
consume_binary ==
  /\ "read" \in polled /\ sending = "no"
  /\ Reject
  /\ UNCHANGED <<texts, buf, asked, requests, clock, handlers, shell, sending, frames,
                 replies>>

(* poll() reports an error of the socket. *)
SocketError ==
  /\ ~Gone /\ sending = "no"
  /\ abort_reason' = TRUE /\ polled' = {}
  /\ UNCHANGED <<texts, buf, asked, requests, clock, handlers, shell, sending, frames,
                 replies>>

-----------------------------------------------------------------------------
(* Worker and clock *)

(* The shell's enqueue: it wakes the manager if the mailbox was blocked; a *)
(* manager that is gone closed it.                                         *)
Enqueue(m) ==
  IF Gone THEN UNCHANGED <<shell, polled>>
  ELSE /\ shell' = [msgs |-> Append(shell.msgs, m), blocked |-> FALSE]
       /\ polled' = IF shell.blocked THEN polled \cup {"write"} ELSE polled

(* The worker's behavior, for an addition or a subtraction. *)
Compute ==
  /\ requests # <<>>
  /\ requests' = Tail(requests)
  /\ Enqueue([line |-> Head(requests), is |-> "response"])
  /\ UNCHANGED <<texts, buf, asked, clock, handlers, sending, frames, replies, abort_reason>>

Elapse(k) ==
  /\ k \in clock /\ clock' = clock \ {k}
  /\ Enqueue([line |-> k, is |-> "timeout"])
  /\ UNCHANGED <<texts, buf, asked, requests, handlers, sending, frames, replies, abort_reason>>

-----------------------------------------------------------------------------
(* Write events *)

(* on_result and on_error. *)
ReplyTo(m) == [line |-> m.line, is |-> IF m.is = "timeout" THEN "error" ELSE "result"]

(* The loop in app::prepare_send, for a message.  A message without        *)
(* handler is dropped; on_error sets the abort reason besides its reply.   *)
(* With an abort reason prepare_send fails: the frame stays in the buffer, *)
(* the mailbox is not blocked and the manager still polled for reading, if *)
(* it was.                                                                 *)
prepare_send ==
  LET m == Head(shell.msgs)
      handled == m.line \in handlers
      fails == abort_reason \/ (handled /\ m.is = "timeout")
  IN  /\ "write" \in polled /\ sending # "write" /\ shell.msgs # <<>>
      /\ shell' = [shell EXCEPT !.msgs = Tail(@)]
      /\ handlers' = handlers \ {m.line}
      /\ frames' = IF handled THEN Append(frames, ReplyTo(m)) ELSE frames
      /\ abort_reason' = fails
      /\ sending' = IF fails THEN "no" ELSE "prepare"
      /\ polled' = IF fails THEN polled \ {"write"} ELSE polled
      /\ UNCHANGED <<texts, buf, asked, requests, clock, replies>>

(* The loop finds the mailbox empty. *)
Prepared ==
  /\ "write" \in polled /\ sending # "write" /\ shell.msgs = <<>>
  /\ sending' = "write"
  /\ UNCHANGED <<polled, texts, buf, asked, requests, clock, handlers, shell, frames,
                 replies, abort_reason>>

(* Mutant: the manager stops writing without a look at its mailbox. *)
done_sending_blind == shell' = [shell EXCEPT !.blocked = TRUE]

(* app::done_sending: try_block_mailbox. *)
done_sending == shell' = [shell EXCEPT !.blocked = shell.msgs = <<>>]

(* write() takes n frames. *)
Written(n) ==
  /\ sending = "write" /\ n \in 0 .. Len(frames)
  /\ replies' = replies \o SubSeq(frames, 1, n)
  /\ frames' = SubSeq(frames, n + 1, Len(frames))
  /\ IF frames' = <<>> THEN done_sending ELSE UNCHANGED shell
  /\ polled' = IF frames' = <<>> /\ shell'.blocked THEN polled \ {"write"} ELSE polled
  /\ sending' = "no"
  /\ UNCHANGED <<texts, buf, asked, requests, clock, handlers, abort_reason>>

WriteError ==
  /\ sending = "write" /\ frames # <<>>
  /\ abort_reason' = TRUE /\ polled' = polled \ {"write"} /\ sending' = "no"
  /\ UNCHANGED <<texts, buf, asked, requests, clock, handlers, shell, frames, replies>>

-----------------------------------------------------------------------------
CalcNext ==
  \/ \E text \in Texts : consume_text(text)
  \/ \E k \in clock : Elapse(k)
  \/ \E n \in 0 .. Len(frames) : Written(n)
  \/ consume_binary \/ SocketError \/ Compute \/ prepare_send \/ Prepared \/ WriteError

(* The threads run on, a socket with room is reported as writable, and the *)
(* peer reads: of the writes that are tried again and again, some take all.*)
(* No timeout has to come first.                                           *)
CalcFairness ==
  /\ WF_calcVars(Compute) /\ WF_calcVars(prepare_send \/ Prepared)
  /\ SF_calcVars(Written(Len(frames)))

-----------------------------------------------------------------------------
Output == replies \o frames
OutputLines == [i \in DOMAIN Output |-> Output[i].line]
Results == SelectSeq(Output, LAMBDA r : r.is = "result")

(* However the lines are cut into frames, every line has exactly one       *)
(* outcome: a reply or a handler that waits for its response, which is on  *)
(* its way.  Results come in the order of the lines (errors may overtake   *)
(* them), and what has to be written will be, unless the connection is to  *)
(* be aborted.                                                             *)
EachLineOnce ==
  /\ IsInjective(OutputLines)
  /\ ToSet(OutputLines) \cap handlers = {}
  /\ ToSet(OutputLines) \cup handlers = 1 .. asked
  /\ \A i, j \in DOMAIN Results : i < j => Results[i].line < Results[j].line
  /\ ~abort_reason =>
       /\ \A k \in handlers : \/ k \in ToSet(requests)
                              \/ \E i \in DOMAIN shell.msgs : shell.msgs[i].line = k
       /\ shell.msgs # <<>> \/ frames # <<>> => "write" \in polled

(* Every line is answered unless the connection is to be aborted: no       *)
(* response is left in the mailbox, no reply in the write buffer.          *)
LinesAnswered ==
  []<>({r.line : r \in ToSet(replies)} = 1 .. asked \/ abort_reason)
=============================================================================
