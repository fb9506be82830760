----------------------------- MODULE ActorShell -----------------------------
(***************************************************************************)
(* caf::net::abstract_actor_shell: the mailbox that lets other actors talk *)
(* to a socket manager.  Any thread may enqueue a message.  The enqueue    *)
(* that finds the mailbox blocked wakes the manager: it asks the           *)
(* multiplexer to register the manager for writing, and the write event    *)
(* consumes the messages and blocks the mailbox again.                     *)
(*                                                                         *)
(* One shell with its manager.  Of the multiplexer this module keeps the   *)
(* pipe, the operations the manager is polled for and the references that  *)
(* keep the manager alive (module Multiplexer has the details).  The loop  *)
(* is the multiplexer's thread: it runs the handlers of this manager and   *)
(* of others, which may send to the shell too.                             *)
(***************************************************************************)
EXTENDS Naturals, Sequences, SequencesExt, FiniteSets

CONSTANTS
  Senders,     \* threads other than the multiplexer's
  Loop,        \* the multiplexer's thread
  Nobody,      \* nobody holds owner_mtx_
  Async,       \* ordinary messages to the shell
  Requests,    \* requests to the shell
  Calls,       \* requests that the shell sends
  Guarded      \* does some owner keep the manager as long as threads send?

ASSUME ShellAssumption ==
  /\ Loop \notin Senders /\ Nobody \notin Senders \cup {Loop}
  /\ Guarded \in BOOLEAN

VARIABLES
  state,           \* of the mailbox: open, blocked or closed
  mailbox,         \* messages in mailbox_: its inbox and its queue
  owner,           \* owner_ # nullptr
  owner_mtx,       \* who holds owner_mtx_
  responses,       \* keys of multiplexed_responses_
  outcome,         \* what the response handler of each call was given
  abort_reason,    \* did the manager set its abort reason?
  polled,          \* operations the multiplexer polls the manager for
  pipe,            \* unread register_writing messages
  shutting_down,   \* the multiplexer shuts down; the pipe is closed
  held,            \* an owner outside the multiplexer refers to the manager
  refs,            \* reference count of the manager
  life,            \* is the manager alive, in its destructor or gone?
  pc,              \* where each thread is
  sent,            \* messages enqueued so far
  consumed,        \* messages the shell processed
  bounced          \* messages dropped, a request with an error response

mboxVars == <<state, mailbox, consumed, bounced>>
ownerVars == <<owner, owner_mtx>>
respVars == <<responses, outcome>>
mpxVars == <<polled, pipe, shutting_down>>
lifeVars == <<held, refs, life>>
vars == <<mboxVars, ownerVars, respVars, abort_reason, mpxVars, lifeVars, pc, sent>>

Threads == Senders \cup {Loop}
Ops == {"read", "write"}
Messages == [kind : {"async"}, id : Async] \cup [kind : {"request"}, id : Requests]
            \cup [kind : {"answer", "timeout"}, id : Calls]

TypeOK ==
  /\ state \in {"open", "blocked", "closed"}
  /\ mailbox \in Seq(Messages) /\ (state # "open" => mailbox = <<>>)
  /\ owner \in BOOLEAN /\ owner_mtx \in Threads \cup {Nobody}
  /\ responses \subseteq Calls
  /\ outcome \in [Calls -> Seq({"answer", "timeout"})]
  /\ abort_reason \in BOOLEAN
  /\ polled \subseteq Ops /\ pipe \in Nat /\ shutting_down \in BOOLEAN
  /\ held \in BOOLEAN /\ refs \in Nat
  /\ life \in {"alive", "dying", "freed"}
  /\ pc \in [Threads -> {"idle", "lock", "register", "unref", "prepare",
                         "close", "detach"}]
  /\ sent \subseteq Messages /\ consumed \subseteq Messages
  /\ bounced \subseteq Messages

(* After init(): the manager reads, the constructor blocked the mailbox. *)
Init ==
  /\ state = "blocked" /\ mailbox = <<>> /\ consumed = {} /\ bounced = {}
  /\ owner = TRUE /\ owner_mtx = Nobody
  /\ responses = {} /\ outcome = [c \in Calls |-> <<>>]
  /\ abort_reason = FALSE
  /\ polled = {"read"} /\ pipe = 0 /\ shutting_down = FALSE
  /\ held = Guarded /\ refs = (IF Guarded THEN 2 ELSE 1) /\ life = "alive"
  /\ pc = [t \in Threads |-> "idle"]
  /\ sent = {}

-----------------------------------------------------------------------------
(* Thread t drops references until n remain and goes on at `next'.  Who    *)
(* drops the last one runs the destructor of the manager, and with it that *)
(* of the actor_shell_ptr of the application, which calls quit().          *)
Deref(t, n, next) ==
  /\ refs' = n
  /\ life' = IF n = 0 THEN "dying" ELSE life
  /\ pc' = [pc EXCEPT ![t] = IF n = 0 THEN "close" ELSE next]

(* References that managers_ holds if the manager is polled for ops. *)
Held(ops) == IF ops = {} THEN 0 ELSE 1

(* The loop polls the manager for ops from now on. *)
PollFor(ops) ==
  /\ polled' = ops
  /\ Deref(Loop, refs + Held(ops) - Held(polled), "idle")

(* multiplexer::register_writing in the multiplexer's thread. *)
Registered == IF shutting_down THEN polled ELSE polled \cup {"write"}

-----------------------------------------------------------------------------
(* enqueue *)

(* A message that may arrive now: an answer or a timeout follows its call. *)
Sendable(m) ==
  /\ m \notin sent
  /\ m.kind \in {"answer", "timeout"} => m.id \in responses \/ outcome[m.id] # <<>>

(* Mutant: the enqueue that finds the mailbox blocked wakes nobody. *)
EnqueueOnly(t, m) ==
  /\ pc[t] = "idle" /\ Sendable(m) /\ (Guarded => held)
  /\ sent' = sent \cup {m}
  /\ IF state = "closed"
     THEN bounced' = bounced \cup {m} /\ UNCHANGED <<state, mailbox>>
     ELSE state' = "open" /\ mailbox' = Append(mailbox, m) /\ UNCHANGED bounced
  /\ UNCHANGED <<consumed, pc, ownerVars, respVars, abort_reason, mpxVars, lifeVars>>

(* mailbox().push_back and what follows its result. *)
Enqueue(t, m) ==
  /\ pc[t] = "idle" /\ Sendable(m) /\ (Guarded => held)
  /\ sent' = sent \cup {m}
  /\ IF state = "closed"
     THEN bounced' = bounced \cup {m} /\ UNCHANGED <<state, mailbox>>
     ELSE state' = "open" /\ mailbox' = Append(mailbox, m) /\ UNCHANGED bounced
  /\ pc' = IF state = "blocked" THEN [pc EXCEPT ![t] = "lock"] ELSE pc
  /\ UNCHANGED <<consumed, ownerVars, respVars, abort_reason, mpxVars, lifeVars>>

(* Lock owner_mtx_.  The argument of register_writing is a temporary       *)
(* intrusive_ptr, made from the plain pointer owner_.                      *)
LockOwner(t) ==
  /\ pc[t] = "lock" /\ owner_mtx = Nobody
  /\ IF owner
     THEN owner_mtx' = t /\ refs' = refs + 1 /\ pc' = [pc EXCEPT ![t] = "register"]
     ELSE pc' = [pc EXCEPT ![t] = "idle"] /\ UNCHANGED <<owner_mtx, refs>>
  /\ UNCHANGED <<owner, mboxVars, respVars, abort_reason, mpxVars, held, life, sent>>

(* Mutant: the message in the pipe carries no reference. *)
RegisterUncounted(t) ==
  /\ pc[t] = "register"
  /\ pc' = [pc EXCEPT ![t] = "unref"]
  /\ IF t = Loop
     THEN polled' = Registered /\ refs' = refs + Held(Registered) - Held(polled)
          /\ UNCHANGED pipe
     ELSE pipe' = (IF shutting_down THEN pipe ELSE pipe + 1) /\ UNCHANGED <<refs, polled>>
  /\ UNCHANGED <<shutting_down, held, life, mboxVars, ownerVars, respVars,
                 abort_reason, sent>>

(* register_writing: through the pipe, whose message carries a reference,  *)
(* or at once in the multiplexer's thread.                                 *)
RegisterWriting(t) ==
  /\ pc[t] = "register"
  /\ pc' = [pc EXCEPT ![t] = "unref"]
  /\ IF t = Loop
     THEN /\ polled' = Registered
          /\ refs' = refs + Held(Registered) - Held(polled)
          /\ UNCHANGED pipe
     ELSE /\ pipe' = IF shutting_down THEN pipe ELSE pipe + 1
          /\ refs' = IF shutting_down THEN refs ELSE refs + 1
          /\ UNCHANGED polled
  /\ UNCHANGED <<shutting_down, held, life, mboxVars, ownerVars, respVars,
                 abort_reason, sent>>

(* The temporary goes, then the guard unlocks owner_mtx_. *)
Unref(t) ==
  /\ pc[t] = "unref"
  /\ Deref(t, refs - 1, "idle")
  /\ owner_mtx' = IF refs = 1 THEN owner_mtx ELSE Nobody
  /\ UNCHANGED <<held, owner, mboxVars, respVars, abort_reason, mpxVars, sent>>

-----------------------------------------------------------------------------
(* cleanup(), called by quit().  The thread that ran the destructor frees  *)
(* the manager afterwards.                                                 *)

(* Mutant: the messages of the mailbox are deleted without a response. *)
CloseSilently(t) ==
  /\ pc[t] = "close"
  /\ state' = "closed" /\ mailbox' = <<>>
  /\ pc' = [pc EXCEPT ![t] = "detach"]
  /\ UNCHANGED <<bounced, consumed, ownerVars, respVars, abort_reason, mpxVars,
                 lifeVars, sent>>

(* Mutant: the messages stay in the closed mailbox. *)
CloseKeeps(t) ==
  /\ pc[t] = "close"
  /\ state' = "closed"
  /\ pc' = [pc EXCEPT ![t] = "detach"]
  /\ UNCHANGED <<mailbox, bounced, consumed, ownerVars, respVars, abort_reason,
                 mpxVars, lifeVars, sent>>

CloseMailbox(t) ==
  /\ pc[t] = "close"
  /\ state' = "closed" /\ mailbox' = <<>>
  /\ bounced' = bounced \cup ToSet(mailbox)
  /\ pc' = [pc EXCEPT ![t] = "detach"]
  /\ UNCHANGED <<consumed, ownerVars, respVars, abort_reason, mpxVars, lifeVars, sent>>

DetachOwner(t) ==
  /\ pc[t] = "detach" /\ owner_mtx = Nobody
  /\ owner' = FALSE
  /\ life' = IF life = "dying" THEN "freed" ELSE life
  /\ pc' = [pc EXCEPT ![t] = "idle"]
  /\ UNCHANGED <<owner_mtx, mboxVars, respVars, abort_reason, mpxVars, held,
                 refs, sent>>

-----------------------------------------------------------------------------
(* The multiplexer's thread *)

InLoop == pc[Loop] = "idle" /\ life = "alive"

(* The updater reads a register_writing message and drops its reference. *)
TakeRegister ==
  /\ InLoop /\ pipe > 0
  /\ pipe' = pipe - 1
  /\ polled' = Registered
  /\ Deref(Loop, refs - 1 + Held(Registered) - Held(polled), "idle")
  /\ UNCHANGED <<shutting_down, held, mboxVars, ownerVars, respVars,
                 abort_reason, sent>>

(* handle_read_event: the application sends a request in the name of its   *)
(* shell (add_multiplexed_response_handler) ...                            *)
Request(c) ==
  /\ InLoop /\ "read" \in polled /\ state # "closed"
  /\ c \notin responses /\ outcome[c] = <<>>
  /\ responses' = responses \cup {c}
  /\ UNCHANGED <<outcome, mboxVars, ownerVars, abort_reason, mpxVars, lifeVars,
                 pc, sent>>

(* ... or asks to stop reading, with or without an error. *)
ReadStops(fails) ==
  /\ InLoop /\ "read" \in polled
  /\ PollFor(polled \ {"read"})
  /\ abort_reason' = (abort_reason \/ fails)
  /\ UNCHANGED <<pipe, shutting_down, held, mboxVars, ownerVars, respVars, sent>>

(* The socket fails: handle_error. *)
SocketFails ==
  /\ InLoop /\ polled # {}
  /\ PollFor({})
  /\ abort_reason' = TRUE
  /\ UNCHANGED <<pipe, shutting_down, held, mboxVars, ownerVars, respVars, sent>>

(* handle_write_event: prepare_send consumes messages, ... *)
WriteEvent ==
  /\ InLoop /\ "write" \in polled
  /\ pc' = [pc EXCEPT ![Loop] = "prepare"]
  /\ UNCHANGED <<mboxVars, ownerVars, respVars, abort_reason, mpxVars, lifeVars, sent>>

(* Runs the handler for m: a response handler runs once and leaves the map *)
(* first, a response without one is ignored.                               *)
Process(m) ==
  IF m.kind \in {"answer", "timeout"} /\ m.id \in responses
  THEN /\ responses' = responses \ {m.id}
       /\ outcome' = [outcome EXCEPT ![m.id] = Append(@, m.kind)]
  ELSE UNCHANGED respVars

(* ... one consume_message() at a time; handlers may set the abort reason, *)
(* with which prepare_send and the write event fail, ...                   *)
ConsumeMessage(fails) ==
  /\ pc[Loop] = "prepare" /\ mailbox # <<>>
  /\ mailbox' = Tail(mailbox)
  /\ consumed' = consumed \cup {Head(mailbox)}
  /\ Process(Head(mailbox))
  /\ abort_reason' = (abort_reason \/ fails)
  /\ IF abort_reason'
     THEN PollFor(polled \ {"write"})
     ELSE UNCHANGED <<polled, refs, life, pc>>
  /\ UNCHANGED <<state, bounced, ownerVars, pipe, shutting_down, held, sent>>

(* ... until the write buffer is full or no message is left.  Then write() *)
(* leaves some bytes for the next write event, ...                         *)
WriteMore ==
  /\ pc[Loop] = "prepare"
  /\ pc' = [pc EXCEPT ![Loop] = "idle"]
  /\ UNCHANGED <<mboxVars, ownerVars, respVars, abort_reason, mpxVars, lifeVars, sent>>

(* ... or fails, ... *)
WriteFails ==
  /\ pc[Loop] = "prepare"
  /\ PollFor(polled \ {"write"})
  /\ abort_reason' = TRUE
  /\ UNCHANGED <<pipe, shutting_down, held, mboxVars, ownerVars, respVars, sent>>

(* Mutant: done_sending does not look at the mailbox again. *)
DoneUnchecked ==
  /\ pc[Loop] = "prepare"
  /\ state' = IF state = "open" /\ mailbox = <<>> THEN "blocked" ELSE state
  /\ PollFor(polled \ {"write"})
  /\ UNCHANGED <<mailbox, consumed, bounced, pipe, shutting_down, held, ownerVars,
                 respVars, abort_reason, sent>>

(* ... or writes all: done_sending stops the write events if it can block  *)
(* the mailbox (try_block_mailbox).  An application that detached its shell*)
(* has no mailbox to look at and is done.                                  *)
DoneSending ==
  /\ pc[Loop] = "prepare"
  /\ IF mailbox = <<>>
     THEN /\ state' = IF state = "open" THEN "blocked" ELSE state
          /\ PollFor(polled \ {"write"})
     ELSE /\ pc' = [pc EXCEPT ![Loop] = "idle"]
          /\ UNCHANGED <<state, polled, refs, life>>
  /\ UNCHANGED <<mailbox, consumed, bounced, pipe, shutting_down, held, ownerVars,
                 respVars, abort_reason, sent>>

(* The application detaches its shell: quit(). *)
Detach ==
  /\ InLoop /\ polled # {} /\ state # "closed"
  /\ pc' = [pc EXCEPT ![Loop] = "close"]
  /\ UNCHANGED <<mboxVars, ownerVars, respVars, abort_reason, mpxVars, lifeVars, sent>>

(* multiplexer::shutdown: closes the pipe, no manager reads any longer. *)
Shutdown ==
  /\ InLoop /\ ~shutting_down
  /\ shutting_down' = TRUE
  /\ PollFor(polled \ {"read"})
  /\ UNCHANGED <<pipe, held, mboxVars, ownerVars, respVars, abort_reason, sent>>

(* The owner of the manager lets go when the threads are done sending. *)
Release ==
  /\ held /\ \A t \in Threads : pc[t] = "idle"
  /\ held' = FALSE
  /\ Deref(Loop, refs - 1, "idle")
  /\ UNCHANGED <<mboxVars, ownerVars, respVars, abort_reason, mpxVars, sent>>

-----------------------------------------------------------------------------
Handlers ==
  \/ \E fails \in BOOLEAN : ReadStops(fails) \/ ConsumeMessage(fails)
  \/ \E c \in Calls : Request(c)
  \/ SocketFails \/ WriteEvent \/ WriteMore \/ WriteFails \/ DoneSending \/ Detach

Continue(t) ==
  \/ LockOwner(t) \/ RegisterWriting(t) \/ Unref(t)
  \/ CloseMailbox(t) \/ DetachOwner(t)

(* Every thread is between two calls. *)
Waiting == (\A t \in Threads : pc[t] = "idle") /\ UNCHANGED vars

Next ==
  \/ \E t \in Threads : (\E m \in Messages : Enqueue(t, m)) \/ Continue(t)
  \/ Handlers \/ TakeRegister \/ Shutdown \/ Release \/ Waiting

(* All threads run on, a socket that is polled for writing is writable     *)
(* again and again, an event handler ends, the write buffer drains if the  *)
(* peer reads, and the owner does not keep its manager forever.            *)
Fairness ==
  /\ \A t \in Threads : WF_vars(Continue(t))
  /\ WF_vars(TakeRegister) /\ WF_vars(Release)
  /\ SF_vars(WriteEvent)
  /\ SF_vars(\E fails \in BOOLEAN : ConsumeMessage(fails))
  /\ SF_vars(mailbox = <<>> /\ DoneSending)

Spec == Init /\ [][Next]_vars /\ Fairness

-----------------------------------------------------------------------------
(* No lost wake-up.  While messages wait in the mailbox of a working       *)
(* manager, the manager is polled for writing or some thread is about to   *)
(* see to that: every enqueue but the first relies on it.                  *)
NoLostWakeup ==
  mailbox # <<>> /\ ~shutting_down /\ ~abort_reason =>
    \/ "write" \in polled \/ pipe > 0
    \/ \E t \in Threads : pc[t] \in {"lock", "register", "close"}

(* Every reference to the manager is accounted for; nobody touches the     *)
(* manager once its destructor runs.                                       *)
NeverDangling ==
  /\ refs = Held(polled) + pipe + (IF held THEN 1 ELSE 0)
            + Cardinality({t \in Threads : pc[t] \in {"register", "unref"}})
  /\ life # "alive" => refs = 0

(* owner_ "Points to the owning manager (nullptr after quit was called)"    *)
(* (abstract_actor_shell.hpp): a thread that found it non-null works with  *)
(* a manager that exists.                                                  *)
OwnerExists == \A t \in Threads : pc[t] \in {"register", "unref"} => life = "alive"

(* Messages are neither lost nor handled twice: an enqueued message is in  *)
(* exactly one place, and none stays in the mailbox of a freed manager.  A *)
(* response handler runs once, although the answer and the timeout of a    *)
(* request may both arrive, in any order.                                  *)
Accounted ==
  /\ sent = consumed \cup bounced \cup ToSet(mailbox)
  /\ Cardinality(sent) = Cardinality(consumed) + Cardinality(bounced) + Len(mailbox)
  /\ life = "freed" => mailbox = <<>>
  /\ \A c \in Calls : Len(outcome[c]) <= 1

(* Every message is eventually processed or bounced, a request thus        *)
(* answered.  The exception is a manager that aborted in a write event: it *)
(* stops writing but reads on until its peer closes the connection, and    *)
(* its mailbox waits with it.                                              *)
MessagesSettle ==
  \A m \in Messages :
    m \in sent ~> m \in consumed \cup bounced
                   \/ (abort_reason /\ life = "alive" /\ "read" \in polled)
=============================================================================
