----------------------------- MODULE Multiplexer -----------------------------
(***************************************************************************)
(* caf::net::multiplexer with its pollset_updater and the registration     *)
(* state of its socket managers.                                           *)
(*                                                                         *)
(* One thread runs poll() and calls the handlers of the managers that have *)
(* events.  Any other thread reaches it through a pipe: it takes a         *)
(* reference to the manager, writes an opcode and a pointer under          *)
(* write_lock_, and the pollset_updater, the first entry of the pollset,   *)
(* reads the pipe in the multiplexer's thread.                             *)
(*                                                                         *)
(* pollset_ and managers_ change at the same positions only and are one    *)
(* sequence of entries here.  What the handlers of a manager do is left    *)
(* open: they may register operations and ask to stay or not to.           *)
(***************************************************************************)
EXTENDS Naturals, SequencesExt, FiniteSets

CONSTANTS
  Managers,        \* socket managers other than the pollset updater
  Updater,         \* the pollset_updater
  Clients,         \* threads other than the multiplexer's
  Nobody,          \* nobody holds write_lock_; no manager (nullptr)
  PipeCapacity,    \* messages that fit into the pipe's buffer
  MaxCalls         \* bound on the calls that clients make

ASSUME MpxAssumption ==
  /\ Updater \notin Managers /\ Nobody \notin Managers \cup {Updater} \cup Clients
  /\ PipeCapacity \in Nat \ {0} /\ MaxCalls \in Nat

VARIABLES
  pollset,         \* pollset_ and managers_
  mask,            \* socket_manager::mask_
  shutting_down,   \* multiplexer::shutting_down_
  pipe,            \* unread messages
  write_handle,    \* is write_handle_ a valid socket?
  write_lock,      \* who holds write_lock_
  mpx,             \* where the multiplexer's thread is
  client,          \* where the other threads are
  calls,           \* calls that clients made
  owned,           \* managers that some owner outside the loop refers to
  refs,            \* reference counts of the managers
  torn             \* history: managers that registered operations in an event
                   \* in which they also asked to stop

pollVars == <<pollset, mask, shutting_down>>
pipeVars == <<pipe, write_handle, write_lock>>
vars == <<pollVars, pipeVars, mpx, client, calls, owned, refs, torn>>

Ops == {"read", "write"}
All == Managers \cup {Updater}
Opcodes == {"register_reading", "register_writing", "init_manager", "shutdown"}
Entry == [mgr : All, events : SUBSET Ops, revents : (SUBSET Ops) \cup {{"error"}}]
Msg == [op : Opcodes, mgr : Managers \cup {Nobody}]

TypeOK ==
  /\ pollset \in Seq(Entry)
  /\ mask \in [All -> SUBSET Ops]
  /\ shutting_down \in BOOLEAN
  /\ pipe \in Seq(Msg)
  /\ write_handle \in BOOLEAN
  /\ write_lock \in Clients \cup {Nobody}
  /\ mpx \in [at : {"run", "scan", "updater", "shutdown", "close", "done"},
              i : Nat, presult : Nat, j : Nat]
  /\ client \in [Clients -> [at : {"idle", "lock", "write"}, msg : Msg]]
  /\ calls \in 0 .. MaxCalls
  /\ owned \subseteq Managers
  /\ refs \in [Managers -> Nat]
  /\ torn \subseteq Managers

NoMsg == [op |-> "shutdown", mgr |-> Nobody]

(* multiplexer::init(): the pipe exists, the updater is in the pollset. *)
Init ==
  /\ pollset = <<[mgr |-> Updater, events |-> {"read"}, revents |-> {}]>>
  /\ mask = [m \in All |-> IF m = Updater THEN {"read"} ELSE {}]
  /\ shutting_down = FALSE
  /\ pipe = <<>>
  /\ write_handle = TRUE /\ write_lock = Nobody
  /\ mpx = [at |-> "run", i |-> 1, presult |-> 0, j |-> 0]
  /\ client = [c \in Clients |-> [at |-> "idle", msg |-> NoMsg]]
  /\ calls = 0
  /\ owned = Managers
  /\ refs = [m \in Managers |-> 1]
  /\ torn = {}

-----------------------------------------------------------------------------
(* Registration in the multiplexer's thread.  These operators map a pair   *)
(* of pollset and masks, as a record, to the pair after the call.          *)

Registry == [pollset |-> pollset, mask |-> mask]

Positions(r, m) == {k \in DOMAIN r.pollset : r.pollset[k].mgr = m}

add(r, m) ==
  [r EXCEPT !.pollset = Append(@, [mgr |-> m, events |-> r.mask[m], revents |-> {}])]

(* fd.events |= input_mask or output_mask, at index_of(m). *)
Widen(p, m, op) ==
  [k \in DOMAIN p |-> IF p[k].mgr = m THEN [p[k] EXCEPT !.events = @ \cup {op}] ELSE p[k]]

(* Mutant: shutting_down_ is not checked. *)
register_late(r, m, op) ==
  LET s == [r EXCEPT !.mask[m] = @ \cup {op}]
  IN  IF op \in r.mask[m] \/ (r.mask[m] # {} /\ Positions(r, m) = {}) THEN r
      ELSE IF r.mask[m] = {} THEN add(s, m)
      ELSE [s EXCEPT !.pollset = Widen(@, m, op)]

(* register_reading and register_writing. *)
register(r, m, op) ==
  LET s == [r EXCEPT !.mask[m] = @ \cup {op}]
  IN  IF shutting_down \/ op \in r.mask[m] THEN r
      ELSE IF r.mask[m] = {} THEN add(s, m)
      ELSE IF Positions(r, m) = {} THEN r
      ELSE [s EXCEPT !.pollset = Widen(@, m, op)]

(* The calls that a handler of m makes, in either order. *)
RegisterAll(r, m, ops) ==
  LET s == IF "read" \in ops THEN register(r, m, "read") ELSE r
  IN  IF "write" \in ops THEN register(s, m, "write") ELSE s

mask_del(r, m, ops) == [r EXCEPT !.mask[m] = @ \ ops]

del(r, k) == [r EXCEPT !.pollset = RemoveAt(@, k)]

(* How many references to m the pollset holds. *)
Held(p, m) == Cardinality({k \in DOMAIN p : p[k].mgr = m})

(* Installs r; managers_ holds a reference to each of its entries. *)
Install(r) == pollset' = r.pollset /\ mask' = r.mask

RefsAfter(r) == [m \in Managers |-> refs[m] + Held(r.pollset, m) - Held(pollset, m)]

-----------------------------------------------------------------------------
(* poll_once: poll() *)

(* What poll() may report for an entry.  handle() looks at error bits only *)
(* if no other bit is set, so {"error"} stands for those results alone.    *)
(* The pipe is readable if it holds messages and hung up once its write    *)
(* end is closed and it is drained.                                        *)
Readiness(e) ==
  IF e.mgr = Updater
  THEN {IF pipe # <<>> THEN {"read"} ELSE IF write_handle THEN {} ELSE {"error"}}
  ELSE (SUBSET e.events) \cup {{"error"}}

Poll ==
  /\ mpx.at = "run" /\ pollset # <<>>
  /\ \E rv \in [DOMAIN pollset -> (SUBSET Ops) \cup {{"error"}}] :
       /\ \A k \in DOMAIN pollset : rv[k] \in Readiness(pollset[k])
       /\ \E k \in DOMAIN pollset : rv[k] # {}
       /\ pollset' = [k \in DOMAIN pollset |-> [pollset[k] EXCEPT !.revents = rv[k]]]
       /\ mpx' = [at |-> "scan", i |-> 1, j |-> 0,
                  presult |-> Cardinality({k \in DOMAIN pollset : rv[k] # {}})]
  /\ UNCHANGED <<mask, shutting_down, pipeVars, client, calls, owned, refs, torn>>

(* run(): leave the loop when no socket event handler remains. *)
RunEnds ==
  /\ mpx.at = "run" /\ pollset = <<>>
  /\ mpx' = [mpx EXCEPT !.at = "done"]
  /\ UNCHANGED <<pollVars, pipeVars, client, calls, owned, refs, torn>>

(* The for-loop over the pollset: its condition fails.  The next call of   *)
(* poll() overwrites all revents, so they are cleared here.                *)
ScanEnds ==
  /\ mpx.at = "scan"
  /\ mpx.i > Len(pollset) \/ mpx.presult = 0
  /\ pollset' = [k \in DOMAIN pollset |-> [pollset[k] EXCEPT !.revents = {}]]
  /\ mpx' = [at |-> "run", i |-> 1, presult |-> 0, j |-> 0]
  /\ UNCHANGED <<mask, shutting_down, pipeVars, client, calls, owned, refs, torn>>

Scanning == mpx.at = "scan" /\ mpx.i <= Len(pollset) /\ mpx.presult > 0

ScanSkips ==
  /\ Scanning /\ pollset[mpx.i].revents = {}
  /\ mpx' = [mpx EXCEPT !.i = @ + 1]
  /\ UNCHANGED <<pollVars, pipeVars, client, calls, owned, refs, torn>>

-----------------------------------------------------------------------------
(* poll_once: what happens after handle() returned new_events for entry i  *)
(* whose events were `events' before the call.                             *)

(* Mutant: the result is compared with the current events of the entry. *)
ApplyEventsAlways(r, i, events, new_events) ==
  [r EXCEPT !.pollset[i].events = new_events]

ApplyEvents(r, i, events, new_events) ==
  IF new_events = {} THEN del(r, i)
  ELSE IF new_events # events THEN [r EXCEPT !.pollset[i].events = new_events]
  ELSE r

NextIndex(new_events) ==
  mpx' = [at |-> "scan", presult |-> mpx.presult - 1, j |-> 0,
          i |-> IF new_events = {} THEN mpx.i ELSE mpx.i + 1]

(* One outcome of a handler: the operations it registers and its result. *)
Outcome == [ops : SUBSET Ops, stay : BOOLEAN]

(* handle(): the branch for one operation. *)
Dispatch(r, m, op, revents, o) ==
  IF op \notin revents THEN r
  ELSE LET s == RegisterAll(r, m, o.ops)
       IN  IF o.stay THEN s ELSE mask_del(s, m, {op})

(* handle() for a manager whose socket is ready, with the outcomes `rd' of *)
(* handle_read_event and `wr' of handle_write_event.                       *)
HandleReady(m, rd, wr) ==
  LET i == mpx.i
      events == pollset[i].events
      revents == pollset[i].revents
      stopped == {op \in revents : ~(IF op = "read" THEN rd ELSE wr).stay}
      r == Dispatch(Dispatch(Registry, m, "read", revents, rd),
                    m, "write", revents, wr)
      new_events == events \ stopped
      s == ApplyEvents(r, i, events, new_events)
  IN  /\ "read" \notin revents => rd = [ops |-> {}, stay |-> TRUE]
      /\ "write" \notin revents => wr = [ops |-> {}, stay |-> TRUE]
      /\ torn' = IF stopped # {} /\ rd.ops \cup wr.ops # {} THEN torn \cup {m} ELSE torn
      /\ Install(s)
      /\ refs' = RefsAfter(s)
      /\ NextIndex(new_events)

Handle(m) ==
  /\ Scanning /\ pollset[mpx.i].mgr = m
  /\ pollset[mpx.i].revents \cap Ops # {}
  /\ \E rd, wr \in Outcome : HandleReady(m, rd, wr)
  /\ UNCHANGED <<shutting_down, pipeVars, client, calls, owned>>

(* handle(): the branch for errors. *)
HandleError(m) ==
  /\ Scanning /\ pollset[mpx.i].mgr = m
  /\ pollset[mpx.i].revents = {"error"}
  /\ LET r == del(mask_del(Registry, m, Ops), mpx.i)
     IN  Install(r) /\ refs' = RefsAfter(r)
  /\ NextIndex({})
  /\ UNCHANGED <<shutting_down, pipeVars, client, calls, owned, torn>>

-----------------------------------------------------------------------------
(* pollset_updater::handle_read_event *)

UpdaterStarts ==
  /\ Scanning /\ pollset[mpx.i].mgr = Updater
  /\ pollset[mpx.i].revents = {"read"}
  /\ mpx' = [mpx EXCEPT !.at = "updater"]
  /\ UNCHANGED <<pollVars, pipeVars, client, calls, owned, refs, torn>>

(* read() takes one message, all of its bytes: write() of so few is atomic. *)
TakeMsg ==
  /\ mpx.at = "updater" /\ pipe # <<>>
  /\ pipe' = Tail(pipe)
  /\ UNCHANGED <<write_handle, write_lock>>

(* Mutant: the updater drops the reference of the message twice. *)
AdoptTwice(r, m) == refs' = [RefsAfter(r) EXCEPT ![m] = @ - 2]

(* The updater takes over the reference that the client added and drops it *)
(* after the call.                                                         *)
Adopt(r, m) == refs' = [RefsAfter(r) EXCEPT ![m] = @ - 1]

UpdateRegister(op) ==
  /\ TakeMsg
  /\ Head(pipe).op = (IF op = "read" THEN "register_reading" ELSE "register_writing")
  /\ LET m == Head(pipe).mgr
         r == register(Registry, m, op)
     IN  Install(r) /\ Adopt(r, m)
  /\ UNCHANGED <<shutting_down, mpx, client, calls, owned, torn>>

(* multiplexer::init(mgr): the manager registers what it needs, or nothing *)
(* if its initialization fails.                                            *)
UpdateInit ==
  /\ TakeMsg /\ Head(pipe).op = "init_manager"
  /\ LET m == Head(pipe).mgr
     IN  \E ops \in SUBSET Ops :
           /\ shutting_down => ops = {}
           /\ LET r == RegisterAll(Registry, m, ops) IN Install(r) /\ Adopt(r, m)
  /\ UNCHANGED <<shutting_down, mpx, client, calls, owned, torn>>

(* shutdown() in the multiplexer's thread. *)
UpdateShutdown ==
  /\ TakeMsg /\ Head(pipe).op = "shutdown"
  /\ shutting_down' = TRUE
  /\ mpx' = [mpx EXCEPT !.at = "shutdown", !.j = 2]
  /\ UNCHANGED <<pollset, mask, client, calls, owned, refs, torn>>

(* A manager stops reading. *)
NoReading(m, k) ==
  IF "read" \in mask[m]
  THEN [mask_del(Registry, m, {"read"}) EXCEPT !.pollset[k].events = @ \ {"read"}]
  ELSE Registry

(* Mutant: managers with nothing to write keep their entries. *)
ShutdownKeeps ==
  /\ mpx.at = "shutdown" /\ mpx.j <= Len(pollset)
  /\ Install(NoReading(pollset[mpx.j].mgr, mpx.j))
  /\ mpx' = [mpx EXCEPT !.j = @ + 1]
  /\ UNCHANGED <<shutting_down, pipeVars, client, calls, owned, refs, torn>>

(* One iteration of its loop, which leaves out the updater: no manager     *)
(* reads any longer, one with nothing to write goes.                       *)
ShutdownStep ==
  /\ mpx.at = "shutdown" /\ mpx.j <= Len(pollset)
  /\ LET m == pollset[mpx.j].mgr
         r == NoReading(m, mpx.j)
         goes == r.mask[m] = {}
         s == IF goes THEN del(r, mpx.j) ELSE r
     IN  /\ Install(s) /\ refs' = RefsAfter(s)
         /\ mpx' = [mpx EXCEPT !.j = IF goes THEN @ ELSE @ + 1]
  /\ UNCHANGED <<shutting_down, pipeVars, client, calls, owned, torn>>

ShutdownEnds ==
  /\ mpx.at = "shutdown" /\ mpx.j > Len(pollset)
  /\ mpx' = [mpx EXCEPT !.at = "close", !.j = 0]
  /\ UNCHANGED <<pollVars, pipeVars, client, calls, owned, refs, torn>>

(* close_pipe(): waits for write_lock_. *)
ClosePipe ==
  /\ mpx.at = "close" /\ write_lock = Nobody
  /\ write_handle' = FALSE
  /\ mpx' = [mpx EXCEPT !.at = "updater"]
  /\ UNCHANGED <<pollVars, pipe, write_lock, client, calls, owned, refs, torn>>

(* The pipe is empty: read() would block, or it reports the end of the     *)
(* pipe and the updater asks to be removed.                                *)
UpdaterEnds ==
  /\ mpx.at = "updater" /\ pipe = <<>>
  /\ LET events == pollset[mpx.i].events
         new_events == IF write_handle THEN events ELSE events \ {"read"}
         r == IF write_handle THEN Registry ELSE mask_del(Registry, Updater, {"read"})
         s == ApplyEvents(r, mpx.i, events, new_events)
     IN  /\ Install(s)
         /\ refs' = RefsAfter(s)
         /\ NextIndex(new_events)
  /\ UNCHANGED <<shutting_down, pipeVars, client, calls, owned, torn>>

MpxThread ==
  \/ Poll \/ RunEnds \/ ScanEnds \/ ScanSkips
  \/ \E m \in Managers : Handle(m)
  \/ \E m \in All : HandleError(m)
  \/ UpdaterStarts
  \/ \E op \in Ops : UpdateRegister(op)
  \/ UpdateInit \/ UpdateShutdown \/ ShutdownStep \/ ShutdownEnds \/ ClosePipe
  \/ UpdaterEnds

-----------------------------------------------------------------------------
(* Other threads: register_reading, register_writing, init and shutdown    *)
(* end up in write_to_pipe.                                                *)

Call(c, op, m) ==
  /\ client[c].at = "idle" /\ calls < MaxCalls
  /\ IF op = "shutdown" THEN m = Nobody ELSE m \in owned
  /\ calls' = calls + 1
  /\ client' = [client EXCEPT ![c] = [at |-> "lock", msg |-> [op |-> op, mgr |-> m]]]
  /\ refs' = IF m = Nobody THEN refs ELSE [refs EXCEPT ![m] = @ + 1]
  /\ UNCHANGED <<pollVars, pipeVars, mpx, owned, torn>>

(* Mutant: the reference is not returned if the pipe is closed. *)
LockLeaks(c) ==
  /\ client[c].at = "lock" /\ write_lock = Nobody
  /\ IF write_handle
     THEN /\ write_lock' = c
          /\ client' = [client EXCEPT ![c].at = "write"]
     ELSE /\ UNCHANGED write_lock
          /\ client' = [client EXCEPT ![c] = [at |-> "idle", msg |-> NoMsg]]
  /\ UNCHANGED <<pollVars, pipe, write_handle, mpx, calls, owned, refs, torn>>

(* Take write_lock_ and look at write_handle_; if the pipe is closed give  *)
(* the reference back.                                                     *)
Lock(c) ==
  /\ client[c].at = "lock" /\ write_lock = Nobody
  /\ LET m == client[c].msg.mgr
     IN  IF write_handle
         THEN /\ write_lock' = c
              /\ client' = [client EXCEPT ![c].at = "write"]
              /\ UNCHANGED refs
         ELSE /\ UNCHANGED write_lock
              /\ client' = [client EXCEPT ![c] = [at |-> "idle", msg |-> NoMsg]]
              /\ refs' = IF m = Nobody THEN refs ELSE [refs EXCEPT ![m] = @ - 1]
  /\ UNCHANGED <<pollVars, pipe, write_handle, mpx, calls, owned, torn>>

(* write() blocks while the pipe is full: make_pipe() leaves the write end *)
(* in blocking mode and write_lock_ stays locked meanwhile.                *)
Write(c) ==
  /\ client[c].at = "write"
  /\ Len(pipe) < PipeCapacity
  /\ pipe' = Append(pipe, client[c].msg)
  /\ write_lock' = Nobody
  /\ client' = [client EXCEPT ![c] = [at |-> "idle", msg |-> NoMsg]]
  /\ UNCHANGED <<pollVars, write_handle, mpx, calls, owned, refs, torn>>

(* The owner of a manager drops its reference. *)
Release(m) ==
  /\ m \in owned
  /\ owned' = owned \ {m}
  /\ refs' = [refs EXCEPT ![m] = @ - 1]
  /\ UNCHANGED <<pollVars, pipeVars, mpx, client, calls, torn>>

Client(c) ==
  \/ \E op \in Opcodes, m \in Managers \cup {Nobody} : Call(c, op, m)
  \/ Lock(c) \/ Write(c)

(* Nothing to do: no client is in a call and the multiplexer's thread has  *)
(* left run() or is blocked in poll().                                     *)
Waiting ==
  /\ \A c \in Clients : client[c].at = "idle"
  /\ \/ mpx.at = "done"
     \/ mpx.at = "run" /\ \A k \in DOMAIN pollset : Readiness(pollset[k]) = {{}}
  /\ UNCHANGED vars

Next ==
  \/ MpxThread
  \/ \E c \in Clients : Client(c)
  \/ \E m \in Managers : Release(m)
  \/ Waiting

PipeReady ==
  \E k \in DOMAIN pollset : pollset[k].mgr = Updater /\ Readiness(pollset[k]) # {{}}

(* All threads keep running, and poll() reports a pipe that has messages.  *)
(* No socket has to become ready and nobody has to call anything.          *)
Fairness ==
  /\ WF_vars(MpxThread /\ (mpx.at = "run" => pollset = <<>> \/ PipeReady))
  /\ \A c \in Clients : WF_vars(Lock(c) \/ Write(c))

Spec == Init /\ [][Next]_vars /\ Fairness

(* Moreover, the peers keep reading and the applications have only so much *)
(* to send: a socket that is polled for writing becomes writable, and its  *)
(* handle_write_event eventually has nothing left to write.                *)
Reports(m) ==
  /\ Poll
  /\ \E k \in DOMAIN pollset : pollset[k].mgr = m /\ "write" \in pollset'[k].revents

Flushes(m) == Handle(m) /\ "write" \notin mask'[m]

FlushingSpec ==
  Spec /\ \A m \in Managers : SF_vars(Reports(m)) /\ SF_vars(Flushes(m))

-----------------------------------------------------------------------------
Polled == {pollset[k].mgr : k \in DOMAIN pollset}

(* The pollset never names a manager twice (CAF_ASSERT(index_of(mgr) == -1)*)
(* in add), keeps no entry without events, which run() would wait for      *)
(* forever, polls for nothing that the manager did not register, and after *)
(* shutdown() for no input.                                                *)
SoundEntries ==
  \A k \in DOMAIN pollset :
    /\ pollset[k].events # {}
    /\ pollset[k].events \subseteq mask[pollset[k].mgr]
    /\ \A j \in DOMAIN pollset : pollset[j].mgr = pollset[k].mgr => j = k
    /\ shutting_down /\ mpx.at # "shutdown" /\ pollset[k].mgr # Updater
         => "read" \notin pollset[k].events

(* Mask and pollset agree for a manager whose handlers never registered an *)
(* operation and asked to stop in the same event, whatever the others do.  *)
(* Of the other managers mask() is not what socket_manager.hpp:74 calls it,*)
(* the "registered operations": poll_once discards the new one.            *)
UntornIsPolled ==
  \A m \in Managers \ torn :
    mask[m] = UNION {pollset[k].events : k \in Positions(Registry, m)}

(* While messages from the pipe add and delete entries, the index that     *)
(* poll_once keeps still refers to the updater, the first entry.           *)
UpdaterIsFirst ==
  mpx.at \in {"updater", "shutdown", "close"} =>
    mpx.i = 1 /\ pollset # <<>> /\ pollset[1].mgr = Updater

(* Whatever handlers, callers and errors do to it, and in whatever order,  *)
(* the pollset that poll_once iterates over stays what it should be.       *)
PollsetSound == SoundEntries /\ UntornIsPolled /\ UpdaterIsFirst

InFlight(m) == Cardinality({k \in DOMAIN pipe : pipe[k].mgr = m})
             + Cardinality({c \in Clients : client[c].msg.mgr = m})

(* Every reference is accounted for: managers_, messages in the pipe,      *)
(* callers on their way to the pipe and the owner.  Neither shutdown nor a *)
(* pipe that is closed in the middle of a call leaks one or drops one too  *)
(* many, and when run() returns the pipe was drained to the end.           *)
RefsBalanced ==
  /\ \A m \in Managers :
       refs[m] = Held(pollset, m) + InFlight(m) + (IF m \in owned THEN 1 ELSE 0)
  /\ mpx.at = "done" => pipe = <<>> /\ ~write_handle

(* Once shutdown was initiated no manager enters the pollset: a late       *)
(* register or init request is discarded.                                  *)
ShutdownShrinks == [][shutting_down => Polled' \subseteq Polled]_vars

(* shutdown() gets past close_pipe(): no caller blocks in write() while it *)
(* holds write_lock_ (multiplexer.hpp:94: "@thread-safe").                 *)
CloseReturns == (mpx.at = "close") ~> (mpx.at # "close")

(* After a shutdown the event loop ends, with the sockets flushed. *)
ShutdownTerminates == shutting_down ~> (mpx.at = "done")
=============================================================================
