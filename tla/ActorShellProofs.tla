-------------------------- MODULE ActorShellProofs --------------------------
(***************************************************************************)
(* Proofs about abstract_actor_shell: for any number of threads, messages  *)
(* and requests no wake-up is lost, every message and every request has    *)
(* one outcome, and the references to the manager are counted right.  If   *)
(* some owner keeps the manager while threads send, none of them touches a *)
(* manager in destruction.                                                 *)
(***************************************************************************)
EXTENDS ActorShell, FiniteSetTheorems, SequenceTheorems, TLAPS

(* Threads with a temporary intrusive_ptr to the manager. *)
Users == {t \in Threads : pc[t] \in {"register", "unref"}}

Counted ==
  /\ IsFiniteSet(Users)
  /\ refs = Held(polled) + pipe + (IF held THEN 1 ELSE 0) + Cardinality(Users)

(* A write event implies that the manager is polled for writing; cleanup() *)
(* closes the mailbox before it resets owner_, and ends after that.        *)
Phases ==
  /\ pc[Loop] = "prepare" => "write" \in polled
  /\ \A t \in Threads : pc[t] = "detach" => state = "closed"
  /\ ~owner \/ life = "freed" => state = "closed"

(* NoLostWakeup for the state of the mailbox: the manager must be awake    *)
(* before the next message arrives in an open mailbox, even an empty one.  *)
Awake ==
  state = "open" /\ ~shutting_down /\ ~abort_reason =>
    \/ "write" \in polled \/ pipe > 0
    \/ \E t \in Threads : pc[t] \in {"lock", "register", "close"}

(* The owner keeps the manager for the threads that send. *)
KeptAlive ==
  Guarded =>
    /\ \A t \in Threads : pc[t] \in {"lock", "register", "unref"} => held
    /\ life # "alive" => refs = 0

(* A call with a response handler has no outcome yet. *)
OneOutcome ==
  \A c \in Calls : Len(outcome[c]) <= 1 /\ (c \in responses => outcome[c] = <<>>)

OnePlace ==
  /\ IsFiniteSet(sent) /\ sent = consumed \cup bounced \cup ToSet(mailbox)
  /\ consumed \cap bounced = {} /\ (consumed \cup bounced) \cap ToSet(mailbox) = {}
  /\ IsInjective(mailbox)

(* The inductive invariant. *)
ShellInv ==
  /\ TypeOK /\ Counted /\ Phases /\ Awake /\ KeptAlive /\ OneOutcome /\ OnePlace

(* TypeOK, for proofs, in parts of variables that change together. *)
FlagType ==
  /\ owner \in BOOLEAN /\ abort_reason \in BOOLEAN /\ shutting_down \in BOOLEAN
  /\ held \in BOOLEAN
MailType ==
  /\ state \in {"open", "blocked", "closed"}
  /\ mailbox \in Seq(Messages) /\ (state # "open" => mailbox = <<>>)
  /\ sent \subseteq Messages /\ consumed \subseteq Messages /\ bounced \subseteq Messages
CallType ==
  responses \subseteq Calls /\ outcome \in [Calls -> Seq({"answer", "timeout"})]
PlaceType ==
  /\ polled \subseteq Ops /\ owner_mtx \in Threads \cup {Nobody}
  /\ life \in {"alive", "dying", "freed"}
  /\ pc \in [Threads -> {"idle", "lock", "register", "unref", "prepare", "close", "detach"}]

(* Together they are TypeOK, but for the two counters. *)
LEMMA TypeParts ==
  TypeOK <=> FlagType /\ MailType /\ CallType /\ PlaceType /\ pipe \in Nat /\ refs \in Nat
  BY DEF TypeOK, FlagType, MailType, CallType, PlaceType

-----------------------------------------------------------------------------
(* Every thread starts idle, with the references of the loop and the owner. *)
LEMMA ShellInit == Init => ShellInv
<1> SUFFICES ASSUME Init PROVE ShellInv
  OBVIOUS
<1>1. Users = {}
  BY DEF Init, Users
<1>2. FlagType
  BY ShellAssumption, Zenon DEF Init, FlagType
<1>3. MailType
  BY DEF Init, MailType
<1>4. CallType /\ PlaceType /\ pipe \in Nat /\ refs \in Nat
  BY DEF Init, CallType, PlaceType, Ops
<1>5. Counted
  BY <1>1, FS_EmptySet, ShellAssumption DEF Init, Counted, Held
<1>6. OnePlace
  BY FS_EmptySet DEF Init, OnePlace, ToSet, IsInjective
<1>7. Phases /\ Awake /\ KeptAlive /\ OneOutcome
  BY DEF Init, Phases, Awake, KeptAlive, OneOutcome, Threads
<1>8. QED
  BY <1>2, <1>3, <1>4, <1>5, <1>6, <1>7, TypeParts DEF ShellInv

-----------------------------------------------------------------------------
(* Which actions change the mailbox, and which the calls of the shell. *)
LEMMA MailChanges ==
  ASSUME Next
  PROVE  \/ \E t \in Threads, m \in Messages : Enqueue(t, m)
         \/ \E t \in Threads : CloseMailbox(t)
         \/ \E fails \in BOOLEAN : ConsumeMessage(fails)
         \/ DoneSending
         \/ UNCHANGED <<mboxVars, sent>>
  BY DEF Next, Continue, Handlers, LockOwner, RegisterWriting, Unref, DetachOwner, TakeRegister,
     Request, ReadStops, SocketFails, WriteEvent, WriteMore, WriteFails, Detach, Shutdown,
     Release, Waiting, vars

(* Response handlers are added by requests and removed by responses. *)
LEMMA CallChanges ==
  ASSUME Next
  PROVE  \/ \E c \in Calls : Request(c)
         \/ \E fails \in BOOLEAN : ConsumeMessage(fails)
         \/ UNCHANGED respVars
  BY DEF Next, Continue, Handlers, Enqueue, LockOwner, RegisterWriting, Unref, CloseMailbox,
     DetachOwner, TakeRegister, ReadStops, SocketFails, WriteEvent, WriteMore, WriteFails,
     DoneSending, Detach, Shutdown, Release, Waiting, vars

(* The flags stay Boolean. *)
LEMMA FlagStep ==
  ASSUME FlagType, Next PROVE FlagType'
  BY Zenon DEF FlagType, Next, Continue, Handlers, Enqueue, LockOwner, RegisterWriting,
     Unref, CloseMailbox, DetachOwner, TakeRegister, ReadStops, SocketFails, WriteEvent,
     WriteMore, WriteFails, ConsumeMessage, Request, DoneSending, Detach, Shutdown, Release,
     Waiting, lifeVars, ownerVars, mpxVars, vars

-----------------------------------------------------------------------------
(* The elements of sequences that grow and shrink at their ends. *)
LEMMA ToSetAppend ==
  ASSUME NEW S, NEW q \in Seq(S), NEW x \in S
  PROVE  /\ ToSet(Append(q, x)) = ToSet(q) \cup {x}
         /\ IsInjective(q) /\ x \notin ToSet(q) => IsInjective(Append(q, x))
<1>1. /\ Append(q, x) \in Seq(S) /\ Len(Append(q, x)) = Len(q) + 1 /\ Len(q) \in Nat
      /\ \A i \in 1 .. Len(q) : Append(q, x)[i] = q[i]
      /\ Append(q, x)[Len(q) + 1] = x
  OBVIOUS
<1>2. DOMAIN q = 1 .. Len(q) /\ DOMAIN Append(q, x) = 1 .. Len(q) + 1
  BY <1>1
<1> DEFINE r == Append(q, x)
<1> HIDE DEF r
<1>3. ToSet(r) = ToSet(q) \cup {x}
  BY <1>1, <1>2 DEF ToSet, r
<1>4. ASSUME IsInjective(q), x \notin ToSet(q) PROVE IsInjective(r)
  BY <1>1, <1>2, <1>4 DEF ToSet, IsInjective, r
<1>5. QED
  BY <1>3, <1>4 DEF r

(* The same for the first element. *)
LEMMA ToSetTail ==
  ASSUME NEW S, NEW q \in Seq(S), q # <<>>
  PROVE  /\ Head(q) \in S /\ ToSet(q) = ToSet(Tail(q)) \cup {Head(q)}
         /\ IsInjective(q) => IsInjective(Tail(q)) /\ Head(q) \notin ToSet(Tail(q))
<1> DEFINE r == Tail(q)
<1>1. /\ r \in Seq(S) /\ Len(q) \in Nat \ {0} /\ Len(r) = Len(q) - 1
      /\ Head(q) = q[1] /\ q[1] \in S
      /\ \A i \in 1 .. Len(r) : r[i] = q[i + 1]
  BY EmptySeq, LenProperties, HeadTailProperties
<1>2. DOMAIN q = 1 .. Len(q) /\ DOMAIN r = 1 .. Len(q) - 1
  BY <1>1
<1> HIDE DEF r
<1>3. \A i \in 1 .. Len(q) : i = 1 \/ (i - 1 \in 1 .. Len(r) /\ q[i] = r[i - 1])
  BY <1>1
<1>4. \A i \in 1 .. Len(r) : i + 1 \in 1 .. Len(q) /\ i + 1 # 1
  BY <1>1
<1>5. 1 \in DOMAIN q /\ Len(r) \in Nat /\ DOMAIN r = 1 .. Len(r)
  BY <1>1, <1>2
<1>6. ToSet(q) = ToSet(r) \cup {q[1]}
  <2>1. ToSet(r) \cup {q[1]} \subseteq ToSet(q)
    BY <1>1, <1>2, <1>4, <1>5 DEF ToSet
  <2>2. ToSet(q) \subseteq ToSet(r) \cup {q[1]}
    <3>1. \A j \in 1 .. Len(r) : r[j] \in ToSet(r)
      BY <1>5 DEF ToSet
    <3>2. \A i \in 1 .. Len(q) : q[i] \in ToSet(r) \cup {q[1]}
      BY <1>3, <3>1
    <3>3. QED
      BY <1>2, <3>2 DEF ToSet
  <2>3. QED
    BY <2>1, <2>2
<1>7. ASSUME IsInjective(q) PROVE IsInjective(r) /\ q[1] \notin ToSet(r)
  <2>1. \A i \in 1 .. Len(r) : r[i] # q[1]
    BY <1>1, <1>2, <1>4, <1>5, <1>7 DEF IsInjective
  <2>2. \A i, j \in 1 .. Len(r) : r[i] = r[j] => i = j
    BY <1>1, <1>2, <1>4, <1>7, SMTT(30) DEF IsInjective
  <2>3. QED
    BY <1>5, <2>1, <2>2 DEF ToSet, IsInjective
<1>8. QED
  BY <1>1, <1>6, <1>7 DEF r

(* Disjoint finite sets. *)
LEMMA CardDisjoint ==
  ASSUME NEW S, NEW T, IsFiniteSet(S), IsFiniteSet(T), S \cap T = {}
  PROVE  IsFiniteSet(S \cup T) /\ Cardinality(S \cup T) = Cardinality(S) + Cardinality(T)
<1>1. Cardinality(S) \in Nat /\ Cardinality(T) \in Nat
  BY FS_CardinalityType
<1>2. /\ IsFiniteSet(S \cup T)
      /\ Cardinality(S \cup T) = Cardinality(S) + Cardinality(T) - Cardinality(S \cap T)
  BY FS_Union
<1>3. Cardinality(S \cap T) = 0
  BY FS_EmptySet
<1>4. QED
  BY <1>1, <1>2, <1>3

(* The mailbox: an enqueued message is in one place. *)
LEMMA MailStep ==
  ASSUME MailType, OnePlace, Next PROVE MailType' /\ OnePlace'
<1>1. ASSUME NEW t \in Threads, NEW m \in Messages, Enqueue(t, m)
      PROVE  MailType' /\ OnePlace'
  <2>1. /\ m \notin sent /\ sent' = sent \cup {m} /\ consumed' = consumed
        /\ \/ /\ bounced' = bounced \cup {m} /\ state = "closed"
              /\ state' = state /\ mailbox' = mailbox
           \/ state' = "open" /\ mailbox' = Append(mailbox, m) /\ bounced' = bounced
    BY <1>1 DEF Enqueue, Sendable
  <2>2. MailType'
    BY <2>1 DEF MailType
  <2>3. IsFiniteSet(sent')
    BY <2>1, FS_AddElement DEF OnePlace
  <2>4. m \notin consumed /\ m \notin bounced /\ m \notin ToSet(mailbox)
    BY <2>1 DEF OnePlace
  <2>5. CASE mailbox' = Append(mailbox, m) /\ bounced' = bounced
    <3>1. ToSet(mailbox') = ToSet(mailbox) \cup {m} /\ IsInjective(mailbox')
      BY <2>4, <2>5, ToSetAppend DEF OnePlace, MailType
    <3>2. QED
      BY <2>1, <2>2, <2>3, <2>4, <2>5, <3>1 DEF OnePlace
  <2>6. CASE mailbox' = mailbox /\ bounced' = bounced \cup {m}
    BY <2>1, <2>2, <2>3, <2>4, <2>6 DEF OnePlace
  <2>7. QED
    BY <2>1, <2>5, <2>6
<1>2. ASSUME NEW t \in Threads, CloseMailbox(t) PROVE MailType' /\ OnePlace'
  <2>1. /\ state' = "closed" /\ mailbox' = <<>> /\ bounced' = bounced \cup ToSet(mailbox)
        /\ consumed' = consumed /\ sent' = sent
    BY <1>2 DEF CloseMailbox
  <2>2. ToSet(<<>>) = {} /\ IsInjective(<<>>)
    BY DEF ToSet, IsInjective
  <2>3. ToSet(mailbox) \subseteq Messages
    BY DEF MailType, ToSet
  <2>4. QED
    BY <2>1, <2>2, <2>3 DEF MailType, OnePlace
<1>3. ASSUME NEW fails \in BOOLEAN, ConsumeMessage(fails) PROVE MailType' /\ OnePlace'
  <2>1. /\ mailbox # <<>> /\ mailbox' = Tail(mailbox) /\ state' = state
        /\ consumed' = consumed \cup {Head(mailbox)} /\ bounced' = bounced /\ sent' = sent
    BY <1>3 DEF ConsumeMessage
  <2>2. /\ Head(mailbox) \in Messages /\ mailbox' \in Seq(Messages)
        /\ ToSet(mailbox) = ToSet(mailbox') \cup {Head(mailbox)}
        /\ IsInjective(mailbox') /\ Head(mailbox) \notin ToSet(mailbox')
    BY <2>1, ToSetTail DEF MailType, OnePlace
  <2>3. QED
    BY <2>1, <2>2 DEF MailType, OnePlace
<1>4. CASE DoneSending
  BY <1>4 DEF DoneSending, MailType, OnePlace
<1>5. CASE UNCHANGED <<mboxVars, sent>>
  BY <1>5 DEF mboxVars, MailType, OnePlace
<1>6. QED
  BY <1>1, <1>2, <1>3, <1>4, <1>5, MailChanges

(* A response handler runs at most once. *)
LEMMA CallStep ==
  ASSUME MailType, CallType, OneOutcome, Next PROVE CallType' /\ OneOutcome'
<1>1. ASSUME NEW c \in Calls, Request(c) PROVE CallType' /\ OneOutcome'
  BY <1>1 DEF Request, CallType, OneOutcome
<1>2. ASSUME NEW fails \in BOOLEAN, ConsumeMessage(fails) PROVE CallType' /\ OneOutcome'
  <2>1. mailbox # <<>> /\ Process(Head(mailbox))
    BY <1>2 DEF ConsumeMessage
  <2> DEFINE m == Head(mailbox)
  <2>2. m \in Messages
    BY <2>1, ToSetTail DEF MailType
  <2>3. CASE m.kind \in {"answer", "timeout"} /\ m.id \in responses
    <3>1. /\ m.id \in Calls /\ outcome[m.id] = <<>> /\ responses' = responses \ {m.id}
          /\ outcome' = [outcome EXCEPT ![m.id] = Append(outcome[m.id], m.kind)]
      BY <2>1, <2>3 DEF Process, CallType, OneOutcome
    <3>2. outcome' = [outcome EXCEPT ![m.id] = <<m.kind>>] /\ Len(<<m.kind>>) = 1
      BY <3>1
    <3>3. QED
      BY <2>3, <3>1, <3>2 DEF CallType, OneOutcome
  <2>4. CASE ~(m.kind \in {"answer", "timeout"} /\ m.id \in responses)
    BY <2>1, <2>4 DEF Process, respVars, CallType, OneOutcome
  <2>5. QED
    BY <2>3, <2>4
<1>3. CASE UNCHANGED respVars
  BY <1>3 DEF respVars, CallType, OneOutcome
<1>4. QED
  BY <1>1, <1>2, <1>3, CallChanges

-----------------------------------------------------------------------------
(* Threads and references *)

(* How the set of threads with a reference changes when thread t goes on. *)
LEMMA UsersMove ==
  ASSUME PlaceType, IsFiniteSet(Users), NEW t \in Threads, NEW at,
         pc' = [pc EXCEPT ![t] = at]
  PROVE  /\ IsFiniteSet(Users') /\ Cardinality(Users) \in Nat
         /\ at \in {"register", "unref"} => Users' = Users \cup {t}
         /\ at \notin {"register", "unref"} => Users' = Users \ {t}
         /\ Cardinality(Users') =
              Cardinality(Users) + (IF at \in {"register", "unref"} THEN 1 ELSE 0)
                                 - (IF t \in Users THEN 1 ELSE 0)
<1>1. /\ at \in {"register", "unref"} => Users' = Users \cup {t}
      /\ at \notin {"register", "unref"} => Users' = Users \ {t}
  BY DEF PlaceType, Users
<1>2. Cardinality(Users) \in Nat
  BY FS_CardinalityType
<1>3. QED
  BY <1>1, <1>2, FS_AddElement, FS_RemoveElement

(* Threads stay at the places of the code, managers in the stages of life. *)
LEMMA PlaceStep ==
  ASSUME PlaceType, Next PROVE PlaceType'
<1> USE DEF PlaceType
<1>1. ASSUME NEW t \in Threads, NEW m \in Messages, Enqueue(t, m) PROVE PlaceType'
  BY <1>1 DEF Enqueue, ownerVars, mpxVars, lifeVars
<1>2. ASSUME NEW t \in Threads, LockOwner(t) PROVE PlaceType'
  BY <1>2 DEF LockOwner, mpxVars
<1>3. ASSUME NEW t \in Threads, RegisterWriting(t) PROVE PlaceType'
  BY <1>3 DEF RegisterWriting, ownerVars, Registered, Ops
<1>4. ASSUME NEW t \in Threads, Unref(t) PROVE PlaceType'
  BY <1>4 DEF Unref, Deref, mpxVars
<1>5. ASSUME NEW t \in Threads, CloseMailbox(t) PROVE PlaceType'
  BY <1>5 DEF CloseMailbox, ownerVars, mpxVars, lifeVars
<1>6. ASSUME NEW t \in Threads, DetachOwner(t) PROVE PlaceType'
  BY <1>6 DEF DetachOwner, mpxVars
<1>7. ASSUME NEW ops, PollFor(ops), ops \subseteq Ops, UNCHANGED owner_mtx PROVE PlaceType'
  BY <1>7 DEF PollFor, Deref, Threads
<1>8. CASE TakeRegister
  BY <1>8 DEF TakeRegister, Deref, Registered, Ops, ownerVars, Threads
<1>9. CASE Handlers \/ Shutdown \/ Release \/ Waiting
  <2>1. \/ \E ops \in SUBSET Ops : PollFor(ops) /\ UNCHANGED owner_mtx
        \/ \E at \in {"idle", "prepare", "close"} :
             pc' = [pc EXCEPT ![Loop] = at] /\ UNCHANGED <<polled, owner_mtx, life>>
        \/ UNCHANGED <<polled, owner_mtx, life, pc>>
        \/ Release
    BY <1>9 DEF Handlers, Shutdown, Waiting, ReadStops, ConsumeMessage, Request, SocketFails,
         WriteEvent, WriteMore, WriteFails, DoneSending, Detach, vars, ownerVars, mpxVars, lifeVars
  <2>2. CASE Release
    BY <2>2 DEF Release, Deref, ownerVars, mpxVars, Threads
  <2>3. QED
    BY <1>7, <2>1, <2>2 DEF Threads
<1>10. QED
  BY <1>1, <1>2, <1>3, <1>4, <1>5, <1>6, <1>8, <1>9 DEF Next, Continue

-----------------------------------------------------------------------------
(* References *)

(* The parts of the invariant that the next lemmas are about. *)
Alive == PlaceType /\ FlagType /\ pipe \in Nat /\ Counted /\ Phases /\ Awake /\ KeptAlive

(* The manager is alive as long as anybody refers to it. *)
LEMMA Referred ==
  ASSUME Alive
  PROVE  /\ refs \in Nat /\ Cardinality(Users) \in Nat
         /\ \A t \in Users : Cardinality(Users) > 0
         /\ Guarded /\ refs > 0 => life = "alive"
         /\ polled # {} \/ pipe > 0 \/ held => refs > 0
         /\ Held(polled) \in {0, 1} /\ (Held(polled) = 0 <=> polled = {})
<1>1. Cardinality(Users) \in Nat
  BY FS_CardinalityType DEF Alive, Counted
<1>2. \A t \in Users : Cardinality(Users) > 0
  BY <1>1, FS_EmptySet DEF Alive, Counted
<1>3. Held(polled) \in {0, 1} /\ (Held(polled) = 0 <=> polled = {})
  BY DEF Held
<1>4. QED
  BY <1>1, <1>2, <1>3 DEF Alive, Counted, KeptAlive

(* Thread t moves on in enqueue(), and references come and go with it. *)
LEMMA EnqueueAlive ==
  ASSUME Alive, MailType, NEW t \in Threads, NEW m \in Messages, Enqueue(t, m)
  PROVE  pipe' \in Nat /\ Counted' /\ Phases' /\ Awake' /\ KeptAlive'
<1>1. /\ UNCHANGED <<owner, owner_mtx, abort_reason, polled, pipe, shutting_down, held, refs, life>>
      /\ pc[t] = "idle" /\ (Guarded => held)
      /\ pc' = pc \/ (state = "blocked" /\ pc' = [pc EXCEPT ![t] = "lock"])
      /\ state' = (IF state = "closed" THEN "closed" ELSE "open")
      /\ (state = "blocked" => pc' = [pc EXCEPT ![t] = "lock"])
  BY DEF Enqueue, ownerVars, mpxVars, lifeVars
<1>2. t \notin Users
  BY <1>1 DEF Users
<1>3. Users' = Users
  BY <1>1, <1>2, UsersMove DEF Users, Alive, Counted
<1>4. Counted'
  BY <1>1, <1>3 DEF Alive, Counted
<1>5. Phases'
  BY <1>1 DEF Alive, Phases, PlaceType, Threads
<1>6. Awake'
  BY <1>1 DEF Alive, Awake, PlaceType, MailType
<1>7. KeptAlive'
  BY <1>1 DEF Alive, KeptAlive, PlaceType
<1>8. QED
  BY <1>1, <1>4, <1>5, <1>6, <1>7 DEF Alive

(* A thread that finds owner_ takes a reference; one that does not finds the *)
(* mailbox closed.                                                           *)
LEMMA LockAlive ==
  ASSUME Alive, MailType, NEW t \in Threads, LockOwner(t)
  PROVE  pipe' \in Nat /\ Counted' /\ Phases' /\ Awake' /\ KeptAlive'
<1>1. /\ UNCHANGED <<owner, abort_reason, polled, pipe, shutting_down, held, life, state, mailbox>>
      /\ pc[t] = "lock"
      /\ \/ owner /\ refs' = refs + 1 /\ pc' = [pc EXCEPT ![t] = "register"]
         \/ ~owner /\ refs' = refs /\ pc' = [pc EXCEPT ![t] = "idle"]
  BY DEF LockOwner, mpxVars, mboxVars
<1>2. t \notin Users
  BY <1>1 DEF Users
<1>3. Counted'
  <2>1. /\ IsFiniteSet(Users') /\ Cardinality(Users') =
             Cardinality(Users) + (IF pc'[t] \in {"register", "unref"} THEN 1 ELSE 0)
                                - (IF t \in Users THEN 1 ELSE 0)
        /\ pc'[t] \in {"register", "unref"} <=> (owner)
    BY <1>1, UsersMove DEF Alive, Counted, PlaceType
  <2>2. (IF held' THEN 1 ELSE 0) = (IF held THEN 1 ELSE 0) /\ (IF held THEN 1 ELSE 0) \in Nat
    BY <1>1
  <2>3. QED
    BY <1>1, <1>2, <2>1, <2>2, Referred DEF Alive, Counted
<1>5. Phases'
  BY <1>1 DEF Alive, Phases, PlaceType, Threads
<1>6. Awake'
  BY <1>1 DEF Alive, Awake, PlaceType, MailType, Phases
<1>7. KeptAlive'
  <2> SUFFICES ASSUME Guarded PROVE KeptAlive'
    BY DEF KeptAlive
  <2>1. held
    BY <1>1 DEF Alive, KeptAlive
  <2>2. life = "alive" /\ held' /\ life' = life
    BY <1>1, <2>1, Referred
  <2>3. QED
    BY <2>2 DEF KeptAlive
<1>8. QED
  BY <1>1, <1>3, <1>5, <1>6, <1>7 DEF Alive

(* register_writing passes a reference on or makes the loop poll. *)
LEMMA RegisterAlive ==
  ASSUME Alive, MailType, NEW t \in Threads, RegisterWriting(t)
  PROVE  pipe' \in Nat /\ Counted' /\ Phases' /\ Awake' /\ KeptAlive'
<1>1. /\ UNCHANGED <<owner, abort_reason, shutting_down, held, life, state, mailbox>>
      /\ pc[t] = "register" /\ pc' = [pc EXCEPT ![t] = "unref"]
      /\ \/ polled' = Registered /\ refs' = refs + Held(polled') - Held(polled) /\ pipe' = pipe
         \/ ~shutting_down /\ pipe' = pipe + 1 /\ refs' = refs + 1 /\ polled' = polled
         \/ shutting_down /\ pipe' = pipe /\ refs' = refs /\ polled' = polled
  BY DEF RegisterWriting, ownerVars, mboxVars
<1>2. t \in Users /\ polled \subseteq polled' /\ Held(polled') \in {0, 1}
  BY <1>1 DEF Users, Registered, Held
<1>3. Counted'
  <2>1. /\ IsFiniteSet(Users') /\ Cardinality(Users') =
             Cardinality(Users) + (IF pc'[t] \in {"register", "unref"} THEN 1 ELSE 0)
                                - (IF t \in Users THEN 1 ELSE 0)
        /\ pc'[t] \in {"register", "unref"} <=> (TRUE)
    BY <1>1, UsersMove DEF Alive, Counted, PlaceType
  <2>2. (IF held' THEN 1 ELSE 0) = (IF held THEN 1 ELSE 0) /\ (IF held THEN 1 ELSE 0) \in Nat
    BY <1>1
  <2>3. QED
    BY <1>1, <1>2, <2>1, <2>2, Referred DEF Alive, Counted
<1>5. Phases'
  BY <1>1, <1>2 DEF Alive, Phases, PlaceType, Threads
<1>6. Awake'
  BY <1>1, <1>2 DEF Alive, Awake, PlaceType, MailType, Phases, Registered
<1>7. KeptAlive'
  <2> SUFFICES ASSUME Guarded PROVE KeptAlive'
    BY DEF KeptAlive
  <2>1. held
    BY <1>1 DEF Alive, KeptAlive
  <2>2. life = "alive" /\ held' /\ life' = life
    BY <1>1, <2>1, Referred
  <2>3. QED
    BY <2>2 DEF KeptAlive
<1>8. QED
  BY <1>1, <1>3, <1>5, <1>6, <1>7 DEF Alive

(* The temporary is dropped. *)
LEMMA UnrefAlive ==
  ASSUME Alive, MailType, NEW t \in Threads, Unref(t)
  PROVE  pipe' \in Nat /\ Counted' /\ Phases' /\ Awake' /\ KeptAlive'
<1>1. /\ UNCHANGED <<owner, abort_reason, polled, pipe, shutting_down, held, state, mailbox>>
      /\ pc[t] = "unref" /\ refs' = refs - 1
      /\ life' = (IF refs' = 0 THEN "dying" ELSE life)
      /\ pc' = [pc EXCEPT ![t] = IF refs' = 0 THEN "close" ELSE "idle"]
  BY DEF Unref, Deref, mpxVars, mboxVars
<1>2. t \in Users
  BY <1>1 DEF Users
<1>3. Counted'
  <2>1. IsFiniteSet(Users') /\ Cardinality(Users') = Cardinality(Users) - 1
    <3>1. PICK at \in {"close", "idle"} : pc' = [pc EXCEPT ![t] = at]
      BY <1>1
    <3>2. Users' = Users \ {t}
      BY <3>1, UsersMove DEF Alive, Counted
    <3>3. QED
      BY <1>2, <3>2, FS_RemoveElement DEF Alive, Counted
  <2>2. (IF held' THEN 1 ELSE 0) = (IF held THEN 1 ELSE 0) /\ (IF held THEN 1 ELSE 0) \in Nat
    BY <1>1
  <2>3. QED
    BY <1>1, <2>1, <2>2, Referred DEF Alive, Counted
<1>4. Phases'
  BY <1>1 DEF Alive, Phases, PlaceType, Threads
<1>5. Awake'
  BY <1>1 DEF Alive, Awake, PlaceType
<1>6. KeptAlive'
  <2> SUFFICES ASSUME Guarded PROVE KeptAlive'
    BY DEF KeptAlive
  <2>1. held /\ refs > 0
    BY <1>1, Referred DEF Alive, KeptAlive
  <2>2. life = "alive" /\ held' /\ (life' # "alive" => refs' = 0)
    BY <1>1, <2>1, Referred
  <2>3. QED
    BY <2>2 DEF KeptAlive
<1>7. QED
  BY <1>1, <1>3, <1>4, <1>5, <1>6 DEF Alive

(* cleanup() takes no reference and drops none. *)
LEMMA CleanupAlive ==
  ASSUME Alive, MailType, NEW t \in Threads, CloseMailbox(t) \/ DetachOwner(t)
  PROVE  pipe' \in Nat /\ Counted' /\ Phases' /\ Awake' /\ KeptAlive'
<1>1. /\ UNCHANGED <<abort_reason, polled, pipe, shutting_down, held, refs>>
      /\ \/ /\ pc[t] = "close" /\ pc' = [pc EXCEPT ![t] = "detach"] /\ state' = "closed"
            /\ owner' = owner /\ life' = life
         \/ /\ pc[t] = "detach" /\ pc' = [pc EXCEPT ![t] = "idle"] /\ state' = state
            /\ (life # "dying" => life' = life)
  BY DEF CloseMailbox, DetachOwner, ownerVars, mpxVars, lifeVars, mboxVars
<1>2. t \notin Users
  BY <1>1 DEF Users
<1>3. Counted'
  <2>1. Users' = Users
    BY <1>1, <1>2, UsersMove DEF Alive, Counted
  <2>2. QED
    BY <1>1, <2>1 DEF Alive, Counted
<1>4. Phases'
  <2>1. state' = "closed"
    BY <1>1 DEF Alive, Phases
  <2>2. QED
    BY <1>1, <2>1 DEF Alive, Phases, PlaceType, Threads
<1>5. Awake'
  BY <1>1 DEF Alive, Awake, Phases
<1>6. KeptAlive'
  BY <1>1 DEF Alive, KeptAlive, PlaceType
<1>7. QED
  BY <1>1, <1>3, <1>4, <1>5, <1>6 DEF Alive

(* The loop drops or takes the reference of managers_. *)
LEMMA PollAlive ==
  ASSUME Alive, NEW ops \in SUBSET Ops, PollFor(ops), InLoop \/ pc[Loop] = "prepare",
         UNCHANGED <<owner, pipe, held>>, state = "closed" => state' = "closed"
  PROVE  pipe' \in Nat /\ Counted' /\ Phases' /\ KeptAlive'
<1>1. /\ pc[Loop] \in {"idle", "prepare"} /\ Loop \in Threads /\ polled' = ops
      /\ refs' = refs + Held(ops) - Held(polled)
      /\ life' = (IF refs' = 0 THEN "dying" ELSE life)
      /\ pc' = [pc EXCEPT ![Loop] = IF refs' = 0 THEN "close" ELSE "idle"]
  BY DEF PollFor, Deref, InLoop, Threads
<1>2. Loop \notin Users
  BY <1>1 DEF Users
<1>3. Counted'
  <2>1. IsFiniteSet(Users') /\ Cardinality(Users') = Cardinality(Users)
    <3>1. PICK at \in {"close", "idle"} : pc' = [pc EXCEPT ![Loop] = at]
      BY <1>1
    <3>2. QED
      BY <1>2, <3>1, UsersMove DEF Alive, Counted, Threads
  <2>2. (IF held' THEN 1 ELSE 0) = (IF held THEN 1 ELSE 0) /\ (IF held THEN 1 ELSE 0) \in Nat
    OBVIOUS
  <2>3. Held(polled') \in Nat /\ Held(polled) \in Nat
    BY DEF Held
  <2>4. refs' = Held(polled') + pipe' + (IF held' THEN 1 ELSE 0) + Cardinality(Users')
    BY <1>1, <2>1, <2>2, <2>3, Referred DEF Alive, Counted
  <2>5. QED
    BY <2>1, <2>4 DEF Counted
<1>4. Phases'
  BY <1>1 DEF Alive, Phases, PlaceType
<1>5. KeptAlive'
  <2> SUFFICES ASSUME Guarded PROVE KeptAlive'
    BY DEF KeptAlive
  <2>1. life = "alive"
    BY Referred DEF Alive, Phases, InLoop
  <2>2. life' # "alive" => refs' = 0
    BY <1>1, <2>1
  <2>3. \A s \in Threads : pc'[s] \in {"lock", "register", "unref"} => held'
    BY <1>1 DEF Alive, KeptAlive, PlaceType
  <2>4. QED
    BY <2>2, <2>3 DEF KeptAlive
<1>6. QED
  BY <1>3, <1>4, <1>5 DEF Alive

(* The updater turns the reference of a message into that of managers_. *)
LEMMA TakeRegisterAlive ==
  ASSUME Alive, TakeRegister
  PROVE  pipe' \in Nat /\ Counted' /\ Phases' /\ Awake' /\ KeptAlive'
<1>1. /\ UNCHANGED <<owner, abort_reason, shutting_down, held, state, mailbox>>
      /\ pc[Loop] = "idle" /\ life = "alive" /\ Loop \in Threads
      /\ pipe > 0 /\ pipe' = pipe - 1 /\ polled' = Registered
      /\ refs' = refs - 1 + Held(polled') - Held(polled)
      /\ life' = (IF refs' = 0 THEN "dying" ELSE life)
      /\ pc' = [pc EXCEPT ![Loop] = IF refs' = 0 THEN "close" ELSE "idle"]
  BY DEF TakeRegister, Deref, InLoop, Threads, ownerVars, mboxVars
<1>2. Loop \notin Users /\ polled \subseteq polled' /\ Held(polled') \in {0, 1}
  BY <1>1 DEF Users, Registered, Held
<1>3. Counted'
  <2>1. IsFiniteSet(Users') /\ Cardinality(Users') = Cardinality(Users)
    <3>1. PICK at \in {"close", "idle"} : pc' = [pc EXCEPT ![Loop] = at]
      BY <1>1
    <3>2. QED
      BY <1>2, <3>1, UsersMove, ZenonT(60) DEF Alive, Counted, Threads
  <2>2. (IF held' THEN 1 ELSE 0) = (IF held THEN 1 ELSE 0) /\ (IF held THEN 1 ELSE 0) \in Nat
    BY <1>1
  <2>3. Held(polled') \in Nat /\ Held(polled) \in Nat
    BY DEF Held
  <2>4. refs' = Held(polled') + pipe' + (IF held' THEN 1 ELSE 0) + Cardinality(Users')
    BY <1>1, <2>1, <2>2, <2>3, Referred DEF Alive, Counted
  <2>5. QED
    BY <2>1, <2>4 DEF Counted
<1>4. Phases'
  BY <1>1 DEF Alive, Phases, PlaceType
<1>5. Awake'
  BY <1>1 DEF Awake, Registered
<1>6. KeptAlive'
  <2>1. \A s \in Threads : pc'[s] \in {"lock", "register", "unref"} => pc'[s] = pc[s]
    BY <1>1 DEF Alive, PlaceType
  <2>2. QED
    BY <1>1, <2>1 DEF Alive, KeptAlive
<1>7. QED
  BY <1>1, <1>3, <1>4, <1>5, <1>6 DEF Alive

(* The owner lets go when nobody sends. *)
LEMMA ReleaseAlive ==
  ASSUME Alive, Release
  PROVE  pipe' \in Nat /\ Counted' /\ Phases' /\ Awake' /\ KeptAlive'
<1>1. /\ UNCHANGED <<owner, abort_reason, shutting_down, polled, pipe, state, mailbox>>
      /\ held /\ ~held' /\ (\A t \in Threads : pc[t] = "idle") /\ Loop \in Threads
      /\ refs' = refs - 1
      /\ life' = (IF refs' = 0 THEN "dying" ELSE life)
      /\ pc' = [pc EXCEPT ![Loop] = IF refs' = 0 THEN "close" ELSE "idle"]
  BY DEF Release, Deref, Threads, mpxVars, ownerVars, mboxVars
<1>2. Loop \notin Users
  BY <1>1 DEF Users
<1>3. Counted'
  <2>1. IsFiniteSet(Users') /\ Cardinality(Users') = Cardinality(Users)
    <3>1. PICK at \in {"close", "idle"} : pc' = [pc EXCEPT ![Loop] = at]
      BY <1>1
    <3>2. QED
      BY <1>2, <3>1, UsersMove DEF Alive, Counted, Threads
  <2>2. (IF held' THEN 1 ELSE 0) = 0 /\ (IF held THEN 1 ELSE 0) = 1
    BY <1>1
  <2>3. QED
    BY <1>1, <2>1, <2>2, Referred DEF Alive, Counted
<1>4. Phases'
  BY <1>1 DEF Alive, Phases, PlaceType
<1>5. Awake'
  BY <1>1 DEF Alive, Awake, PlaceType
<1>6. KeptAlive'
  <2>1. \A s \in Threads : pc'[s] \notin {"lock", "register", "unref"}
    BY <1>1 DEF Alive, PlaceType
  <2>2. Guarded => life = "alive"
    BY <1>1, Referred
  <2>3. QED
    BY <1>1, <2>1, <2>2 DEF KeptAlive
<1>7. QED
  BY <1>1, <1>3, <1>4, <1>5, <1>6 DEF Alive

(* Every step keeps the references and whoever depends on them. *)
LEMMA AliveStep ==
  ASSUME Alive, MailType, Next
  PROVE  pipe' \in Nat /\ Counted' /\ Phases' /\ Awake' /\ KeptAlive'
<1> DEFINE Goal == pipe' \in Nat /\ Counted' /\ Phases' /\ Awake' /\ KeptAlive'
<1> USE DEF Ops
<1>1. polled \in SUBSET Ops /\ polled \ {"read"} \in SUBSET Ops /\ polled \ {"write"} \in SUBSET Ops
  BY DEF Alive, PlaceType
<1>2. ASSUME NEW fails \in BOOLEAN, ReadStops(fails) PROVE Goal
  <2>1. /\ PollFor(polled \ {"read"}) /\ InLoop /\ UNCHANGED <<owner, pipe, held, state, shutting_down>>
        /\ (~abort_reason' => ~abort_reason)
    BY <1>2 DEF ReadStops, ownerVars, mboxVars
  <2>2. Awake'
    BY <2>1 DEF Alive, Awake, PollFor, Deref, InLoop, PlaceType
  <2>3. QED
    BY <1>1, <2>1, <2>2, PollAlive
<1>3. CASE SocketFails
  <2>1. PollFor({}) /\ InLoop /\ UNCHANGED <<owner, pipe, held, state>> /\ abort_reason'
    BY <1>3 DEF SocketFails, ownerVars, mboxVars
  <2>2. QED
    BY <2>1, PollAlive DEF Awake
<1>4. CASE WriteFails
  <2>1. /\ PollFor(polled \ {"write"}) /\ pc[Loop] = "prepare"
        /\ UNCHANGED <<owner, pipe, held, state>> /\ abort_reason'
    BY <1>4 DEF WriteFails, ownerVars, mboxVars
  <2>2. QED
    BY <1>1, <2>1, PollAlive DEF Awake
<1>5. CASE Shutdown
  <2>1. /\ PollFor(polled \ {"read"}) /\ InLoop /\ UNCHANGED <<owner, pipe, held, state>>
        /\ shutting_down'
    BY <1>5 DEF Shutdown, ownerVars, mboxVars
  <2>2. QED
    BY <1>1, <2>1, PollAlive DEF Awake
<1>6. CASE DoneSending /\ mailbox = <<>>
  <2>1. /\ PollFor(polled \ {"write"}) /\ pc[Loop] = "prepare" /\ UNCHANGED <<owner, pipe, held>>
        /\ (state = "closed" => state' = "closed") /\ state' # "open"
    BY <1>6 DEF DoneSending, ownerVars, MailType
  <2>2. QED
    BY <1>1, <2>1, PollAlive DEF Awake
<1>7. ASSUME NEW fails \in BOOLEAN, ConsumeMessage(fails), abort_reason' PROVE Goal
  <2>1. /\ PollFor(polled \ {"write"}) /\ pc[Loop] = "prepare"
        /\ UNCHANGED <<owner, pipe, held, state>>
    BY <1>7 DEF ConsumeMessage, ownerVars
  <2>2. QED
    BY <1>1, <1>7, <2>1, PollAlive DEF Awake
<1>8. ASSUME UNCHANGED <<owner, polled, pipe, held, refs, life, state, shutting_down>>,
             abort_reason => abort_reason',
             \/ UNCHANGED pc
             \/ pc[Loop] = "prepare" /\ pc' = [pc EXCEPT ![Loop] = "idle"]
             \/ pc[Loop] = "idle" /\ pc' = [pc EXCEPT ![Loop] = "close"]
             \/ "write" \in polled /\ pc[Loop] = "idle" /\ pc' = [pc EXCEPT ![Loop] = "prepare"]
      PROVE  Goal
  <2>1. Users' = Users
    BY <1>8 DEF Users, Alive, PlaceType
  <2>2. Counted'
    BY <1>8, <2>1 DEF Alive, Counted
  <2>3. Phases'
    BY <1>8 DEF Alive, Phases, PlaceType, Threads
  <2>4. Awake'
    BY <1>8 DEF Alive, Awake, PlaceType
  <2>5. KeptAlive'
    BY <1>8 DEF Alive, KeptAlive, PlaceType
  <2>6. QED
    BY <1>8, <2>2, <2>3, <2>4, <2>5 DEF Alive
<1>9. CASE \/ \E fails \in BOOLEAN : ConsumeMessage(fails) /\ ~abort_reason'
           \/ \E c \in Calls : Request(c)
           \/ WriteEvent \/ WriteMore \/ (DoneSending /\ mailbox # <<>>) \/ Detach \/ Waiting
  <2>0. abort_reason => abort_reason'
    BY <1>9, Zenon DEF ConsumeMessage, Request, WriteEvent, WriteMore, DoneSending, Detach, Waiting,
       vars
  <2>1. UNCHANGED <<owner, polled, pipe, held, refs, life, state, shutting_down>>
    BY <1>9 DEF ConsumeMessage, Request, WriteEvent, WriteMore, DoneSending, Detach, Waiting,
       vars, mboxVars, ownerVars, mpxVars, lifeVars
  <2>2. \/ UNCHANGED pc
        \/ pc[Loop] = "prepare" /\ pc' = [pc EXCEPT ![Loop] = "idle"]
        \/ pc[Loop] = "idle" /\ pc' = [pc EXCEPT ![Loop] = "close"]
        \/ "write" \in polled /\ pc[Loop] = "idle" /\ pc' = [pc EXCEPT ![Loop] = "prepare"]
    BY <1>9 DEF ConsumeMessage, Request, WriteEvent, WriteMore, DoneSending, Detach, Waiting,
       vars, InLoop
  <2>3. QED
    BY <1>8, <2>0, <2>1, <2>2
<1>10. QED
  BY <1>2, <1>3, <1>4, <1>5, <1>6, <1>7, <1>9, EnqueueAlive, LockAlive, RegisterAlive, UnrefAlive,
     CleanupAlive, TakeRegisterAlive, ReleaseAlive DEF Next, Continue, Handlers

-----------------------------------------------------------------------------
(* The inductive invariant holds in every reachable state, with an owner   *)
(* that keeps the manager or without.                                      *)
THEOREM ShellInvariant == Spec => []ShellInv
<1>1. ASSUME ShellInv, [Next]_vars PROVE ShellInv'
  <2>1. Alive /\ MailType /\ CallType
    BY <1>1, TypeParts DEF ShellInv, Alive
  <2>2. CASE Next
    <3>1. FlagType' /\ MailType' /\ OnePlace' /\ CallType' /\ OneOutcome' /\ PlaceType'
      BY <1>1, <2>1, <2>2, FlagStep, MailStep, CallStep, PlaceStep DEF ShellInv, Alive
    <3>2. pipe' \in Nat /\ Counted' /\ Phases' /\ Awake' /\ KeptAlive'
      BY <2>1, <2>2, AliveStep
    <3>3. refs' \in Nat
      <4>1. Cardinality(Users') \in Nat /\ Held(polled') \in Nat
        BY <3>2, FS_CardinalityType DEF Counted, Held
      <4>2. QED
        BY <3>2, <4>1 DEF Counted
    <3>4. TypeOK'
      BY <3>1, <3>2, <3>3 DEF TypeOK, FlagType, MailType, CallType, PlaceType
    <3>5. QED
      BY <3>1, <3>2, <3>4 DEF ShellInv
  <2>3. CASE UNCHANGED vars
    <3>1. TypeOK'
      BY <1>1, <2>3, Zenon DEF vars, mboxVars, ownerVars, respVars, mpxVars, lifeVars, ShellInv, TypeOK
    <3>2. Users' = Users
      BY <2>3 DEF vars, Users
    <3>3. Counted' /\ KeptAlive'
      BY <1>1, <2>3, <3>2 DEF vars, mpxVars, lifeVars, ShellInv, Counted, KeptAlive
    <3>4. Phases' /\ Awake' /\ OneOutcome' /\ OnePlace'
      BY <1>1, <2>3 DEF vars, mboxVars, ownerVars, respVars, mpxVars, lifeVars, ShellInv, Phases,
         Awake, OneOutcome, OnePlace
    <3>5. QED
      BY <3>1, <3>3, <3>4 DEF ShellInv
  <2>4. QED
    BY <1>1, <2>2, <2>3
<1>2. QED
  BY <1>1, ShellInit, PTL DEF Spec

(* abstract_actor_shell: all members keep their types. *)
THEOREM ShellTypes == Spec => []TypeOK
<1>1. ShellInv => TypeOK
  BY DEF ShellInv
<1>2. QED
  BY <1>1, ShellInvariant, PTL

(* enqueue() and try_block_mailbox(): no wake-up is lost, however many     *)
(* threads send.                                                           *)
THEOREM ShellWakes == Spec => []NoLostWakeup
<1>1. ShellInv => NoLostWakeup
  BY DEF ShellInv, Awake, TypeOK, NoLostWakeup
<1>2. QED
  BY <1>1, ShellInvariant, PTL

(* enqueue(), consume_message() and cleanup(): no message is lost or       *)
(* processed twice, and no response handler runs twice.                    *)
THEOREM ShellAccounts == Spec => []Accounted
<1>1. ASSUME ShellInv PROVE Accounted
  <2>1. ToSet(mailbox) \subseteq sent /\ consumed \subseteq sent /\ bounced \subseteq sent
    BY <1>1 DEF ShellInv, OnePlace
  <2>2. IsFiniteSet(sent) /\ IsFiniteSet(consumed) /\ IsFiniteSet(bounced)
        /\ IsFiniteSet(ToSet(mailbox))
    BY <1>1, <2>1, FS_Subset DEF ShellInv, OnePlace
  <2>3. Cardinality(ToSet(mailbox)) = Len(mailbox)
    <3>1. mailbox \in [1 .. Len(mailbox) -> ToSet(mailbox)] /\ Len(mailbox) \in Nat
      BY <1>1 DEF ShellInv, TypeOK, ToSet
    <3>2. mailbox \in Bijection(1 .. Len(mailbox), ToSet(mailbox))
      BY <1>1, <3>1 DEF ShellInv, OnePlace, IsInjective, ToSet, Bijection, Injection, Surjection
    <3>3. QED
      BY <3>1, <3>2, FS_CountingElements DEF ExistsBijection
  <2>4. Cardinality(consumed \cup bounced) = Cardinality(consumed) + Cardinality(bounced)
    BY <1>1, <2>2, CardDisjoint DEF ShellInv, OnePlace
  <2>5. Cardinality(sent) = Cardinality(consumed \cup bounced) + Cardinality(ToSet(mailbox))
    BY <1>1, <2>2, CardDisjoint DEF ShellInv, OnePlace
  <2>6. life = "freed" => mailbox = <<>>
    BY <1>1 DEF ShellInv, Phases, TypeOK
  <2>7. QED
    BY <1>1, <2>3, <2>4, <2>5, <2>6 DEF ShellInv, OnePlace, OneOutcome, Accounted
<1>2. QED
  BY <1>1, ShellInvariant, PTL

(* ~socket_manager and register_writing: if some owner keeps the manager   *)
(* while threads send, references are counted right and nobody touches a   *)
(* manager in destruction.                                                 *)
THEOREM ShellNeverDangles ==
  ASSUME Guarded PROVE Spec => [](NeverDangling /\ OwnerExists)
<1>1. ASSUME ShellInv PROVE NeverDangling /\ OwnerExists
  <2>1. refs = Held(polled) + pipe + (IF held THEN 1 ELSE 0)
               + Cardinality({t \in Threads : pc[t] \in {"register", "unref"}})
    BY <1>1 DEF ShellInv, Counted, Users
  <2>2. life # "alive" => refs = 0
    BY <1>1 DEF ShellInv, KeptAlive
  <2>3. Alive
    BY <1>1, TypeParts DEF ShellInv, Alive
  <2>4. OwnerExists
    BY <1>1, <2>3, Referred DEF OwnerExists, ShellInv, KeptAlive
  <2>5. QED
    BY <2>1, <2>2, <2>4 DEF NeverDangling
<1>2. QED
  BY <1>1, ShellInvariant, PTL
=============================================================================
