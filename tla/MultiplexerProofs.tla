-------------------------- MODULE MultiplexerProofs --------------------------
(***************************************************************************)
(* Proofs about the multiplexer, for any number of managers and client     *)
(* threads, any capacity of the pipe and any bound on the calls.           *)
(*                                                                         *)
(* The handlers and the messages change pollset_, managers_ and the masks  *)
(* in three ways: an entry gets other events, an entry goes, an entry is   *)
(* added at the end.  The first part shows that each of them keeps the     *)
(* registry sound, the second part that every step is one of them.         *)
(***************************************************************************)
EXTENDS Multiplexer, FiniteSetTheorems, SequenceTheorems, TLAPS

-----------------------------------------------------------------------------
(* The inductive invariant.                                                *)

(* One entry per manager, for operations that the manager registered, and  *)
(* writing is never forgotten: without that, shutdown() could keep an      *)
(* entry whose events are empty.                                           *)
SoundReg(r) ==
  /\ r.pollset \in Seq(Entry)
  /\ r.mask \in [All -> SUBSET Ops]
  /\ \A k \in DOMAIN r.pollset :
       /\ r.pollset[k].events # {}
       /\ r.pollset[k].events \subseteq r.mask[r.pollset[k].mgr]
       /\ "write" \in r.mask[r.pollset[k].mgr] => "write" \in r.pollset[k].events
       /\ \A l \in DOMAIN r.pollset : r.pollset[l].mgr = r.pollset[k].mgr => l = k

(* The mask of m is what the pollset asks for in the name of m. *)
Exact(r, m) ==
  \A op \in Ops :
    op \in r.mask[m] <=>
      \E k \in DOMAIN r.pollset : r.pollset[k].mgr = m /\ op \in r.pollset[k].events

(* In the loop of shutdown() the entries that it passed poll for no input, *)
(* afterwards none does.                                                   *)
NoInput ==
  shutting_down => \A k \in DOMAIN pollset :
    (mpx.at = "shutdown" => k < mpx.j) /\ pollset[k].mgr # Updater
      => "read" \notin pollset[k].events

(* poll() reports only what it was asked for, so that until a shutdown no  *)
(* handler runs for an operation that its manager did not register.        *)
Asked ==
  /\ mpx.at = "run" => \A k \in DOMAIN pollset : pollset[k].revents = {}
  /\ ~shutting_down => \A k \in DOMAIN pollset :
       k >= mpx.i => pollset[k].revents \cap Ops \subseteq pollset[k].events

(* The updater is the first entry or has left for good: then no message    *)
(* is in the pipe and none can follow.                                     *)
UpdaterStays ==
  /\ mask[Updater] \subseteq {"read"}
  /\ \A k \in DOMAIN pollset :
       pollset[k].mgr = Updater =>
         /\ k = 1
         /\ pollset[k].revents = {"error"} => pipe = <<>> /\ ~write_handle
  /\ Updater \notin Polled => pipe = <<>> /\ ~write_handle

Phases ==
  /\ mpx.i >= 1
  /\ mpx.at \in {"updater", "shutdown", "close"} =>
       mpx.i = 1 /\ mpx.presult > 0 /\ pollset # <<>> /\ pollset[1].mgr = Updater
  /\ mpx.at \in {"shutdown", "close"} => shutting_down
  /\ mpx.at = "shutdown" => mpx.j >= 2
  /\ mpx.at = "done" => pollset = <<>>

(* Messages carry a manager, except for the shutdown; a client writes with *)
(* the lock and into an open pipe.                                         *)
GoodMsg(x) == (x.op = "shutdown") <=> (x.mgr = Nobody)

Messages ==
  /\ \A k \in DOMAIN pipe : GoodMsg(pipe[k])
  /\ \A c \in Clients :
       /\ GoodMsg(client[c].msg)
       /\ client[c].at = "idle" => client[c].msg = NoMsg
       /\ client[c].at = "write" => write_lock = c /\ write_handle

Callers(m) == {c \in Clients : client[c].msg.mgr = m}

Counted ==
  \A m \in Managers :
    /\ IsFiniteSet(Callers(m))
    /\ refs[m] = Held(pollset, m) + InFlight(m) + (IF m \in owned THEN 1 ELSE 0)

MpxInv ==
  /\ TypeOK
  /\ SoundReg(Registry)
  /\ \A m \in Managers \ torn : Exact(Registry, m)
  /\ NoInput /\ Asked /\ UpdaterStays /\ Phases /\ Messages /\ Counted

-----------------------------------------------------------------------------
(* Sequences and counting.                                                 *)

(* What is left when an element is removed. *)
LEMMA RemoveAtProps ==
  ASSUME NEW S, NEW s \in Seq(S), NEW k \in DOMAIN s
  PROVE  /\ RemoveAt(s, k) \in Seq(S)
         /\ Len(RemoveAt(s, k)) = Len(s) - 1
         /\ \A l \in 1 .. Len(s) - 1 :
              RemoveAt(s, k)[l] = IF l < k THEN s[l] ELSE s[l + 1]
<1> DEFINE a == SubSeq(s, 1, k - 1)
           b == SubSeq(s, k + 1, Len(s))
<1>1. k \in 1 .. Len(s) /\ Len(s) \in Nat
  OBVIOUS
<1>2. a \in Seq(S) /\ Len(a) = k - 1 /\ \A l \in 1 .. k - 1 : a[l] = s[l]
  BY <1>1
<1>3. b \in Seq(S) /\ Len(b) = Len(s) - k /\ \A l \in 1 .. Len(s) - k : b[l] = s[l + k]
  BY <1>1
<1>4. RemoveAt(s, k) = a \o b
  BY DEF RemoveAt
<1> HIDE DEF a, b
<1>5. /\ a \o b \in Seq(S)
      /\ Len(a \o b) = Len(a) + Len(b)
      /\ \A l \in 1 .. Len(a) + Len(b) :
           (a \o b)[l] = IF l <= Len(a) THEN a[l] ELSE b[l - Len(a)]
  BY <1>2, <1>3, ConcatProperties
<1>6. Len(a) + Len(b) = Len(s) - 1
  BY <1>1, <1>2, <1>3
<1>7. ASSUME NEW l \in 1 .. Len(s) - 1
      PROVE  (a \o b)[l] = IF l < k THEN s[l] ELSE s[l + 1]
  <2>1. (a \o b)[l] = IF l <= k - 1 THEN a[l] ELSE b[l - (k - 1)]
    BY <1>2, <1>5, <1>6
  <2>2. l <= k - 1 => a[l] = s[l]
    BY <1>1, <1>2
  <2>3. ~(l <= k - 1) => l - (k - 1) \in 1 .. Len(s) - k /\ l - (k - 1) + k = l + 1
    BY <1>1
  <2>4. ~(l <= k - 1) => b[l - (k - 1)] = s[l + 1]
    BY <1>3, <2>3
  <2> QED
    BY <1>1, <2>1, <2>2, <2>4
<1> QED
  BY <1>4, <1>5, <1>6, <1>7

(* The fields of an entry. *)
LEMMA EntryType ==
  ASSUME NEW p \in Seq(Entry)
  PROVE  /\ Len(p) \in Nat /\ DOMAIN p = 1 .. Len(p)
         /\ \A l \in DOMAIN p :
              /\ p[l] \in Entry /\ p[l].mgr \in All /\ p[l].events \subseteq Ops
              /\ p[l].revents \in (SUBSET Ops) \cup {{"error"}}
<1>1. \A e \in Entry : /\ e.mgr \in All /\ e.events \subseteq Ops
                        /\ e.revents \in (SUBSET Ops) \cup {{"error"}}
  BY DEF Entry
<1>2. \A l \in DOMAIN p : p[l] \in Entry
  OBVIOUS
<1> QED
  BY <1>1, <1>2

(* The entries of a manager can be counted. *)
LEMMA HeldNat ==
  ASSUME NEW S, NEW s \in Seq(S), NEW m
  PROVE  Held(s, m) \in Nat /\ IsFiniteSet({k \in DOMAIN s : s[k].mgr = m})
<1>1. IsFiniteSet(1 .. Len(s))
  BY FS_Interval
<1>2. {k \in DOMAIN s : s[k].mgr = m} \in SUBSET (1 .. Len(s))
  OBVIOUS
<1> QED
  BY <1>1, <1>2, FS_Subset, FS_CardinalityType DEF Held

(* A message at the end of the pipe. *)
LEMMA HeldAppend ==
  ASSUME NEW S, NEW s \in Seq(S), NEW x \in S, NEW m
  PROVE  Held(Append(s, x), m) = Held(s, m) + (IF x.mgr = m THEN 1 ELSE 0)
<1> DEFINE P == {k \in DOMAIN s : s[k].mgr = m}
           Q == {k \in DOMAIN Append(s, x) : Append(s, x)[k].mgr = m}
<1>1. IsFiniteSet(P) /\ Cardinality(P) \in Nat
  BY HeldNat DEF Held
<1>2. Q = IF x.mgr = m THEN P \cup {Len(s) + 1} ELSE P
  OBVIOUS
<1>3. Len(s) + 1 \notin P
  OBVIOUS
<1> HIDE DEF P, Q
<1>4. Cardinality(Q) = Cardinality(P) + (IF x.mgr = m THEN 1 ELSE 0)
  <2>1. Cardinality(P \cup {Len(s) + 1}) = Cardinality(P) + 1
    BY <1>1, <1>3, FS_AddElement
  <2> QED
    BY <1>1, <1>2, <2>1
<1> QED
  BY <1>4 DEF Held, P, Q

(* The first message leaves the pipe. *)
LEMMA HeldTail ==
  ASSUME NEW S, NEW s \in Seq(S), s # <<>>, NEW m
  PROVE  Held(s, m) = Held(Tail(s), m) + (IF Head(s).mgr = m THEN 1 ELSE 0)
<1> DEFINE P == {k \in DOMAIN s : s[k].mgr = m}
           Q == {k \in DOMAIN Tail(s) : Tail(s)[k].mgr = m}
           R == P \ {1}
           f == [k \in Q |-> k + 1]
<1>1. IsFiniteSet(P) /\ Cardinality(P) \in Nat
  BY HeldNat DEF Held
<1>2. Tail(s) \in Seq(S)
  OBVIOUS
<1>3. IsFiniteSet(Q) /\ Cardinality(Q) \in Nat
  BY <1>2, HeldNat DEF Held
<1>4. \A k : k \in Q <=> k \in Nat /\ k >= 1 /\ k + 1 \in R
  OBVIOUS
<1>5. R \subseteq Nat \ {0, 1}
  OBVIOUS
<1>6. (1 \in P) <=> Head(s).mgr = m
  OBVIOUS
<1> HIDE DEF P, Q
<1>7. f \in Bijection(Q, R)
  <2>1. f \in [Q -> R]
    BY <1>4
  <2>2. \A a, b \in Q : f[a] = f[b] => a = b
    BY <1>4
  <2>3. \A t \in R : \E a \in Q : f[a] = t
    <3> TAKE t \in R
    <3>1. t - 1 \in Q /\ f[t - 1] = t
      BY <1>4, <1>5
    <3> QED
      BY <3>1
  <2> QED
    BY <2>1, <2>2, <2>3 DEF Bijection, Injection, Surjection, IsInjective
<1>8. Cardinality(R) = Cardinality(Q)
  BY <1>3, <1>7, FS_Bijection DEF ExistsBijection
<1>9. Cardinality(P) = Cardinality(R) + (IF 1 \in P THEN 1 ELSE 0)
  <2>1. Cardinality(R) = IF 1 \in P THEN Cardinality(P) - 1 ELSE Cardinality(P)
    BY <1>1, FS_RemoveElement
  <2> QED
    BY <1>1, <2>1
<1> QED
  BY <1>6, <1>8, <1>9 DEF Held, P, Q

-----------------------------------------------------------------------------
(* Three ways to change the registry, from r to s.                         *)

(* Only the mask of m differs, and it is Y. *)
OnlyMask(r, s, m, Y) ==
  /\ s.mask \in [All -> SUBSET Ops]
  /\ s.mask[m] = Y
  /\ \A x \in All \ {m} : s.mask[x] = r.mask[x]

(* Entry k polls for X. *)
Edit(r, s, k, X, Y) ==
  /\ s.pollset \in Seq(Entry) /\ Len(s.pollset) = Len(r.pollset)
  /\ \A l \in DOMAIN r.pollset \ {k} : s.pollset[l] = r.pollset[l]
  /\ s.pollset[k].mgr = r.pollset[k].mgr
  /\ s.pollset[k].revents = r.pollset[k].revents
  /\ s.pollset[k].events = X
  /\ OnlyMask(r, s, r.pollset[k].mgr, Y)

(* Entry k goes. *)
Deletion(r, s, k, Y) ==
  /\ s.pollset \in Seq(Entry) /\ Len(s.pollset) = Len(r.pollset) - 1
  /\ \A l \in 1 .. Len(r.pollset) - 1 :
       s.pollset[l] = IF l < k THEN r.pollset[l] ELSE r.pollset[l + 1]
  /\ OnlyMask(r, s, r.pollset[k].mgr, Y)

(* m gets an entry. *)
Enter(r, s, m, Y) ==
  /\ s.pollset \in Seq(Entry) /\ Len(s.pollset) = Len(r.pollset) + 1
  /\ \A l \in DOMAIN r.pollset : s.pollset[l] = r.pollset[l]
  /\ s.pollset[Len(r.pollset) + 1] = [mgr |-> m, events |-> Y, revents |-> {}]
  /\ OnlyMask(r, s, m, Y)

(* An entry that keeps polling for something registered. *)
LEMMA EditSound ==
  ASSUME NEW r, SoundReg(r), NEW s, NEW k \in DOMAIN r.pollset, NEW X, NEW Y,
         Edit(r, s, k, X, Y), X # {}, X \subseteq Y, "write" \in Y => "write" \in X
  PROVE  /\ SoundReg(s)
         /\ \A x \in All : x # r.pollset[k].mgr /\ Exact(r, x) => Exact(s, x)
         /\ X = Y => Exact(s, r.pollset[k].mgr)
<1> DEFINE m == r.pollset[k].mgr
<1>1. m \in All /\ DOMAIN s.pollset = DOMAIN r.pollset
  BY EntryType DEF SoundReg, Edit
<1>2. \A l \in DOMAIN r.pollset :
        /\ s.pollset[l].mgr = r.pollset[l].mgr
        /\ r.pollset[l].mgr \in All
        /\ l # k => s.pollset[l].events = r.pollset[l].events /\ r.pollset[l].mgr # m
  BY EntryType DEF SoundReg, Edit
<1>3. /\ s.mask \in [All -> SUBSET Ops] /\ s.mask[m] = Y /\ s.pollset[k].events = X
      /\ s.pollset \in Seq(Entry)
      /\ \A x \in All \ {m} : s.mask[x] = r.mask[x]
  BY DEF Edit, OnlyMask
<1>4. SoundReg(s)
  BY <1>1, <1>2, <1>3 DEF SoundReg
<1>5. ASSUME NEW x \in All, x # m, Exact(r, x)
      PROVE  Exact(s, x)
  BY <1>1, <1>2, <1>3, <1>5 DEF Exact
<1>6. ASSUME X = Y
      PROVE  Exact(s, m)
  BY <1>1, <1>2, <1>3, <1>6 DEF Exact
<1> QED
  BY <1>4, <1>5, <1>6

(* An entry that goes. *)
LEMMA RemoveSound ==
  ASSUME NEW r, SoundReg(r), NEW s, NEW k \in DOMAIN r.pollset, NEW Y,
         Deletion(r, s, k, Y)
  PROVE  /\ SoundReg(s)
         /\ \A x \in All : x # r.pollset[k].mgr /\ Exact(r, x) => Exact(s, x)
         /\ Y = {} => Exact(s, r.pollset[k].mgr)
<1> DEFINE m == r.pollset[k].mgr
           n == Len(r.pollset) - 1
           g(l) == IF l < k THEN l ELSE l + 1
<1>1. /\ k \in 1 .. n + 1 /\ n \in Nat
      /\ DOMAIN r.pollset = 1 .. n + 1 /\ DOMAIN s.pollset = 1 .. n
      /\ m \in All
  BY EntryType DEF SoundReg, Deletion
<1>2. \A l \in 1 .. n : g(l) \in 1 .. n + 1 /\ g(l) # k /\ s.pollset[l] = r.pollset[g(l)]
  BY <1>1 DEF Deletion
<1>3. \A l \in 1 .. n + 1 : l # k => \E h \in 1 .. n : g(h) = l
  <2> SUFFICES ASSUME NEW l \in 1 .. n + 1, l # k
               PROVE  \E h \in 1 .. n : g(h) = l
    OBVIOUS
  <2>1. CASE l < k
    BY <1>1, <2>1
  <2>2. CASE l > k
    <3>1. l - 1 \in 1 .. n /\ g(l - 1) = l
      BY <1>1, <2>2
    <3> QED
      BY <3>1
  <2> QED
    BY <1>1, <2>1, <2>2
<1>4. \A a, b \in 1 .. n : g(a) = g(b) => a = b
  BY <1>1
<1>5. /\ s.mask \in [All -> SUBSET Ops] /\ s.mask[m] = Y
      /\ s.pollset \in Seq(Entry)
      /\ \A x \in All \ {m} : s.mask[x] = r.mask[x]
  BY DEF Deletion, OnlyMask
<1>6. \A l \in 1 .. n + 1 : r.pollset[l].mgr \in All /\ (l # k => r.pollset[l].mgr # m)
  BY <1>1, EntryType DEF SoundReg
<1> HIDE DEF m, n, g
<1>7. SoundReg(s)
  <2> SUFFICES ASSUME NEW l \in 1 .. n
               PROVE  /\ s.pollset[l].events # {}
                      /\ s.pollset[l].events \subseteq s.mask[s.pollset[l].mgr]
                      /\ "write" \in s.mask[s.pollset[l].mgr] => "write" \in s.pollset[l].events
                      /\ \A h \in 1 .. n : s.pollset[h].mgr = s.pollset[l].mgr => h = l
    BY <1>1, <1>5 DEF SoundReg
  <2>1. s.pollset[l] = r.pollset[g(l)] /\ s.mask[s.pollset[l].mgr] = r.mask[s.pollset[l].mgr]
    BY <1>2, <1>5, <1>6
  <2>2. \A h \in 1 .. n : s.pollset[h].mgr = s.pollset[l].mgr => h = l
    BY <1>1, <1>2, <1>4, <2>1 DEF SoundReg
  <2> QED
    BY <1>1, <1>2, <2>1, <2>2 DEF SoundReg
<1>8. ASSUME NEW x \in All, x # m, Exact(r, x)
      PROVE  Exact(s, x)
  <2>1. s.mask[x] = r.mask[x]
    BY <1>5, <1>8
  <2>2. ASSUME NEW op \in Ops
        PROVE  (\E l \in 1 .. n + 1 : r.pollset[l].mgr = x /\ op \in r.pollset[l].events)
               <=> \E l \in 1 .. n : s.pollset[l].mgr = x /\ op \in s.pollset[l].events
    <3>1. \A l \in 1 .. n : s.pollset[l] = r.pollset[g(l)]
      BY <1>2
    <3>2. ASSUME NEW l \in 1 .. n + 1, r.pollset[l].mgr = x, op \in r.pollset[l].events
          PROVE  \E h \in 1 .. n : s.pollset[h].mgr = x /\ op \in s.pollset[h].events
      <4>1. l # k
        BY <1>8, <3>2 DEF m
      <4>2. PICK h \in 1 .. n : g(h) = l
        BY <1>3, <4>1
      <4> QED
        BY <3>1, <3>2, <4>2
    <3> QED
      BY <1>2, <3>1, <3>2
  <2> QED
    BY <1>1, <1>8, <2>1, <2>2 DEF Exact
<1>9. ASSUME Y = {}
      PROVE  Exact(s, m)
  BY <1>1, <1>2, <1>5, <1>6, <1>9, SMTT(30) DEF Exact
<1> QED
  BY <1>7, <1>8, <1>9 DEF m

(* A new entry. *)
LEMMA EnterSound ==
  ASSUME NEW r, SoundReg(r), NEW s, NEW m \in All, NEW Y, Y # {},
         Positions(r, m) = {}, Enter(r, s, m, Y)
  PROVE  /\ SoundReg(s)
         /\ \A x \in All : x # m /\ Exact(r, x) => Exact(s, x)
         /\ Exact(s, m)
<1> DEFINE n == Len(r.pollset)
<1>1. /\ n \in Nat /\ DOMAIN r.pollset = 1 .. n /\ DOMAIN s.pollset = 1 .. n + 1
      /\ \A l \in 1 .. n : r.pollset[l].mgr # m /\ r.pollset[l].mgr \in All
  BY EntryType DEF SoundReg, Enter, Positions
<1>2. \A l \in 1 .. n : s.pollset[l] = r.pollset[l]
  BY <1>1 DEF Enter
<1>3. s.pollset[n + 1].mgr = m /\ s.pollset[n + 1].events = Y
  BY DEF Enter
<1>4. /\ s.mask \in [All -> SUBSET Ops] /\ s.mask[m] = Y
      /\ s.pollset \in Seq(Entry)
      /\ \A x \in All \ {m} : s.mask[x] = r.mask[x]
  BY DEF Enter, OnlyMask
<1>5. \A l \in 1 .. n + 1 : l \in 1 .. n \/ l = n + 1
  BY <1>1
<1> HIDE DEF n
<1>6. SoundReg(s)
  <2>1. ASSUME NEW l \in 1 .. n
        PROVE  /\ s.pollset[l].events # {}
               /\ s.pollset[l].events \subseteq s.mask[s.pollset[l].mgr]
               /\ "write" \in s.mask[s.pollset[l].mgr] => "write" \in s.pollset[l].events
               /\ \A h \in 1 .. n + 1 : s.pollset[h].mgr = s.pollset[l].mgr => h = l
    BY <1>1, <1>2, <1>3, <1>4, <1>5, ZenonT(60) DEF SoundReg
  <2>2. \A h \in 1 .. n + 1 : s.pollset[h].mgr = m => h = n + 1
    BY <1>1, <1>2, <1>5
  <2> QED
    BY <1>1, <1>3, <1>4, <1>5, <2>1, <2>2 DEF SoundReg
<1>7. ASSUME NEW x \in All, x # m, Exact(r, x)
      PROVE  Exact(s, x)
  BY <1>1, <1>2, <1>3, <1>4, <1>5, <1>7 DEF Exact
<1>8. Exact(s, m)
  BY <1>1, <1>2, <1>3, <1>4, <1>5 DEF Exact
<1> QED
  BY <1>6, <1>7, <1>8

-----------------------------------------------------------------------------
(* Registration.                                                           *)

IsReg(r) == \E p, q : r = [pollset |-> p, mask |-> q]

(* The fields of a registry after a change of one of them. *)
LEMMA WithMask ==
  ASSUME NEW r, NEW p, NEW q, r = [pollset |-> p, mask |-> q], NEW m, NEW Y
  PROVE  [r EXCEPT !.mask[m] = Y] = [pollset |-> p, mask |-> [q EXCEPT ![m] = Y]]
  OBVIOUS

(* A registry that gets another pollset. *)
LEMMA WithPollset ==
  ASSUME NEW r, NEW p, NEW q, r = [pollset |-> p, mask |-> q], NEW x
  PROVE  [r EXCEPT !.pollset = x] = [pollset |-> x, mask |-> q]
  OBVIOUS

(* A mask that gets another value. *)
LEMMA MaskSet ==
  ASSUME NEW q \in [All -> SUBSET Ops], NEW m \in All, NEW Y \in SUBSET Ops
  PROVE  /\ [q EXCEPT ![m] = Y] \in [All -> SUBSET Ops]
         /\ [q EXCEPT ![m] = Y][m] = Y
         /\ \A x \in All \ {m} : [q EXCEPT ![m] = Y][x] = q[x]
  OBVIOUS

(* register_reading and register_writing do nothing, widen the entry of    *)
(* the manager or add one, and nothing at all once a shutdown began.       *)
LEMMA RegisterCases ==
  ASSUME NEW r, IsReg(r), r.pollset \in Seq(Entry), r.mask \in [All -> SUBSET Ops],
         \A k, l \in DOMAIN r.pollset : r.pollset[k].mgr = r.pollset[l].mgr => k = l,
         NEW m \in All, NEW op \in Ops
  PROVE  LET s == register(r, m, op)
         IN  /\ IsReg(s)
             /\ \/ s = r /\ (shutting_down \/ op \in r.mask[m]
                             \/ (r.mask[m] # {} /\ Positions(r, m) = {}))
                \/ /\ ~shutting_down /\ r.mask[m] # {} /\ op \notin r.mask[m]
                   /\ \E k \in DOMAIN r.pollset :
                        /\ r.pollset[k].mgr = m
                        /\ Edit(r, s, k, r.pollset[k].events \cup {op}, r.mask[m] \cup {op})
                \/ ~shutting_down /\ r.mask[m] = {} /\ Enter(r, s, m, {op})
<1>0. PICK p, q0 : r = [pollset |-> p, mask |-> q0]
  BY DEF IsReg
<1> DEFINE q == [q0 EXCEPT ![m] = @ \cup {op}]
           t == [pollset |-> p, mask |-> q]
<1>1. /\ [r EXCEPT !.mask[m] = @ \cup {op}] = t
      /\ r.pollset = p /\ r.mask = q0
      /\ p \in Seq(Entry) /\ q0 \in [All -> SUBSET Ops]
  <2>1. r.pollset = p /\ r.mask = q0
    BY <1>0
  <2>2. [r EXCEPT !.mask[m] = q0[m] \cup {op}] = t
    <3>1. \A Y : [r EXCEPT !.mask[m] = Y] = [pollset |-> p, mask |-> [q0 EXCEPT ![m] = Y]]
      BY <1>0, WithMask
    <3> QED
      BY <3>1
  <2> HIDE DEF t
  <2> QED
    BY <2>1, <2>2
<1>2. /\ q \in [All -> SUBSET Ops] /\ q[m] = r.mask[m] \cup {op}
      /\ \A x \in All \ {m} : q[x] = r.mask[x]
  BY <1>1, MaskSet
<1>3. CASE shutting_down \/ op \in r.mask[m]
  BY <1>3 DEF register
<1>4. CASE ~shutting_down /\ op \notin r.mask[m] /\ r.mask[m] = {}
  <2> DEFINE e == [mgr |-> m, events |-> {op}, revents |-> {}]
  <2>1. register(r, m, op) = [pollset |-> Append(p, e), mask |-> q]
    <3>1. t = [pollset |-> p, mask |-> q]
      OBVIOUS
    <3>2. t.pollset = p /\ t.mask = q
      OBVIOUS
    <3>3. t.mask[m] = {op}
      BY <1>1, <1>2, <1>4
    <3> HIDE DEF t, q, e
    <3>4. [t EXCEPT !.pollset = Append(p, e)] = [pollset |-> Append(p, e), mask |-> q]
      BY <3>1, WithPollset
    <3>5. register(r, m, op) = add(t, m)
      BY <1>1, <1>4 DEF register
    <3>6. add(t, m) = [t EXCEPT !.pollset = Append(p, e)]
      BY <3>2, <3>3 DEF add, e
    <3> QED
      BY <3>4, <3>5, <3>6
  <2>2. e \in Entry
    BY DEF Entry
  <2>3. /\ Append(p, e) \in Seq(Entry) /\ Len(Append(p, e)) = Len(p) + 1
        /\ \A l \in DOMAIN p : Append(p, e)[l] = p[l]
        /\ Append(p, e)[Len(p) + 1] = e
    BY <1>1, <2>2
  <2> HIDE DEF q, e
  <2>4. Enter(r, register(r, m, op), m, {op})
    BY <1>1, <1>2, <1>4, <2>1, <2>3 DEF Enter, OnlyMask, e
  <2> QED
    BY <1>4, <2>1, <2>4 DEF IsReg
<1>5. CASE ~shutting_down /\ op \notin r.mask[m] /\ r.mask[m] # {} /\ Positions(r, m) = {}
  BY <1>5 DEF register
<1>6. CASE ~shutting_down /\ op \notin r.mask[m] /\ r.mask[m] # {} /\ Positions(r, m) # {}
  <2> DEFINE g == [k \in DOMAIN p |-> IF p[k].mgr = m
                                      THEN [p[k] EXCEPT !.events = @ \cup {op}] ELSE p[k]]
  <2>1. register(r, m, op) = [pollset |-> g, mask |-> q]
    <3>1. t = [pollset |-> p, mask |-> q]
      OBVIOUS
    <3>2. t.pollset = p
      OBVIOUS
    <3> HIDE DEF t, q
    <3>3. register(r, m, op) = [t EXCEPT !.pollset = Widen(t.pollset, m, op)]
      BY <1>1, <1>6 DEF register
    <3>4. register(r, m, op) = [t EXCEPT !.pollset = g]
      BY <3>2, <3>3 DEF Widen
    <3> HIDE DEF g
    <3> QED
      BY <3>1, <3>4, WithPollset
  <2>2. PICK k \in DOMAIN p : p[k].mgr = m
    BY <1>1, <1>6 DEF Positions
  <2>3. DOMAIN p = 1 .. Len(p) /\ Len(p) \in Nat
    BY <1>1, EntryType
  <2>4. \A l \in DOMAIN p \ {k} : g[l] = p[l] /\ p[l] \in Entry
    BY <1>1, <2>2, EntryType
  <2>5. /\ g[k] \in Entry /\ g[k].mgr = m /\ g[k].revents = p[k].revents
        /\ g[k].events = p[k].events \cup {op}
    <3>1. p[k] \in Entry
      BY <1>1, EntryType
    <3>2. g[k] = [p[k] EXCEPT !.events = @ \cup {op}]
      BY <2>2
    <3> HIDE DEF g
    <3> QED
      BY <2>2, <3>1, <3>2 DEF Entry
  <2>6. g \in [1 .. Len(p) -> Entry]
    BY <2>3, <2>4, <2>5
  <2>7. g \in Seq(Entry) /\ Len(g) = Len(p)
    <3> HIDE DEF g
    <3> QED
      BY <2>3, <2>6
  <2> HIDE DEF g, q
  <2>8. Edit(r, register(r, m, op), k, p[k].events \cup {op}, r.mask[m] \cup {op})
    BY <1>1, <1>2, <2>1, <2>2, <2>4, <2>5, <2>7 DEF Edit, OnlyMask
  <2> QED
    BY <1>1, <1>6, <2>1, <2>2, <2>8 DEF IsReg
<1> QED
  BY <1>3, <1>4, <1>5, <1>6

(* What registration for m leaves as it was: places and results of poll(). *)
Grown(r, s, m) ==
  /\ Len(s.pollset) >= Len(r.pollset)
  /\ \A k \in DOMAIN r.pollset :
       /\ s.pollset[k].mgr = r.pollset[k].mgr
       /\ s.pollset[k].revents = r.pollset[k].revents
       /\ r.pollset[k].events \subseteq s.pollset[k].events
  /\ \A k \in DOMAIN s.pollset \ DOMAIN r.pollset :
       s.pollset[k].mgr = m /\ s.pollset[k].revents = {}
  /\ \A x \in All \ {m} : s.mask[x] = r.mask[x]
  /\ shutting_down => s = r

(* Registration keeps the registry sound. *)
LEMMA RegisterSound ==
  ASSUME NEW r, IsReg(r), SoundReg(r), NEW m \in All, NEW op \in Ops
  PROVE  LET s == register(r, m, op)
         IN  /\ IsReg(s) /\ SoundReg(s) /\ Grown(r, s, m)
             /\ \A x \in All : Exact(r, x) => Exact(s, x)
<1> DEFINE s == register(r, m, op)
           C1 == s = r
           C2 == /\ ~shutting_down /\ r.mask[m] # {} /\ op \notin r.mask[m]
                 /\ \E k \in DOMAIN r.pollset :
                      /\ r.pollset[k].mgr = m
                      /\ Edit(r, s, k, r.pollset[k].events \cup {op}, r.mask[m] \cup {op})
           C3 == ~shutting_down /\ r.mask[m] = {} /\ Enter(r, s, m, {op})
<1> SUFFICES /\ IsReg(s) /\ SoundReg(s) /\ Grown(r, s, m)
             /\ \A x \in All : Exact(r, x) => Exact(s, x)
  OBVIOUS
<1>1. IsReg(s) /\ (C1 \/ C2 \/ C3)
  BY RegisterCases DEF SoundReg
<1>2. r.pollset \in Seq(Entry) /\ DOMAIN r.pollset = 1 .. Len(r.pollset) /\ Len(r.pollset) \in Nat
  BY EntryType DEF SoundReg
<1> HIDE DEF s
<1>3. CASE C1
  BY <1>1, <1>2, <1>3 DEF Grown
<1>4. CASE C2
  <2>1. PICK k \in DOMAIN r.pollset :
          /\ r.pollset[k].mgr = m
          /\ Edit(r, s, k, r.pollset[k].events \cup {op}, r.mask[m] \cup {op})
    BY <1>4
  <2> DEFINE X == r.pollset[k].events \cup {op}
             Y == r.mask[m] \cup {op}
  <2>2. X # {} /\ X \subseteq Y /\ ("write" \in Y => "write" \in X)
    BY <2>1 DEF SoundReg
  <2>3. /\ SoundReg(s)
        /\ \A x \in All : x # m /\ Exact(r, x) => Exact(s, x)
        /\ X = Y => Exact(s, m)
    <3>1. Edit(r, s, k, X, Y) /\ r.pollset[k].mgr = m
      BY <2>1
    <3> HIDE DEF X, Y
    <3> QED
      BY <2>2, <3>1, EditSound
  <2>4. Exact(r, m) => X = Y
    <3>1. r.pollset[k].events \subseteq Ops /\ r.mask[m] \subseteq Ops
      BY <1>2, EntryType DEF SoundReg
    <3>2. Exact(r, m) => r.mask[m] = r.pollset[k].events
      BY <2>1, <3>1 DEF Exact, SoundReg
    <3> QED
      BY <3>2
  <2>5. Grown(r, s, m)
    <3>1. \A l \in DOMAIN r.pollset : l # k => s.pollset[l] = r.pollset[l]
      BY <2>1 DEF Edit
    <3>2. /\ s.pollset \in Seq(Entry) /\ Len(s.pollset) = Len(r.pollset)
          /\ s.pollset[k].mgr = r.pollset[k].mgr
          /\ s.pollset[k].revents = r.pollset[k].revents
          /\ s.pollset[k].events = r.pollset[k].events \cup {op}
          /\ \A x \in All \ {m} : s.mask[x] = r.mask[x]
      BY <2>1 DEF Edit, OnlyMask
    <3>3. DOMAIN s.pollset = DOMAIN r.pollset
      BY <1>2, <3>2
    <3> QED
      BY <1>2, <1>4, <3>1, <3>2, <3>3 DEF Grown
  <2> HIDE DEF X, Y
  <2> QED
    BY <1>1, <2>3, <2>4, <2>5
<1>5. CASE C3
  <2>1. Positions(r, m) = {}
    BY <1>5 DEF Positions, SoundReg
  <2>2. /\ SoundReg(s)
        /\ \A x \in All : x # m /\ Exact(r, x) => Exact(s, x)
        /\ Exact(s, m)
    BY <1>5, <2>1, EnterSound
  <2>3. Grown(r, s, m)
    <3>1. /\ s.pollset \in Seq(Entry) /\ Len(s.pollset) = Len(r.pollset) + 1
          /\ \A l \in DOMAIN r.pollset : s.pollset[l] = r.pollset[l]
          /\ s.pollset[Len(r.pollset) + 1].mgr = m
          /\ s.pollset[Len(r.pollset) + 1].revents = {}
          /\ \A x \in All \ {m} : s.mask[x] = r.mask[x]
      BY <1>5 DEF Enter, OnlyMask
    <3>2. \A k \in DOMAIN s.pollset \ DOMAIN r.pollset : k = Len(r.pollset) + 1
      BY <1>2, <3>1
    <3> QED
      BY <1>2, <1>5, <3>1, <3>2 DEF Grown
  <2> QED
    BY <1>1, <2>2, <2>3
<1> QED
  BY <1>1, <1>3, <1>4, <1>5

(* The same for the calls of one handler. *)
LEMMA RegisterAllSound ==
  ASSUME NEW r, IsReg(r), SoundReg(r), NEW m \in All, NEW ops
  PROVE  LET s == RegisterAll(r, m, ops)
         IN  /\ IsReg(s) /\ SoundReg(s) /\ Grown(r, s, m)
             /\ \A x \in All : Exact(r, x) => Exact(s, x)
<1> DEFINE t == IF "read" \in ops THEN register(r, m, "read") ELSE r
           s == IF "write" \in ops THEN register(t, m, "write") ELSE t
<1>1. "read" \in Ops /\ "write" \in Ops
  BY DEF Ops
<1>2. Grown(r, r, m)
  BY EntryType DEF Grown, SoundReg
<1>3. /\ IsReg(t) /\ SoundReg(t) /\ Grown(r, t, m)
      /\ \A x \in All : Exact(r, x) => Exact(t, x)
  BY <1>1, <1>2, RegisterSound
<1> HIDE DEF t
<1>4. Grown(t, t, m)
  BY <1>3, EntryType DEF Grown, SoundReg
<1>5. /\ IsReg(s) /\ SoundReg(s) /\ Grown(t, s, m)
      /\ \A x \in All : Exact(t, x) => Exact(s, x)
  BY <1>1, <1>3, <1>4, RegisterSound
<1> HIDE DEF s
<1>6. Grown(r, s, m)
  <2>1. r.pollset \in Seq(Entry) /\ t.pollset \in Seq(Entry) /\ s.pollset \in Seq(Entry)
    BY <1>3, <1>5 DEF SoundReg
  <2>2. /\ DOMAIN r.pollset = 1 .. Len(r.pollset) /\ Len(r.pollset) \in Nat
        /\ DOMAIN t.pollset = 1 .. Len(t.pollset) /\ Len(t.pollset) \in Nat
        /\ DOMAIN s.pollset = 1 .. Len(s.pollset) /\ Len(s.pollset) \in Nat
    BY <2>1, EntryType
  <2> QED
    BY <1>3, <1>5, <2>2 DEF Grown
<1>7. s = RegisterAll(r, m, ops)
  BY DEF s, t, RegisterAll
<1> QED
  BY <1>3, <1>5, <1>6, <1>7

-----------------------------------------------------------------------------
(* Handlers: all that they do concerns one entry.                          *)

(* Other events for an entry. *)
Repoll(p, k, X) == [p EXCEPT ![k].events = X]

(* An entry that polls for other events. *)
LEMMA WithEvents ==
  ASSUME NEW p \in Seq(Entry), NEW k \in DOMAIN p, NEW X \in SUBSET Ops
  PROVE  /\ Repoll(p, k, X) \in Seq(Entry) /\ Len(Repoll(p, k, X)) = Len(p)
         /\ \A l \in DOMAIN p \ {k} : Repoll(p, k, X)[l] = p[l]
         /\ Repoll(p, k, X)[k].mgr = p[k].mgr
         /\ Repoll(p, k, X)[k].revents = p[k].revents
         /\ Repoll(p, k, X)[k].events = X
<1> DEFINE g == [p EXCEPT ![k].events = X]
<1>1. p[k] \in Entry /\ Len(p) \in Nat /\ DOMAIN p = 1 .. Len(p)
  BY EntryType
<1>2. g[k] = [p[k] EXCEPT !.events = X]
  OBVIOUS
<1>3. \A l \in DOMAIN p \ {k} : g[l] = p[l] /\ p[l] \in Entry
  BY EntryType
<1>4. DOMAIN g = 1 .. Len(p) /\ g = [l \in 1 .. Len(p) |-> g[l]]
  BY <1>1
<1> HIDE DEF g
<1>5. g[k] \in Entry /\ g[k].mgr = p[k].mgr /\ g[k].revents = p[k].revents /\ g[k].events = X
  BY <1>1, <1>2 DEF Entry
<1>6. g \in [1 .. Len(p) -> Entry]
  BY <1>1, <1>3, <1>4, <1>5
<1>7. g \in Seq(Entry) /\ Len(g) = Len(p)
  BY <1>1, <1>6
<1> QED
  BY <1>3, <1>5, <1>7 DEF g, Repoll

(* Events and mask after the manager registered ops. *)
WiderEvents(X, Y, ops) == IF shutting_down THEN X ELSE X \cup (ops \ Y)
WiderMask(Y, ops) == IF shutting_down THEN Y ELSE Y \cup ops

(* Registration out of a handler: r differs from r0 in entry k only.       *)
LEMMA RegisterEdit ==
  ASSUME NEW r0, SoundReg(r0), NEW k \in DOMAIN r0.pollset,
         NEW X, NEW Y, NEW r, IsReg(r), Edit(r0, r, k, X, Y),
         shutting_down \/ Y # {}, NEW op \in Ops
  PROVE  LET s == register(r, r0.pollset[k].mgr, op)
         IN  IsReg(s) /\ Edit(r0, s, k, WiderEvents(X, Y, {op}), WiderMask(Y, {op}))
<1> DEFINE m == r0.pollset[k].mgr
           s == register(r, m, op)
<1>1. /\ r.pollset \in Seq(Entry) /\ Len(r.pollset) = Len(r0.pollset)
      /\ \A l \in DOMAIN r0.pollset \ {k} : r.pollset[l] = r0.pollset[l]
      /\ r.pollset[k].mgr = m
      /\ r.pollset[k].revents = r0.pollset[k].revents
      /\ r.pollset[k].events = X
      /\ r.mask \in [All -> SUBSET Ops] /\ r.mask[m] = Y
      /\ \A x \in All \ {m} : r.mask[x] = r0.mask[x]
  BY DEF Edit, OnlyMask
<1>2. m \in All /\ DOMAIN r0.pollset = 1 .. Len(r0.pollset)
  BY EntryType DEF SoundReg
<1>3. DOMAIN r.pollset = DOMAIN r0.pollset
  BY <1>1, <1>2, EntryType
<1>4. \A l \in DOMAIN r.pollset : l # k => r.pollset[l].mgr # m
  BY <1>1, <1>3 DEF SoundReg
<1>5. \A a, b \in DOMAIN r.pollset : r.pollset[a].mgr = r.pollset[b].mgr => a = b
  BY <1>1, <1>3, <1>4 DEF SoundReg
<1>6. Positions(r, m) # {}
  BY <1>1, <1>3 DEF Positions
<1> DEFINE C1 == s = r /\ (shutting_down \/ op \in r.mask[m]
                           \/ (r.mask[m] # {} /\ Positions(r, m) = {}))
           C2 == /\ ~shutting_down /\ r.mask[m] # {} /\ op \notin r.mask[m]
                 /\ \E l \in DOMAIN r.pollset :
                      /\ r.pollset[l].mgr = m
                      /\ Edit(r, s, l, r.pollset[l].events \cup {op}, r.mask[m] \cup {op})
           C3 == ~shutting_down /\ r.mask[m] = {} /\ Enter(r, s, m, {op})
<1>7. IsReg(s) /\ (C1 \/ C2 \/ C3)
  BY <1>1, <1>2, <1>5, RegisterCases
<1> SUFFICES IsReg(s) /\ Edit(r0, s, k, WiderEvents(X, Y, {op}), WiderMask(Y, {op}))
  OBVIOUS
<1> HIDE DEF s
<1>8. CASE C1
  <2>1. WiderEvents(X, Y, {op}) = X /\ WiderMask(Y, {op}) = Y
    BY <1>1, <1>6, <1>8 DEF WiderEvents, WiderMask
  <2> QED
    BY <1>7, <1>8, <2>1
<1>9. CASE C2
  <2>1. Edit(r, s, k, X \cup {op}, Y \cup {op})
    BY <1>1, <1>4, <1>9
  <2>2. WiderEvents(X, Y, {op}) = X \cup {op} /\ WiderMask(Y, {op}) = Y \cup {op}
    BY <1>1, <1>9 DEF WiderEvents, WiderMask
  <2>3. Edit(r0, s, k, X \cup {op}, Y \cup {op})
    BY <1>1, <1>2, <1>3, <2>1 DEF Edit, OnlyMask
  <2> QED
    BY <1>7, <2>2, <2>3
<1>10. CASE C3
  BY <1>1, <1>10
<1> QED
  BY <1>7, <1>8, <1>9, <1>10

(* Requests of one handler change the entry of its manager. *)
LEMMA RegisterAllEdit ==
  ASSUME NEW r0, SoundReg(r0), NEW k \in DOMAIN r0.pollset,
         NEW X, NEW Y, NEW r, IsReg(r), Edit(r0, r, k, X, Y),
         shutting_down \/ Y # {}, NEW ops \in SUBSET Ops
  PROVE  LET s == RegisterAll(r, r0.pollset[k].mgr, ops)
         IN  IsReg(s) /\ Edit(r0, s, k, WiderEvents(X, Y, ops), WiderMask(Y, ops))
<1> DEFINE m == r0.pollset[k].mgr
           a == ops \cap {"read"}
           b == ops \cap {"write"}
           t == IF "read" \in ops THEN register(r, m, "read") ELSE r
           s == IF "write" \in ops THEN register(t, m, "write") ELSE t
<1>1. /\ "read" \in Ops /\ "write" \in Ops /\ ops = a \cup b
      /\ "read" \in ops => a = {"read"}
      /\ "read" \notin ops => a = {}
      /\ "write" \in ops => b = {"write"}
      /\ "write" \notin ops => b = {}
      /\ b \cap a = {}
  BY DEF Ops
<1>2. \A U, V : WiderEvents(U, V, {}) = U /\ WiderMask(V, {}) = V
  BY DEF WiderEvents, WiderMask
<1> DEFINE X1 == WiderEvents(X, Y, a)
           Y1 == WiderMask(Y, a)
<1>3. IsReg(t) /\ Edit(r0, t, k, X1, Y1)
  <2>1. CASE "read" \in ops
    BY <1>1, <2>1, RegisterEdit
  <2>2. CASE "read" \notin ops
    BY <1>1, <1>2, <2>2
  <2> QED
    BY <2>1, <2>2
<1>4. shutting_down \/ Y1 # {}
  BY DEF WiderMask
<1>5. WiderEvents(X1, Y1, b) = WiderEvents(X, Y, ops) /\ WiderMask(Y1, b) = WiderMask(Y, ops)
  BY <1>1 DEF WiderEvents, WiderMask
<1> HIDE DEF t, X1, Y1, a, b
<1>6. IsReg(s) /\ Edit(r0, s, k, WiderEvents(X1, Y1, b), WiderMask(Y1, b))
  <2>1. CASE "write" \in ops
    BY <1>1, <1>3, <1>4, <2>1, RegisterEdit
  <2>2. CASE "write" \notin ops
    BY <1>1, <1>2, <1>3, <2>2
  <2> QED
    BY <2>1, <2>2
<1>7. RegisterAll(r, m, ops) = s
  BY DEF RegisterAll, t
<1> QED
  BY <1>5, <1>6, <1>7

(* mask_del *)
LEMMA MaskDelEdit ==
  ASSUME NEW r0, SoundReg(r0), NEW k \in DOMAIN r0.pollset,
         NEW X, NEW Y, NEW r, IsReg(r), Edit(r0, r, k, X, Y), NEW ops
  PROVE  LET s == mask_del(r, r0.pollset[k].mgr, ops)
         IN  IsReg(s) /\ Edit(r0, s, k, X, Y \ ops)
<1> DEFINE m == r0.pollset[k].mgr
<1>1. PICK p, q : r = [pollset |-> p, mask |-> q]
  BY DEF IsReg
<1>2. r.pollset = p /\ r.mask = q
  BY <1>1
<1>3. m \in All
  BY EntryType DEF SoundReg
<1>4. q \in [All -> SUBSET Ops] /\ q[m] = Y /\ \A x \in All \ {m} : q[x] = r0.mask[x]
  BY <1>2 DEF Edit, OnlyMask
<1> DEFINE q1 == [q EXCEPT ![m] = Y \ ops]
<1>5. /\ q1 \in [All -> SUBSET Ops] /\ q1[m] = Y \ ops
      /\ \A x \in All \ {m} : q1[x] = r0.mask[x]
  BY <1>3, <1>4
<1>6. \A Z : [r EXCEPT !.mask[m] = Z] = [pollset |-> p, mask |-> [q EXCEPT ![m] = Z]]
  BY <1>1, WithMask
<1>7. mask_del(r, m, ops) = [pollset |-> p, mask |-> q1]
  BY <1>2, <1>4, <1>6 DEF mask_del
<1> HIDE DEF q1
<1>8. Edit(r0, mask_del(r, m, ops), k, X, Y \ ops)
  BY <1>2, <1>5, <1>7 DEF Edit, OnlyMask
<1> QED
  BY <1>7, <1>8 DEF IsReg

(* One branch of handle(). *)
LEMMA DispatchEdit ==
  ASSUME NEW r0, SoundReg(r0), NEW k \in DOMAIN r0.pollset,
         NEW X, NEW Y, NEW r, IsReg(r), Edit(r0, r, k, X, Y),
         NEW op \in Ops, NEW revents, NEW o \in Outcome,
         op \in revents => shutting_down \/ Y # {}
  PROVE  LET s == Dispatch(r, r0.pollset[k].mgr, op, revents, o)
         IN  /\ IsReg(s)
             /\ op \notin revents => Edit(r0, s, k, X, Y)
             /\ op \in revents =>
                  Edit(r0, s, k, WiderEvents(X, Y, o.ops),
                       WiderMask(Y, o.ops) \ (IF o.stay THEN {} ELSE {op}))
<1> DEFINE m == r0.pollset[k].mgr
           t == RegisterAll(r, m, o.ops)
           X1 == WiderEvents(X, Y, o.ops)
           Y1 == WiderMask(Y, o.ops)
<1>1. o.ops \in SUBSET Ops
  BY DEF Outcome
<1>2. CASE op \notin revents
  BY <1>2 DEF Dispatch
<1>3. CASE op \in revents
  <2>1. IsReg(t) /\ Edit(r0, t, k, X1, Y1)
    BY <1>1, <1>3, RegisterAllEdit
  <2>2. Dispatch(r, m, op, revents, o) = IF o.stay THEN t ELSE mask_del(t, m, {op})
    BY <1>3 DEF Dispatch
  <2>3. Y1 \ {} = Y1
    OBVIOUS
  <2> HIDE DEF t, X1, Y1
  <2>4. IsReg(mask_del(t, m, {op})) /\ Edit(r0, mask_del(t, m, {op}), k, X1, Y1 \ {op})
    BY <2>1, MaskDelEdit
  <2>5. CASE o.stay
    BY <1>3, <2>1, <2>2, <2>3, <2>5 DEF X1, Y1
  <2>6. CASE ~o.stay
    BY <1>3, <2>2, <2>4, <2>6 DEF X1, Y1
  <2> QED
    BY <2>5, <2>6
<1> QED
  BY <1>2, <1>3

(* del *)
LEMMA DelRemove ==
  ASSUME NEW r0, SoundReg(r0), NEW k \in DOMAIN r0.pollset,
         NEW X, NEW Y, NEW r, IsReg(r), Edit(r0, r, k, X, Y)
  PROVE  IsReg(del(r, k)) /\ Deletion(r0, del(r, k), k, Y)
<1>1. PICK p, q : r = [pollset |-> p, mask |-> q]
  BY DEF IsReg
<1>2. r.pollset = p /\ r.mask = q
  BY <1>1
<1>3. DOMAIN r0.pollset = 1 .. Len(r0.pollset) /\ Len(r0.pollset) \in Nat
  BY EntryType DEF SoundReg
<1>4. /\ p \in Seq(Entry) /\ Len(p) = Len(r0.pollset)
      /\ \A l \in DOMAIN r0.pollset \ {k} : p[l] = r0.pollset[l]
  BY <1>2 DEF Edit
<1>5. k \in DOMAIN p
  BY <1>3, <1>4, EntryType
<1>6. /\ RemoveAt(p, k) \in Seq(Entry)
      /\ Len(RemoveAt(p, k)) = Len(p) - 1
      /\ \A l \in 1 .. Len(p) - 1 : RemoveAt(p, k)[l] = IF l < k THEN p[l] ELSE p[l + 1]
  BY <1>4, <1>5, RemoveAtProps
<1>7. \A l \in 1 .. Len(r0.pollset) - 1 :
        RemoveAt(p, k)[l] = IF l < k THEN r0.pollset[l] ELSE r0.pollset[l + 1]
  <2> TAKE l \in 1 .. Len(r0.pollset) - 1
  <2>1. RemoveAt(p, k)[l] = IF l < k THEN p[l] ELSE p[l + 1]
    BY <1>4, <1>6
  <2>2. CASE l < k
    BY <1>3, <1>4, <2>1, <2>2
  <2>3. CASE ~(l < k)
    <3>1. l + 1 \in DOMAIN r0.pollset \ {k}
      BY <1>3, <2>3
    <3> QED
      BY <1>4, <2>1, <2>3, <3>1
  <2> QED
    BY <2>2, <2>3
<1>8. \A x : [r EXCEPT !.pollset = x] = [pollset |-> x, mask |-> q]
  BY <1>1, WithPollset
<1>9. del(r, k) = [pollset |-> RemoveAt(p, k), mask |-> q]
  BY <1>2, <1>8 DEF del
<1>10. Deletion(r0, del(r, k), k, Y)
  BY <1>2, <1>4, <1>6, <1>7, <1>9 DEF Deletion, Edit, OnlyMask
<1> QED
  BY <1>9, <1>10 DEF IsReg

(* What poll_once does with the result of handle(). *)
LEMMA ApplyEdit ==
  ASSUME NEW r0, SoundReg(r0), NEW k \in DOMAIN r0.pollset,
         NEW X, NEW Y, NEW r, IsReg(r), Edit(r0, r, k, X, Y),
         NEW E, NEW F \in SUBSET Ops
  PROVE  LET s == ApplyEvents(r, k, E, F)
         IN  /\ F = {} => Deletion(r0, s, k, Y)
             /\ F # {} => Edit(r0, s, k, IF F = E THEN X ELSE F, Y)
             /\ IsReg(s)
<1>1. CASE F = {}
  BY <1>1, DelRemove DEF ApplyEvents
<1>2. CASE F # {} /\ F = E
  BY <1>2 DEF ApplyEvents
<1>3. CASE F # {} /\ F # E
  <2>1. PICK p, q : r = [pollset |-> p, mask |-> q]
    BY DEF IsReg
  <2>2. r.pollset = p /\ r.mask = q
    BY <2>1
  <2>3. DOMAIN r0.pollset = 1 .. Len(r0.pollset) /\ Len(r0.pollset) \in Nat
    BY EntryType DEF SoundReg
  <2>4. p \in Seq(Entry) /\ Len(p) = Len(r0.pollset)
    BY <2>2 DEF Edit
  <2>5. DOMAIN p = DOMAIN r0.pollset
    BY <2>3, <2>4, EntryType
  <2> DEFINE g == Repoll(p, k, F)
  <2>6. /\ [r EXCEPT !.pollset[k].events = F] = [pollset |-> g, mask |-> q]
        /\ g \in Seq(Entry) /\ Len(g) = Len(p)
        /\ \A l \in DOMAIN p \ {k} : g[l] = p[l]
        /\ g[k].mgr = p[k].mgr /\ g[k].revents = p[k].revents /\ g[k].events = F
    <3>1. [r EXCEPT !.pollset[k].events = F] = [pollset |-> g, mask |-> q]
      BY <2>1 DEF Repoll
    <3>2. /\ g \in Seq(Entry) /\ Len(g) = Len(p)
          /\ \A l \in DOMAIN p \ {k} : g[l] = p[l]
          /\ g[k].mgr = p[k].mgr /\ g[k].revents = p[k].revents /\ g[k].events = F
      BY <2>4, <2>5, WithEvents
    <3> HIDE DEF g
    <3> QED
      BY <3>1, <3>2
  <2>7. ApplyEvents(r, k, E, F) = [r EXCEPT !.pollset[k].events = F]
    BY <1>3 DEF ApplyEvents
  <2> HIDE DEF g
  <2>8. Edit(r0, [pollset |-> g, mask |-> q], k, F, Y)
    BY <2>2, <2>4, <2>5, <2>6 DEF Edit, OnlyMask
  <2> QED
    BY <1>3, <2>6, <2>7, <2>8 DEF IsReg
<1> QED
  BY <1>1, <1>2, <1>3

(* The registry differs from itself in nothing. *)
LEMMA EditNothing ==
  ASSUME NEW r, SoundReg(r), NEW k \in DOMAIN r.pollset
  PROVE  Edit(r, r, k, r.pollset[k].events, r.mask[r.pollset[k].mgr])
  BY DEF Edit, OnlyMask, SoundReg

(* Handle: the entry keeps polling for something registered or goes.  Only *)
(* a manager that registered something and asked to stop in the same event *)
(* is left with a mask of which the pollset does not know.                 *)
LEMMA HandleCases ==
  ASSUME MpxInv, NEW m \in Managers, Handle(m)
  PROVE  /\ mpx.i \in DOMAIN pollset /\ pollset[mpx.i].mgr = m
         /\ torn' \in {torn, torn \cup {m}}
         /\ \E X, Y :
              \/ /\ Edit(Registry, Registry', mpx.i, X, Y) /\ mpx'.i = mpx.i + 1
                 /\ X # {} /\ X \subseteq Y /\ ("write" \in Y => "write" \in X)
                 /\ shutting_down => X \subseteq pollset[mpx.i].events
                 /\ m \notin torn' => X = Y
              \/ /\ Deletion(Registry, Registry', mpx.i, Y) /\ mpx'.i = mpx.i
                 /\ m \notin torn' => Y = {}
<1> DEFINE i == mpx.i
           E == pollset[i].events
           V == pollset[i].revents
           M == mask[m]
<1>1. SoundReg(Registry) /\ Asked /\ Phases /\ TypeOK
  BY DEF MpxInv
<1>2. Registry.pollset = pollset /\ Registry.mask = mask /\ IsReg(Registry)
  BY DEF Registry, IsReg
<1>3. i \in DOMAIN pollset /\ pollset[i].mgr = m /\ V \cap Ops # {}
  <2>1. mpx.i \in Nat
    BY <1>1 DEF TypeOK
  <2> QED
    BY <1>1, <1>2, <2>1, EntryType DEF Handle, Scanning, Phases, SoundReg
<1>4. /\ E \subseteq Ops /\ E # {} /\ E \subseteq M /\ M \subseteq Ops
      /\ "write" \in M => "write" \in E
      /\ V \subseteq Ops
  <2>1. V \in (SUBSET Ops) \cup {{"error"}} /\ E \subseteq Ops
    BY <1>1, <1>2, <1>3, EntryType DEF SoundReg
  <2>2. m \in All /\ mask \in [All -> SUBSET Ops]
    BY <1>1 DEF All, TypeOK
  <2>3. V \subseteq Ops
    <3>1. {"error"} \cap Ops = {}
      BY DEF Ops
    <3> QED
      BY <1>3, <2>1, <3>1, Zenon
  <2>4. E # {} /\ E \subseteq M /\ ("write" \in M => "write" \in E)
    BY <1>1, <1>2, <1>3 DEF SoundReg
  <2> QED
    BY <2>1, <2>2, <2>3, <2>4
<1>5. ~shutting_down => V \subseteq E
  <2>1. mpx.i >= mpx.i
    BY <1>1 DEF TypeOK
  <2>2. ~shutting_down => V \cap Ops \subseteq E
    BY <1>1, <1>3, <2>1 DEF Asked
  <2> QED
    BY <1>4, <2>2
<1>6. m \notin torn => M = E
  <2>1. m \notin torn => Exact(Registry, m)
    BY DEF MpxInv
  <2>2. \A k \in DOMAIN pollset : pollset[k].mgr = m => k = i
    BY <1>1, <1>2, <1>3 DEF SoundReg
  <2>3. Exact(Registry, m) => \A op \in Ops : op \in M <=> op \in E
    BY <1>2, <1>3, <2>2 DEF Exact
  <2> QED
    BY <1>4, <2>1, <2>3
<1>7. PICK rd \in Outcome, wr \in Outcome : HandleReady(m, rd, wr)
  BY DEF Handle
<1> DEFINE S == {op \in V : ~(IF op = "read" THEN rd ELSE wr).stay}
           r1 == Dispatch(Registry, m, "read", V, rd)
           r2 == Dispatch(r1, m, "write", V, wr)
           F == E \ S
           s == ApplyEvents(r2, i, E, F)
<1>8. /\ "read" \notin V => rd = [ops |-> {}, stay |-> TRUE]
      /\ "write" \notin V => wr = [ops |-> {}, stay |-> TRUE]
      /\ torn' = IF S # {} /\ rd.ops \cup wr.ops # {} THEN torn \cup {m} ELSE torn
      /\ Install(s) /\ NextIndex(F)
  BY <1>7 DEF HandleReady
<1> DEFINE X1 == IF "read" \in V THEN WiderEvents(E, M, rd.ops) ELSE E
           Y1 == IF "read" \in V THEN WiderMask(M, rd.ops) \ (IF rd.stay THEN {} ELSE {"read"})
                 ELSE M
           X2 == IF "write" \in V THEN WiderEvents(X1, Y1, wr.ops) ELSE X1
           Y2 == IF "write" \in V THEN WiderMask(Y1, wr.ops) \ (IF wr.stay THEN {} ELSE {"write"})
                 ELSE Y1
<1>9. rd.ops \subseteq Ops /\ wr.ops \subseteq Ops /\ rd.stay \in BOOLEAN /\ wr.stay \in BOOLEAN
  BY DEF Outcome
<1>10. Edit(Registry, Registry, i, E, M)
  BY <1>1, <1>2, <1>3, EditNothing
<1>11. IsReg(r1) /\ Edit(Registry, r1, i, X1, Y1)
  <2>1. M # {} /\ "read" \in Ops
    BY <1>4 DEF Ops
  <2> HIDE DEF E, V, M
  <2>2. /\ IsReg(r1)
        /\ "read" \notin V => Edit(Registry, r1, i, E, M)
        /\ "read" \in V => Edit(Registry, r1, i, WiderEvents(E, M, rd.ops),
                                WiderMask(M, rd.ops) \ (IF rd.stay THEN {} ELSE {"read"}))
    BY <1>1, <1>2, <1>3, <1>10, <2>1, DispatchEdit
  <2> HIDE DEF r1
  <2> QED
    BY <2>2
<1>12. "write" \in V => shutting_down \/ "write" \in Y1
  BY <1>4, <1>5 DEF WiderMask
<1>13. IsReg(r2) /\ Edit(Registry, r2, i, X2, Y2)
  <2>1. "write" \in Ops
    BY DEF Ops
  <2>2. "write" \in V => shutting_down \/ Y1 # {}
    BY <1>12
  <2> HIDE DEF E, V, M, r1, X1, Y1
  <2>3. /\ IsReg(r2)
        /\ "write" \notin V => Edit(Registry, r2, i, X1, Y1)
        /\ "write" \in V => Edit(Registry, r2, i, WiderEvents(X1, Y1, wr.ops),
                                 WiderMask(Y1, wr.ops) \ (IF wr.stay THEN {} ELSE {"write"}))
    BY <1>1, <1>2, <1>3, <1>11, <2>1, <2>2, DispatchEdit
  <2> HIDE DEF r2
  <2> QED
    BY <2>3
<1>14. Registry' = s
  <2>1. IsReg(s)
    <3>1. F \in SUBSET Ops
      BY <1>4
    <3> HIDE DEF r2, F, E, X2, Y2
    <3> QED
      BY <1>1, <1>2, <1>3, <1>13, <3>1, ApplyEdit
  <2> HIDE DEF s
  <2>2. PICK p, q : s = [pollset |-> p, mask |-> q]
    BY <2>1 DEF IsReg
  <2> QED
    BY <1>8, <2>2 DEF Install, Registry
<1>15. /\ F = {} => Deletion(Registry, Registry', i, Y2)
       /\ F # {} => Edit(Registry, Registry', i, IF F = E THEN X2 ELSE F, Y2)
  <2>1. F \in SUBSET Ops
    BY <1>4
  <2> HIDE DEF r2, F, E, X2, Y2
  <2> QED
    BY <1>1, <1>2, <1>3, <1>13, <1>14, <2>1, ApplyEdit
<1>16. /\ mpx'.i = IF F = {} THEN i ELSE i + 1
  BY <1>8 DEF NextIndex
<1> DEFINE X == IF F = E THEN X2 ELSE F
<1>17. CASE F = {}
  <2>1. m \notin torn' => Y2 = {}
    BY <1>4, <1>5, <1>6, <1>8, <1>9, <1>17 DEF WiderEvents, WiderMask, Ops
  <2> HIDE DEF F, Y2
  <2> QED
    BY <1>3, <1>8, <1>15, <1>16, <1>17, <2>1
<1>18. CASE F # {}
  <2>1. X # {} /\ X \subseteq Y2 /\ ("write" \in Y2 => "write" \in X)
    BY <1>4, <1>5, <1>8, <1>9, <1>18 DEF WiderEvents, WiderMask, Ops
  <2>2. shutting_down => X \subseteq E
    BY <1>4, <1>8, <1>9, <1>18 DEF WiderEvents, WiderMask, Ops
  <2>3. m \notin torn' => X = Y2
    BY <1>4, <1>5, <1>6, <1>8, <1>9, <1>18, SMTT(30) DEF WiderEvents, WiderMask, Ops
  <2>4. Edit(Registry, Registry', i, X, Y2)
    BY <1>15, <1>18
  <2> HIDE DEF F, X, Y2
  <2> QED
    BY <1>3, <1>8, <1>16, <1>18, <2>1, <2>2, <2>3, <2>4
<1> QED
  BY <1>17, <1>18

-----------------------------------------------------------------------------
(* The other steps of the multiplexer that change the registry.            *)

(* What Install assigns is a registry. *)
LEMMA Installed ==
  ASSUME NEW s, IsReg(s), Install(s)
  PROVE  Registry' = s
<1>1. PICK p, q : s = [pollset |-> p, mask |-> q]
  BY DEF IsReg
<1> QED
  BY <1>1 DEF Install, Registry

(* The registry of the multiplexer. *)
LEMMA TheRegistry ==
  /\ Registry.pollset = pollset /\ Registry.mask = mask /\ IsReg(Registry)
  /\ Registry'.pollset = pollset' /\ Registry'.mask = mask'
  BY DEF Registry, IsReg

(* The index that poll_once works on. *)
LEMMA ScanIndex ==
  ASSUME TypeOK, Phases, Scanning
  PROVE  mpx.i \in DOMAIN pollset
<1>1. Len(pollset) \in Nat /\ DOMAIN pollset = 1 .. Len(pollset) /\ mpx.i \in Nat
  BY EntryType DEF TypeOK
<1> QED
  BY <1>1 DEF Scanning, Phases

(* handle() after an error: the manager is out of everything. *)
LEMMA HandleErrorCases ==
  ASSUME MpxInv, NEW m \in All, HandleError(m)
  PROVE  /\ mpx.i \in DOMAIN pollset /\ pollset[mpx.i].mgr = m /\ mpx'.i = mpx.i
         /\ Deletion(Registry, Registry', mpx.i, {})
<1> DEFINE i == mpx.i
           E == pollset[i].events
           M == mask[m]
           r == mask_del(Registry, m, Ops)
<1>1. SoundReg(Registry) /\ TypeOK /\ Phases
  BY DEF MpxInv
<1>2. i \in DOMAIN pollset /\ pollset[i].mgr = m
  BY <1>1, ScanIndex DEF HandleError
<1>3. M \ Ops = {}
  BY <1>1 DEF TypeOK
<1>4. Edit(Registry, Registry, i, E, M)
  BY <1>1, <1>2, TheRegistry, EditNothing
<1>5. IsReg(r) /\ Edit(Registry, r, i, E, M \ Ops)
  BY <1>1, <1>2, <1>4, TheRegistry, MaskDelEdit
<1> HIDE DEF r, E
<1>6. IsReg(del(r, i)) /\ Deletion(Registry, del(r, i), i, {})
  BY <1>1, <1>2, <1>3, <1>5, TheRegistry, DelRemove
<1>7. Install(del(r, i)) /\ NextIndex({})
  BY DEF HandleError, r
<1>8. Registry' = del(r, i)
  BY <1>6, <1>7, Installed
<1> QED
  BY <1>2, <1>6, <1>7, <1>8 DEF NextIndex

(* The end of handle_read_event of the updater: it stays, or the pipe is   *)
(* closed and drained and it goes.                                         *)
LEMMA UpdaterEndsCases ==
  ASSUME MpxInv, UpdaterEnds
  PROVE  /\ 1 \in DOMAIN pollset /\ pollset[1].mgr = Updater
         /\ \/ Registry' = Registry /\ mpx'.i = 2
            \/ Deletion(Registry, Registry', 1, {}) /\ mpx'.i = 1 /\ ~write_handle
<1> DEFINE E == pollset[1].events
           M == mask[Updater]
           N == IF write_handle THEN E ELSE E \ {"read"}
           r == IF write_handle THEN Registry ELSE mask_del(Registry, Updater, {"read"})
           s == ApplyEvents(r, 1, E, N)
<1>1. SoundReg(Registry) /\ TypeOK /\ Phases /\ UpdaterStays
  BY DEF MpxInv
<1>2. mpx.i = 1 /\ pollset # <<>> /\ pollset[1].mgr = Updater
  BY <1>1 DEF UpdaterEnds, Phases
<1>3. 1 \in DOMAIN pollset
  <2>1. pollset \in Seq(Entry)
    BY <1>1 DEF TypeOK
  <2> QED
    BY <1>2, <2>1
<1>4. E # {} /\ E \subseteq M /\ M \subseteq {"read"}
  BY <1>1, <1>2, <1>3, TheRegistry DEF SoundReg, UpdaterStays
<1>5. Install(s) /\ NextIndex(N)
  BY <1>2 DEF UpdaterEnds
<1>6. CASE write_handle
  <2>1. s = Registry /\ N # {}
    BY <1>4, <1>6 DEF ApplyEvents
  <2>2. Registry' = Registry
    BY <1>5, <2>1, TheRegistry, Installed
  <2> QED
    BY <1>2, <1>3, <1>5, <2>1, <2>2 DEF NextIndex
<1>7. CASE ~write_handle
  <2>1. N = {} /\ M \ {"read"} = {}
    BY <1>4, <1>7
  <2>2. Edit(Registry, Registry, 1, E, M)
    BY <1>1, <1>2, <1>3, TheRegistry, EditNothing
  <2>3. IsReg(r) /\ Edit(Registry, r, 1, E, M \ {"read"})
    BY <1>1, <1>2, <1>3, <1>7, <2>2, TheRegistry, MaskDelEdit
  <2>4. s = del(r, 1)
    BY <2>1 DEF ApplyEvents
  <2> HIDE DEF r, E, s
  <2>5. IsReg(s) /\ Deletion(Registry, s, 1, {})
    BY <1>1, <1>3, <2>1, <2>3, <2>4, TheRegistry, DelRemove
  <2>6. Registry' = s
    BY <1>5, <2>5, Installed
  <2> QED
    BY <1>2, <1>3, <1>5, <1>7, <2>1, <2>5, <2>6 DEF NextIndex
<1> QED
  BY <1>6, <1>7

(* One iteration of the loop in shutdown(). *)
LEMMA ShutdownCases ==
  ASSUME MpxInv, ShutdownStep
  PROVE  LET k == mpx.j
             m == pollset[k].mgr
             X == pollset[k].events \ {"read"}
             Y == mask[m] \ {"read"}
         IN  /\ k \in DOMAIN pollset /\ k >= 2 /\ m # Updater
             /\ \/ Deletion(Registry, Registry', k, {}) /\ mpx'.j = k
                \/ /\ Edit(Registry, Registry', k, X, Y) /\ mpx'.j = k + 1
                   /\ X # {} /\ X \subseteq Y /\ ("write" \in Y => "write" \in X)
             /\ mpx'.at = "shutdown" /\ mpx'.i = mpx.i /\ mpx'.presult = mpx.presult
             /\ mpx'.j \in Nat
<1> DEFINE k == mpx.j
           m == pollset[k].mgr
           E == pollset[k].events
           M == mask[m]
           X == E \ {"read"}
           Y == M \ {"read"}
           r == NoReading(m, k)
           s == IF r.mask[m] = {} THEN del(r, k) ELSE r
<1>1. SoundReg(Registry) /\ TypeOK /\ Phases /\ UpdaterStays
  BY DEF MpxInv
<1>2. k \in Nat /\ k >= 2 /\ k \in DOMAIN pollset
  <2>1. Len(pollset) \in Nat /\ DOMAIN pollset = 1 .. Len(pollset)
    BY <1>1, EntryType DEF TypeOK
  <2> QED
    BY <1>1, <2>1, SMTT(30) DEF ShutdownStep, Phases, TypeOK
<1>3. m # Updater
  BY <1>1, <1>2 DEF UpdaterStays
<1>4. /\ E # {} /\ E \subseteq M /\ ("write" \in M => "write" \in E)
      /\ E \subseteq Ops /\ M \subseteq Ops
  <2>1. E # {} /\ E \subseteq M /\ ("write" \in M => "write" \in E)
    BY <1>1, <1>2, TheRegistry DEF SoundReg
  <2>2. m \in All /\ E \subseteq Ops
    BY <1>1, <1>2, EntryType DEF TypeOK
  <2> QED
    BY <1>1, <2>1, <2>2 DEF TypeOK
<1>5. Edit(Registry, Registry, k, E, M)
  BY <1>1, <1>2, TheRegistry, EditNothing
<1>6. IsReg(r) /\ Edit(Registry, r, k, X, Y)
  <2>1. CASE "read" \in M
    <3> DEFINE t == mask_del(Registry, m, {"read"})
    <3>1. IsReg(t) /\ Edit(Registry, t, k, E, Y)
      BY <1>1, <1>2, <1>5, TheRegistry, MaskDelEdit
    <3>2. PICK p, q : t = [pollset |-> p, mask |-> q]
      BY <3>1 DEF IsReg
    <3> HIDE DEF t
    <3>3. t.pollset = p /\ t.mask = q
      BY <3>2
    <3>4. p \in Seq(Entry) /\ Len(p) = Len(pollset) /\ p[k].events = E
      BY <3>1, <3>3, TheRegistry DEF Edit
    <3>5. DOMAIN p = DOMAIN pollset
      BY <1>1, <3>4, EntryType DEF TypeOK
    <3>6. r = [t EXCEPT !.pollset[k].events = p[k].events \ {"read"}]
      BY <2>1, <3>3 DEF NoReading, t
    <3>7. r = [t EXCEPT !.pollset[k].events = X]
      BY <3>4, <3>6
    <3> DEFINE g == Repoll(p, k, X)
    <3>8. r = [pollset |-> g, mask |-> q]
      BY <3>2, <3>7 DEF Repoll
    <3>9. /\ g \in Seq(Entry) /\ Len(g) = Len(p)
          /\ \A l \in DOMAIN p \ {k} : g[l] = p[l]
          /\ g[k].mgr = p[k].mgr /\ g[k].revents = p[k].revents /\ g[k].events = X
      <4>1. X \in SUBSET Ops
        BY <1>4
      <4> QED
        BY <1>2, <3>4, <3>5, <4>1, WithEvents, SMTT(30)
    <3> HIDE DEF g, r
    <3>10. Edit(Registry, r, k, X, Y)
      BY <3>1, <3>3, <3>4, <3>5, <3>8, <3>9, TheRegistry DEF Edit, OnlyMask
    <3> QED
      BY <3>8, <3>10 DEF IsReg
  <2>2. CASE "read" \notin M
    <3>1. r = Registry /\ X = E /\ Y = M
      BY <1>4, <2>2 DEF NoReading
    <3> QED
      BY <1>5, <3>1, TheRegistry
  <2> QED
    BY <2>1, <2>2
<1>7. r.mask[m] = Y
  BY <1>6, TheRegistry DEF Edit, OnlyMask
<1>8. Install(s) /\ mpx' = [mpx EXCEPT !.j = IF r.mask[m] = {} THEN @ ELSE @ + 1]
  BY DEF ShutdownStep
<1>9. /\ mpx'.j = IF Y = {} THEN k ELSE k + 1
      /\ mpx'.at = "shutdown" /\ mpx'.i = mpx.i /\ mpx'.presult = mpx.presult
  <2> HIDE DEF r, s
  <2> QED
    BY <1>1, <1>7, <1>8 DEF TypeOK, ShutdownStep
<1> HIDE DEF r
<1>10. CASE Y = {}
  <2>1. s = del(r, k)
    BY <1>7, <1>10
  <2>2. IsReg(s) /\ Deletion(Registry, s, k, {})
    <3> HIDE DEF X, Y, s
    <3> QED
      BY <1>1, <1>2, <1>6, <1>10, <2>1, TheRegistry, DelRemove
  <2> HIDE DEF s
  <2>3. Registry' = s
    BY <1>8, <2>2, Installed
  <2> QED
    BY <1>2, <1>3, <1>9, <1>10, <2>2, <2>3
<1>11. CASE Y # {}
  <2>1. s = r
    BY <1>7, <1>11
  <2>2. Registry' = r
    BY <1>6, <1>8, <2>1, Installed
  <2>3. X # {} /\ X \subseteq Y /\ ("write" \in Y => "write" \in X)
    BY <1>4, <1>11 DEF Ops
  <2> HIDE DEF s
  <2> QED
    BY <1>2, <1>3, <1>6, <1>9, <1>11, <2>2, <2>3
<1> QED
  BY <1>10, <1>11

(* Messages that register operations. *)
LEMMA UpdateCases ==
  ASSUME MpxInv, UpdateInit \/ \E op \in Ops : UpdateRegister(op)
  PROVE  LET m == Head(pipe).mgr
         IN  /\ m \in Managers
             /\ SoundReg(Registry') /\ Grown(Registry, Registry', m)
             /\ \A x \in All : Exact(Registry, x) => Exact(Registry', x)
             /\ refs' = [RefsAfter(Registry') EXCEPT ![m] = @ - 1]
             /\ UNCHANGED torn
<1> DEFINE m == Head(pipe).mgr
<1>1. SoundReg(Registry) /\ TypeOK /\ Messages
  BY DEF MpxInv
<1>2. pipe # <<>> /\ pipe \in Seq(Msg)
  BY <1>1 DEF UpdateInit, UpdateRegister, TakeMsg, TypeOK
<1>3. Head(pipe) \in Msg /\ GoodMsg(Head(pipe))
  BY <1>1, <1>2 DEF Messages
<1>4. Head(pipe).op # "shutdown"
  BY DEF UpdateInit, UpdateRegister
<1>5. m \in Managers /\ m \in All
  BY <1>3, <1>4 DEF GoodMsg, Msg, All
<1>6. CASE UpdateInit
  <2>1. PICK ops \in SUBSET Ops :
          Install(RegisterAll(Registry, m, ops)) /\ Adopt(RegisterAll(Registry, m, ops), m)
    BY <1>6 DEF UpdateInit
  <2> DEFINE s == RegisterAll(Registry, m, ops)
  <2>2. /\ IsReg(s) /\ SoundReg(s) /\ Grown(Registry, s, m)
        /\ \A x \in All : Exact(Registry, x) => Exact(s, x)
    BY <1>1, <1>5, TheRegistry, RegisterAllSound
  <2> HIDE DEF s
  <2>3. Registry' = s
    BY <2>1, <2>2, Installed DEF s
  <2>4. refs' = [RefsAfter(Registry') EXCEPT ![m] = @ - 1] /\ UNCHANGED torn
    BY <1>6, <2>1, <2>3 DEF s, Adopt, UpdateInit
  <2> QED
    BY <1>5, <2>2, <2>3, <2>4
<1>7. CASE \E op \in Ops : UpdateRegister(op)
  <2>1. PICK op \in Ops : UpdateRegister(op)
    BY <1>7
  <2> DEFINE s == register(Registry, m, op)
  <2>2. Install(s) /\ Adopt(s, m) /\ UNCHANGED torn
    BY <2>1 DEF UpdateRegister
  <2>3. /\ IsReg(s) /\ SoundReg(s) /\ Grown(Registry, s, m)
        /\ \A x \in All : Exact(Registry, x) => Exact(s, x)
    BY <1>1, <1>5, TheRegistry, RegisterSound
  <2> HIDE DEF s
  <2>4. Registry' = s
    BY <2>2, <2>3, Installed
  <2> QED
    BY <1>5, <2>2, <2>3, <2>4 DEF Adopt
<1> QED
  BY <1>6, <1>7

-----------------------------------------------------------------------------
(* Every step keeps the registry sound.                                    *)

(* Only the results of poll() change. *)
SameButResults ==
  /\ pollset' \in Seq(Entry) /\ Len(pollset') = Len(pollset) /\ mask' = mask
  /\ DOMAIN pollset' = DOMAIN pollset
  /\ \A k \in DOMAIN pollset :
       pollset'[k].mgr = pollset[k].mgr /\ pollset'[k].events = pollset[k].events

(* Writing results keeps the rest of the pollset. *)
LEMMA ResultsOnly ==
  ASSUME TypeOK, NEW rv \in [DOMAIN pollset -> (SUBSET Ops) \cup {{"error"}}], mask' = mask,
         pollset' = [k \in DOMAIN pollset |-> [pollset[k] EXCEPT !.revents = rv[k]]]
  PROVE  SameButResults /\ \A k \in DOMAIN pollset : pollset'[k].revents = rv[k]
<1>1. pollset \in Seq(Entry) /\ DOMAIN pollset = 1 .. Len(pollset) /\ Len(pollset) \in Nat
  BY EntryType DEF TypeOK
<1>2. ASSUME NEW k \in DOMAIN pollset
      PROVE  /\ pollset'[k] \in Entry /\ pollset'[k].revents = rv[k]
             /\ pollset'[k].mgr = pollset[k].mgr /\ pollset'[k].events = pollset[k].events
  <2>1. pollset[k] \in Entry /\ pollset'[k] = [pollset[k] EXCEPT !.revents = rv[k]]
    BY <1>1, EntryType
  <2>2. rv[k] \in (SUBSET Ops) \cup {{"error"}}
    OBVIOUS
  <2> QED
    BY <2>1, <2>2 DEF Entry
<1>3. pollset' \in [1 .. Len(pollset) -> Entry]
  BY <1>1, <1>2
<1>4. pollset' \in Seq(Entry) /\ Len(pollset') = Len(pollset)
  BY <1>1, <1>3
<1> QED
  BY <1>1, <1>2, <1>3, <1>4 DEF SameButResults

(* A pollset that differs in the results is as sound. *)
LEMMA SameSound ==
  ASSUME TypeOK, SoundReg(Registry), SameButResults
  PROVE  SoundReg(Registry') /\ \A m : Exact(Registry, m) => Exact(Registry', m)
<1>1. SoundReg(Registry')
  BY TheRegistry DEF SoundReg, SameButResults
<1>2. ASSUME NEW m, Exact(Registry, m)
      PROVE  Exact(Registry', m)
  BY <1>2, TheRegistry DEF Exact, SameButResults
<1> QED
  BY <1>1, <1>2

(* poll() only sets results ... *)
LEMMA PollCases ==
  ASSUME MpxInv, Poll
  PROVE  /\ SameButResults
         /\ \A k \in DOMAIN pollset : pollset'[k].revents \in Readiness(pollset[k])
         /\ mpx'.at = "scan" /\ mpx'.i = 1 /\ mpx'.presult \in Nat /\ mpx'.j = 0
<1>1. TypeOK
  BY DEF MpxInv
<1>2. PICK rv \in [DOMAIN pollset -> (SUBSET Ops) \cup {{"error"}}] :
        /\ \A k \in DOMAIN pollset : rv[k] \in Readiness(pollset[k])
        /\ pollset' = [k \in DOMAIN pollset |-> [pollset[k] EXCEPT !.revents = rv[k]]]
        /\ mpx' = [at |-> "scan", i |-> 1, j |-> 0,
                   presult |-> Cardinality({k \in DOMAIN pollset : rv[k] # {}})]
  BY DEF Poll
<1>3. mask' = mask
  BY DEF Poll
<1>4. SameButResults /\ \A k \in DOMAIN pollset : pollset'[k].revents = rv[k]
  BY <1>1, <1>2, <1>3, ResultsOnly
<1>5. Cardinality({k \in DOMAIN pollset : rv[k] # {}}) \in Nat
  <2> DEFINE S == {k \in DOMAIN pollset : rv[k] # {}}
  <2>1. IsFiniteSet(1 .. Len(pollset)) /\ S \in SUBSET (1 .. Len(pollset))
    <3>1. DOMAIN pollset = 1 .. Len(pollset) /\ Len(pollset) \in Nat
      BY <1>1, EntryType DEF TypeOK
    <3> QED
      BY <3>1, FS_Interval
  <2> HIDE DEF S
  <2>2. Cardinality(S) \in Nat
    BY <2>1, FS_Subset, FS_CardinalityType
  <2> QED
    BY <2>2 DEF S
<1> QED
  BY <1>2, <1>4, <1>5

(* ... and the end of the loop only clears them. *)
LEMMA ScanEndsCases ==
  ASSUME MpxInv, ScanEnds
  PROVE  SameButResults /\ \A k \in DOMAIN pollset : pollset'[k].revents = {}
<1>1. TypeOK
  BY DEF MpxInv
<1> DEFINE rv == [k \in DOMAIN pollset |-> {}]
<1>2. rv \in [DOMAIN pollset -> (SUBSET Ops) \cup {{"error"}}]
  OBVIOUS
<1>3. pollset' = [k \in DOMAIN pollset |-> [pollset[k] EXCEPT !.revents = rv[k]]] /\ mask' = mask
  BY DEF ScanEnds
<1>4. \A k \in DOMAIN pollset : rv[k] = {}
  OBVIOUS
<1> HIDE DEF rv
<1>5. SameButResults /\ \A k \in DOMAIN pollset : pollset'[k].revents = rv[k]
  BY <1>1, <1>2, <1>3, ResultsOnly
<1> QED
  BY <1>4, <1>5

(* Steps that do not touch the registry. *)
Apart ==
  \/ RunEnds \/ ScanSkips \/ UpdaterStarts \/ UpdateShutdown \/ ShutdownEnds \/ ClosePipe
  \/ (\E c \in Clients : Client(c)) \/ (\E m \in Managers : Release(m))
  \/ Waiting \/ UNCHANGED vars

(* Steps apart leave the registry alone. *)
LEMMA ApartKeeps ==
  ASSUME Apart
  PROVE  pollset' = pollset /\ mask' = mask /\ torn' = torn /\ Registry' = Registry
<1>1. pollset' = pollset /\ mask' = mask /\ torn' = torn
  BY Zenon DEF Apart, RunEnds, ScanSkips, UpdaterStarts, UpdateShutdown, ShutdownEnds, ClosePipe,
      Client, Call, Lock, Write, Release, Waiting, vars, pollVars
<1> QED
  BY <1>1 DEF Registry

(* All steps, by what they do to the registry. *)
LEMMA NextSplit ==
  ASSUME [Next]_vars
  PROVE  \/ Apart \/ Poll \/ ScanEnds
         \/ \E m \in Managers : Handle(m)
         \/ \E m \in All : HandleError(m)
         \/ UpdaterEnds \/ ShutdownStep
         \/ UpdateInit \/ \E op \in Ops : UpdateRegister(op)
  BY Zenon DEF Next, MpxThread, Apart

(* The registry stays sound, and exact for those not torn down. *)
LEMMA RegistryKept ==
  ASSUME MpxInv, [Next]_vars
  PROVE  SoundReg(Registry') /\ \A m \in Managers \ torn' : Exact(Registry', m)
<1>1. /\ SoundReg(Registry) /\ TypeOK
      /\ \A m \in Managers \ torn : Exact(Registry, m)
  BY DEF MpxInv
<1>2. Managers \subseteq All
  BY DEF All
<1>3. CASE Apart
  BY <1>1, <1>3, ApartKeeps
<1>4. CASE Poll
  <2>1. torn' = torn
    BY <1>4 DEF Poll
  <2> QED
    BY <1>1, <1>4, <2>1, PollCases, SameSound
<1>5. CASE ScanEnds
  <2>1. torn' = torn
    BY <1>5 DEF ScanEnds
  <2> QED
    BY <1>1, <1>5, <2>1, ScanEndsCases, SameSound
<1>6. ASSUME NEW m \in Managers, Handle(m)
      PROVE  SoundReg(Registry') /\ \A x \in Managers \ torn' : Exact(Registry', x)
  <2> DEFINE C(X, Y) ==
        \/ /\ Edit(Registry, Registry', mpx.i, X, Y)
           /\ X # {} /\ X \subseteq Y /\ ("write" \in Y => "write" \in X)
           /\ m \notin torn' => X = Y
        \/ Deletion(Registry, Registry', mpx.i, Y) /\ (m \notin torn' => Y = {})
  <2>1. /\ mpx.i \in DOMAIN Registry.pollset /\ Registry.pollset[mpx.i].mgr = m
        /\ torn' \in {torn, torn \cup {m}}
        /\ \E X, Y : C(X, Y)
    BY <1>6, HandleCases, TheRegistry
  <2>2. PICK X, Y : C(X, Y)
    BY <2>1
  <2>3. SoundReg(Registry')
    BY <1>1, <2>1, <2>2, EditSound, RemoveSound
  <2>4. \A x \in All : x # m /\ Exact(Registry, x) => Exact(Registry', x)
    BY <1>1, <2>1, <2>2, EditSound, RemoveSound
  <2>5. m \notin torn' => Exact(Registry', m)
    BY <1>1, <2>1, <2>2, EditSound, RemoveSound
  <2> QED
    BY <1>1, <1>2, <2>1, <2>3, <2>4, <2>5
<1>7. ASSUME NEW m \in All, HandleError(m)
      PROVE  SoundReg(Registry') /\ \A x \in Managers \ torn' : Exact(Registry', x)
  <2>1. /\ mpx.i \in DOMAIN Registry.pollset /\ Registry.pollset[mpx.i].mgr = m
        /\ Deletion(Registry, Registry', mpx.i, {})
    BY <1>7, HandleErrorCases, TheRegistry
  <2>2. torn' = torn
    BY <1>7 DEF HandleError
  <2> QED
    BY <1>1, <1>2, <2>1, <2>2, RemoveSound, ZenonT(60)
<1>8. CASE UpdaterEnds
  <2>1. /\ 1 \in DOMAIN Registry.pollset /\ Registry.pollset[1].mgr = Updater
        /\ Registry' = Registry \/ Deletion(Registry, Registry', 1, {})
    BY <1>8, UpdaterEndsCases, TheRegistry
  <2>2. torn' = torn
    BY <1>8 DEF UpdaterEnds
  <2> QED
    BY <1>1, <1>2, <2>1, <2>2, RemoveSound
<1>9. CASE ShutdownStep
  <2> DEFINE k == mpx.j
             X == pollset[k].events \ {"read"}
             Y == mask[pollset[k].mgr] \ {"read"}
  <2>1. /\ k \in DOMAIN Registry.pollset
        /\ \/ Deletion(Registry, Registry', k, {})
           \/ /\ Edit(Registry, Registry', k, X, Y)
              /\ X # {} /\ X \subseteq Y /\ ("write" \in Y => "write" \in X)
    BY <1>9, ShutdownCases, TheRegistry
  <2>2. torn' = torn
    BY <1>9 DEF ShutdownStep
  <2>3. pollset[k].mgr \notin torn /\ pollset[k].mgr \in Managers => X = Y
    <3>1. \A l \in DOMAIN pollset : pollset[l].mgr = pollset[k].mgr => l = k
      BY <1>1, <2>1, TheRegistry DEF SoundReg
    <3>2. pollset[k].events \subseteq Ops /\ mask[pollset[k].mgr] \subseteq Ops
      BY <1>1, <2>1, TheRegistry, EntryType DEF TypeOK
    <3>3. Exact(Registry, pollset[k].mgr) => pollset[k].events = mask[pollset[k].mgr]
      <4>1. k \in DOMAIN pollset
        BY <2>1, TheRegistry
      <4>2. Exact(Registry, pollset[k].mgr) =>
              \A op \in Ops : op \in mask[pollset[k].mgr] <=> op \in pollset[k].events
        BY <3>1, <4>1, TheRegistry DEF Exact
      <4> QED
        BY <3>2, <4>2
    <3> QED
      BY <1>1, <3>3
  <2> HIDE DEF X, Y
  <2>4. CASE Deletion(Registry, Registry', k, {})
    BY <1>1, <1>2, <2>1, <2>2, <2>4, RemoveSound
  <2>5. CASE /\ Edit(Registry, Registry', k, X, Y)
             /\ X # {} /\ X \subseteq Y /\ ("write" \in Y => "write" \in X)
    <3>1. /\ SoundReg(Registry')
          /\ \A x \in All : x # pollset[k].mgr /\ Exact(Registry, x) => Exact(Registry', x)
          /\ X = Y => Exact(Registry', pollset[k].mgr)
      BY <1>1, <2>1, <2>5, TheRegistry, EditSound
    <3> QED
      BY <1>1, <1>2, <2>2, <2>3, <3>1
  <2> QED
    BY <2>1, <2>4, <2>5
<1>10. CASE UpdateInit \/ \E op \in Ops : UpdateRegister(op)
  BY <1>1, <1>2, <1>10, UpdateCases
<1> QED
  BY <1>3, <1>4, <1>5, <1>6, <1>7, <1>8, <1>9, <1>10, NextSplit

-----------------------------------------------------------------------------
(* Every step keeps the multiplexer's thread and the updater in step.      *)

Scan == NoInput /\ Asked /\ UpdaterStays /\ Phases

MpxType ==
  mpx \in [at : {"run", "scan", "updater", "shutdown", "close", "done"},
           i : Nat, presult : Nat, j : Nat]

(* An entry of a manager gets other events. *)
LEMMA EditUpdater ==
  ASSUME TypeOK, UpdaterStays, NEW k \in DOMAIN pollset, pollset[k].mgr # Updater,
         NEW X, NEW Y, Edit(Registry, Registry', k, X, Y),
         pipe' = pipe, write_handle' = write_handle
  PROVE  /\ UpdaterStays'
         /\ DOMAIN pollset' = DOMAIN pollset /\ pollset'[k].events = X
         /\ \A l \in DOMAIN pollset \ {k} : pollset'[l] = pollset[l]
<1>1. /\ DOMAIN pollset' = DOMAIN pollset
      /\ \A l \in DOMAIN pollset \ {k} : pollset'[l] = pollset[l]
      /\ pollset'[k].mgr = pollset[k].mgr /\ pollset'[k].events = X
  <2>1. /\ pollset \in Seq(Entry) /\ pollset' \in Seq(Entry) /\ Len(pollset') = Len(pollset)
        /\ \A l \in DOMAIN pollset \ {k} : pollset'[l] = pollset[l]
        /\ pollset'[k].mgr = pollset[k].mgr /\ pollset'[k].events = X
    BY TheRegistry DEF Edit, TypeOK
  <2> QED
    BY <2>1, EntryType
<1>2. mask'[Updater] = mask[Updater]
  BY TheRegistry DEF Edit, OnlyMask, All
<1>3. Updater \in Polled' <=> Updater \in Polled
  BY <1>1 DEF Polled
<1> QED
  BY <1>1, <1>2, <1>3 DEF UpdaterStays

(* An entry goes; the updater's only once the pipe has ended. *)
LEMMA RemoveUpdater ==
  ASSUME TypeOK, UpdaterStays, NEW k \in DOMAIN pollset,
         NEW Y, Deletion(Registry, Registry', k, Y),
         pollset[k].mgr = Updater => Y = {} /\ pipe = <<>> /\ ~write_handle,
         pipe' = pipe, write_handle' = write_handle
  PROVE  /\ UpdaterStays'
         /\ \A l \in DOMAIN pollset' :
              /\ l < k => l \in DOMAIN pollset /\ pollset'[l] = pollset[l]
              /\ l >= k => l + 1 \in DOMAIN pollset /\ pollset'[l] = pollset[l + 1]
         /\ 1 < k => 1 \in DOMAIN pollset' /\ pollset'[1] = pollset[1]
<1>1. /\ pollset \in Seq(Entry) /\ pollset' \in Seq(Entry)
      /\ Len(pollset) \in Nat /\ DOMAIN pollset = 1 .. Len(pollset)
      /\ DOMAIN pollset' = 1 .. Len(pollset) - 1
      /\ \A l \in 1 .. Len(pollset) - 1 :
           pollset'[l] = IF l < k THEN pollset[l] ELSE pollset[l + 1]
  <2>1. /\ pollset \in Seq(Entry) /\ pollset' \in Seq(Entry)
        /\ Len(pollset') = Len(pollset) - 1
        /\ \A l \in 1 .. Len(pollset) - 1 :
             pollset'[l] = IF l < k THEN pollset[l] ELSE pollset[l + 1]
    BY TheRegistry DEF Deletion, TypeOK
  <2>2. /\ Len(pollset) \in Nat /\ DOMAIN pollset = 1 .. Len(pollset)
        /\ DOMAIN pollset' = 1 .. Len(pollset')
    BY <2>1, EntryType
  <2> QED
    BY <2>1, <2>2
<1>2. \A l \in DOMAIN pollset' :
        /\ l < k => l \in DOMAIN pollset /\ pollset'[l] = pollset[l]
        /\ l >= k => l + 1 \in DOMAIN pollset /\ pollset'[l] = pollset[l + 1]
  BY <1>1
<1>3. 1 < k => 1 \in DOMAIN pollset' /\ pollset'[1] = pollset[1]
  BY <1>1
<1>4. mask'[Updater] \subseteq {"read"}
  BY TheRegistry DEF Deletion, OnlyMask, All, UpdaterStays
<1>5. ASSUME NEW l \in DOMAIN pollset', pollset'[l].mgr = Updater
      PROVE  l = 1 /\ (pollset'[l].revents = {"error"} => pipe = <<>> /\ ~write_handle)
  <2>1. CASE l < k
    BY <1>2, <1>5, <2>1 DEF UpdaterStays
  <2>2. CASE l >= k
    <3>1. l + 1 = 1
      BY <1>2, <1>5, <2>2 DEF UpdaterStays
    <3> QED
      BY <1>1, <3>1
  <2> QED
    BY <1>1, <2>1, <2>2
<1>6. ASSUME Updater \notin Polled'
      PROVE  pipe = <<>> /\ ~write_handle
  <2>1. CASE Updater \notin Polled
    BY <2>1 DEF UpdaterStays
  <2>2. CASE Updater \in Polled
    <3>1. 1 \in DOMAIN pollset /\ pollset[1].mgr = Updater
      BY <2>2 DEF Polled, UpdaterStays
    <3>2. CASE k = 1
      BY <3>1, <3>2
    <3>3. CASE k # 1
      <4>1. 1 < k
        BY <1>1, <3>3
      <4> QED
        BY <1>3, <1>6, <3>1, <4>1 DEF Polled
    <3> QED
      BY <3>2, <3>3
  <2> QED
    BY <2>1, <2>2
<1> QED
  BY <1>2, <1>3, <1>4, <1>5, <1>6 DEF UpdaterStays

(* After poll_once handled an entry. *)
LEMMA HandledScan ==
  ASSUME MpxInv, Scanning, UNCHANGED <<pipe, write_handle, shutting_down>>,
         mpx'.at = "scan", NEW X, NEW Y,
         \/ /\ Edit(Registry, Registry', mpx.i, X, Y) /\ mpx'.i = mpx.i + 1
            /\ pollset[mpx.i].mgr # Updater
            /\ shutting_down => X \subseteq pollset[mpx.i].events
         \/ /\ Deletion(Registry, Registry', mpx.i, Y) /\ mpx'.i = mpx.i
            /\ pollset[mpx.i].mgr = Updater => Y = {} /\ pipe = <<>> /\ ~write_handle
  PROVE  Scan'
<1>1. TypeOK /\ NoInput /\ Asked /\ UpdaterStays /\ Phases
  BY DEF MpxInv
<1>2. mpx.i \in DOMAIN pollset /\ mpx.i \in Nat /\ mpx.i >= 1 /\ mpx.at = "scan"
  BY <1>1, ScanIndex DEF TypeOK, Phases, Scanning
<1>3. /\ DOMAIN pollset = 1 .. Len(pollset) /\ Len(pollset) \in Nat
  BY <1>1, EntryType DEF TypeOK
<1>4. CASE /\ Edit(Registry, Registry', mpx.i, X, Y) /\ mpx'.i = mpx.i + 1
           /\ pollset[mpx.i].mgr # Updater
           /\ shutting_down => X \subseteq pollset[mpx.i].events
  <2>1. /\ UpdaterStays'
        /\ DOMAIN pollset' = DOMAIN pollset /\ pollset'[mpx.i].events = X
        /\ \A l \in DOMAIN pollset \ {mpx.i} : pollset'[l] = pollset[l]
    BY <1>1, <1>2, <1>4, EditUpdater
  <2>2. NoInput'
    BY <1>1, <1>2, <1>4, <2>1 DEF NoInput
  <2>3. Asked'
    BY <1>1, <1>2, <1>3, <1>4, <2>1 DEF Asked
  <2>4. Phases'
    BY <1>2, <1>4 DEF Phases
  <2> QED
    BY <2>1, <2>2, <2>3, <2>4 DEF Scan
<1>5. CASE /\ Deletion(Registry, Registry', mpx.i, Y) /\ mpx'.i = mpx.i
           /\ pollset[mpx.i].mgr = Updater => Y = {} /\ pipe = <<>> /\ ~write_handle
  <2>1. /\ UpdaterStays'
        /\ \A l \in DOMAIN pollset' :
             /\ l < mpx.i => l \in DOMAIN pollset /\ pollset'[l] = pollset[l]
             /\ l >= mpx.i => l + 1 \in DOMAIN pollset /\ pollset'[l] = pollset[l + 1]
    BY <1>1, <1>2, <1>5, RemoveUpdater
  <2>2. \A l \in DOMAIN pollset' : l \in Nat
    <3>1. pollset' \in Seq(Entry)
      BY <1>5, TheRegistry DEF Deletion
    <3> QED
      BY <3>1, EntryType
  <2>3. NoInput'
    BY <1>1, <1>2, <1>3, <2>1, <2>2 DEF NoInput
  <2>4. Asked'
    BY <1>1, <1>2, <1>3, <1>5, <2>1, <2>2 DEF Asked
  <2>5. Phases'
    BY <1>2, <1>5 DEF Phases
  <2> QED
    BY <2>1, <2>3, <2>4, <2>5 DEF Scan
<1> QED
  BY <1>4, <1>5

(* Steps apart do not disturb the loop over the pollset ... *)
LEMMA ApartScan ==
  ASSUME MpxInv, Apart
  PROVE  Scan'
<1>1. TypeOK /\ NoInput /\ Asked /\ UpdaterStays /\ Phases /\ Messages
  BY DEF MpxInv
<1>2. pollset' = pollset /\ mask' = mask
  BY ApartKeeps
<1>3. /\ DOMAIN pollset = 1 .. Len(pollset) /\ Len(pollset) \in Nat
      /\ mpx.i \in Nat /\ mpx.j \in Nat /\ mpx.presult \in Nat /\ MpxType
  BY <1>1, EntryType DEF TypeOK, MpxType
<1>4. Polled' = Polled
  BY <1>2 DEF Polled
<1> USE DEF Scan
<1>5. CASE UNCHANGED <<mpx, shutting_down, pipe, write_handle>>
  BY <1>1, <1>2, <1>4, <1>5 DEF NoInput, Asked, UpdaterStays, Phases
<1>6. CASE RunEnds
  BY <1>1, <1>2, <1>3, <1>4, <1>6
  DEF RunEnds, pollVars, pipeVars, NoInput, Asked, UpdaterStays, Phases, MpxType
<1>7. CASE ScanSkips
  BY <1>1, <1>2, <1>3, <1>4, <1>7
  DEF ScanSkips, Scanning, pollVars, pipeVars, NoInput, Asked, UpdaterStays, Phases, MpxType
<1>8. CASE UpdaterStarts
  <2>1. mpx.i \in DOMAIN pollset
    BY <1>1, <1>8, ScanIndex DEF UpdaterStarts
  <2> QED
    BY <1>1, <1>2, <1>3, <1>4, <1>8, <2>1
    DEF UpdaterStarts, Scanning, pollVars, pipeVars, NoInput, Asked, UpdaterStays, Phases, MpxType
<1>9. CASE UpdateShutdown
  <2>1. /\ mpx'.at = "shutdown" /\ mpx'.j = 2 /\ mpx'.i = mpx.i /\ mpx'.presult = mpx.presult
        /\ mpx.at = "updater" /\ pipe # <<>>
    BY <1>3, <1>9 DEF UpdateShutdown, TakeMsg, MpxType
  <2>2. shutting_down' = TRUE /\ write_handle' = write_handle
    BY <1>9 DEF UpdateShutdown, TakeMsg
  <2>3. mpx.i = 1 /\ mpx.presult > 0 /\ pollset # <<>> /\ pollset[1].mgr = Updater
    BY <1>1, <2>1 DEF Phases
  <2>4. 1 \in DOMAIN pollset /\ Updater \in Polled
    <3>1. pollset \in Seq(Entry)
      BY <1>1 DEF TypeOK
    <3> QED
      BY <1>3, <2>3, <3>1 DEF Polled
  <2>5. NoInput'
    BY <1>2, <1>3, <2>1, <2>3 DEF NoInput
  <2>6. Asked'
    BY <2>1, <2>2 DEF Asked
  <2>7. UpdaterStays'
    BY <1>1, <1>2, <1>4, <2>1, <2>4 DEF UpdaterStays
  <2>8. Phases'
    BY <1>2, <1>3, <2>1, <2>2, <2>3 DEF Phases
  <2> QED
    BY <2>5, <2>6, <2>7, <2>8
<1>10. CASE ShutdownEnds
  BY <1>1, <1>2, <1>3, <1>4, <1>10
  DEF ShutdownEnds, pollVars, pipeVars, NoInput, Asked, UpdaterStays, Phases, MpxType
<1>11. CASE ClosePipe
  <2>1. mpx'.at = "updater" /\ mpx'.i = mpx.i /\ mpx'.presult = mpx.presult /\ mpx.at = "close"
    BY <1>3, <1>11 DEF ClosePipe, MpxType
  <2>2. shutting_down' = shutting_down /\ ~write_handle' /\ pipe' = pipe
    BY <1>11 DEF ClosePipe, pollVars
  <2>3. UpdaterStays'
    BY <1>1, <1>2, <1>4, <2>2 DEF UpdaterStays
  <2> QED
    BY <1>1, <1>2, <2>1, <2>2, <2>3 DEF NoInput, Asked, Phases
<1>12. ASSUME NEW c \in Clients, Write(c)
       PROVE  Scan'
  <2>1. UNCHANGED <<mpx, shutting_down, write_handle>> /\ write_handle
    BY <1>1, <1>12 DEF Write, Messages, pollVars
  <2> QED
    BY <1>1, <1>2, <1>4, <2>1 DEF NoInput, Asked, UpdaterStays, Phases
<1>13. CASE \/ \E c \in Clients : \E op \in Opcodes, m \in Managers \cup {Nobody} : Call(c, op, m)
            \/ \E c \in Clients : Lock(c)
            \/ \E m \in Managers : Release(m)
            \/ Waiting \/ UNCHANGED vars
  <2>1. UNCHANGED <<mpx, shutting_down, pipe, write_handle>>
    BY <1>13, Zenon DEF Call, Lock, Release, Waiting, vars, pollVars, pipeVars
  <2> QED
    BY <1>5, <2>1
<1> QED
  BY <1>6, <1>7, <1>8, <1>9, <1>10, <1>11, <1>12, <1>13 DEF Apart, Client

(* ... and neither does any other step. *)
LEMMA ScanKept ==
  ASSUME MpxInv, [Next]_vars
  PROVE  Scan'
<1>1. TypeOK /\ NoInput /\ Asked /\ UpdaterStays /\ Phases /\ SoundReg(Registry)
  BY DEF MpxInv
<1>2. /\ pollset \in Seq(Entry) /\ DOMAIN pollset = 1 .. Len(pollset) /\ Len(pollset) \in Nat
      /\ mpx.i \in Nat /\ mpx.j \in Nat /\ mpx.presult \in Nat /\ MpxType
  BY <1>1, EntryType DEF TypeOK, MpxType
<1>3. CASE Apart
  BY <1>3, ApartScan
<1>4. CASE Poll
  <2>1. /\ DOMAIN pollset' = DOMAIN pollset /\ mask' = mask
        /\ \A k \in DOMAIN pollset :
             /\ pollset'[k].mgr = pollset[k].mgr /\ pollset'[k].events = pollset[k].events
             /\ pollset'[k].revents \in Readiness(pollset[k])
        /\ mpx'.at = "scan" /\ mpx'.i = 1
    BY <1>4, PollCases DEF SameButResults
  <2>2. UNCHANGED <<shutting_down, pipe, write_handle>> /\ mpx.at = "run"
    BY <1>4 DEF Poll, pipeVars
  <2>3. Polled' = Polled
    BY <2>1 DEF Polled
  <2>4. NoInput'
    BY <1>1, <2>1, <2>2 DEF NoInput
  <2>5. ASSUME NEW k \in DOMAIN pollset, ~shutting_down
        PROVE  pollset'[k].revents \cap Ops \subseteq pollset'[k].events
    <3>1. CASE pollset[k].mgr = Updater
      <4>1. pollset'[k].revents \subseteq {"read"} \/ pollset'[k].revents = {"error"}
        BY <2>1, <3>1 DEF Readiness
      <4>2. "read" \in pollset[k].events
        <5>1. pollset[k].events # {} /\ pollset[k].events \subseteq mask[Updater]
          BY <1>1, <3>1, TheRegistry DEF SoundReg
        <5> QED
          BY <1>1, <5>1 DEF UpdaterStays
      <4> QED
        BY <2>1, <4>1, <4>2 DEF Ops
    <3>2. CASE pollset[k].mgr # Updater
      <4>1. pollset'[k].revents \subseteq pollset[k].events \/ pollset'[k].revents = {"error"}
        BY <2>1, <3>2 DEF Readiness
      <4> QED
        BY <2>1, <4>1 DEF Ops
    <3> QED
      BY <3>1, <3>2
  <2>6. Asked'
    BY <2>1, <2>2, <2>5 DEF Asked
  <2>7. ASSUME NEW k \in DOMAIN pollset, pollset[k].mgr = Updater,
               pollset'[k].revents = {"error"}
        PROVE  pipe = <<>> /\ ~write_handle
    BY <2>1, <2>7 DEF Readiness
  <2>8. UpdaterStays'
    BY <1>1, <2>1, <2>2, <2>3, <2>7 DEF UpdaterStays
  <2>9. Phases'
    BY <2>1 DEF Phases
  <2> QED
    BY <2>4, <2>6, <2>8, <2>9 DEF Scan
<1>5. CASE ScanEnds
  <2>1. /\ DOMAIN pollset' = DOMAIN pollset /\ mask' = mask
        /\ \A k \in DOMAIN pollset :
             /\ pollset'[k].mgr = pollset[k].mgr /\ pollset'[k].events = pollset[k].events
             /\ pollset'[k].revents = {}
    BY <1>5, ScanEndsCases DEF SameButResults
  <2>2. /\ UNCHANGED <<shutting_down, pipe, write_handle>> /\ mpx.at = "scan"
        /\ mpx'.at = "run" /\ mpx'.i = 1
    BY <1>5 DEF ScanEnds, pipeVars
  <2>3. Polled' = Polled
    BY <2>1 DEF Polled
  <2>4. NoInput' /\ Asked'
    BY <1>1, <2>1, <2>2 DEF NoInput, Asked
  <2>5. UpdaterStays'
    BY <1>1, <2>1, <2>2, <2>3 DEF UpdaterStays
  <2>6. Phases'
    BY <2>2 DEF Phases
  <2> QED
    BY <2>4, <2>5, <2>6 DEF Scan
<1>6. ASSUME NEW m \in Managers, Handle(m)
      PROVE  Scan'
  <2>1. Scanning /\ UNCHANGED <<pipe, write_handle, shutting_down>> /\ mpx'.at = "scan"
    BY <1>6 DEF Handle, HandleReady, NextIndex, pipeVars
  <2>2. m # Updater
    BY MpxAssumption
  <2>3. PICK X, Y :
          \/ /\ Edit(Registry, Registry', mpx.i, X, Y) /\ mpx'.i = mpx.i + 1
             /\ pollset[mpx.i].mgr = m
             /\ shutting_down => X \subseteq pollset[mpx.i].events
          \/ /\ Deletion(Registry, Registry', mpx.i, Y) /\ mpx'.i = mpx.i
             /\ pollset[mpx.i].mgr = m
    BY <1>6, HandleCases
  <2> QED
    BY <2>1, <2>2, <2>3, HandledScan
<1>7. ASSUME NEW m \in All, HandleError(m)
      PROVE  Scan'
  <2>1. /\ Scanning /\ UNCHANGED <<pipe, write_handle, shutting_down>> /\ mpx'.at = "scan"
        /\ pollset[mpx.i].revents = {"error"}
    BY <1>7 DEF HandleError, NextIndex, pipeVars
  <2>2. mpx.i \in DOMAIN pollset /\ Deletion(Registry, Registry', mpx.i, {}) /\ mpx'.i = mpx.i
    BY <1>7, HandleErrorCases
  <2>3. pollset[mpx.i].mgr = Updater => pipe = <<>> /\ ~write_handle
    BY <1>1, <2>1, <2>2 DEF UpdaterStays
  <2> QED
    BY <2>1, <2>2, <2>3, HandledScan
<1>8. CASE UpdaterEnds
  <2>1. /\ UNCHANGED <<pipe, write_handle, shutting_down>> /\ mpx.at = "updater"
        /\ mpx'.at = "scan" /\ pipe = <<>>
    BY <1>8 DEF UpdaterEnds, NextIndex, pipeVars
  <2>2. /\ 1 \in DOMAIN pollset /\ pollset[1].mgr = Updater /\ mpx.i = 1
        /\ \/ Registry' = Registry /\ mpx'.i = 2
           \/ Deletion(Registry, Registry', 1, {}) /\ mpx'.i = 1 /\ ~write_handle
    BY <1>1, <1>8, <2>1, UpdaterEndsCases DEF Phases
  <2>3. CASE Registry' = Registry /\ mpx'.i = 2
    <3>1. pollset' = pollset /\ mask' = mask
      BY <2>3, TheRegistry
    <3>2. Polled' = Polled
      BY <3>1 DEF Polled
    <3>3. NoInput' /\ Asked'
      BY <1>1, <1>2, <2>1, <2>2, <2>3, <3>1 DEF NoInput, Asked
    <3>4. UpdaterStays' /\ Phases'
      BY <1>1, <2>1, <2>3, <3>1, <3>2 DEF UpdaterStays, Phases
    <3> QED
      BY <3>3, <3>4 DEF Scan
  <2>4. CASE Deletion(Registry, Registry', 1, {}) /\ mpx'.i = 1 /\ ~write_handle
    <3>1. /\ UpdaterStays'
          /\ \A l \in DOMAIN pollset' :
               l >= 1 => l + 1 \in DOMAIN pollset /\ pollset'[l] = pollset[l + 1]
      BY <1>1, <2>1, <2>2, <2>4, RemoveUpdater
    <3>2. \A l \in DOMAIN pollset' : l \in Nat /\ l >= 1
      <4>1. pollset' \in Seq(Entry)
        BY <2>4, TheRegistry DEF Deletion
      <4> QED
        BY <4>1, EntryType
    <3>3. NoInput' /\ Asked'
      BY <1>1, <1>2, <2>1, <2>2, <2>4, <3>1, <3>2 DEF NoInput, Asked
    <3>4. Phases'
      BY <2>1, <2>4 DEF Phases
    <3> QED
      BY <3>1, <3>3, <3>4 DEF Scan
  <2> QED
    BY <2>2, <2>3, <2>4
<1>9. CASE ShutdownStep
  <2> DEFINE k == mpx.j
             X == pollset[k].events \ {"read"}
             Y == mask[pollset[k].mgr] \ {"read"}
  <2>1. /\ k \in DOMAIN pollset /\ k >= 2 /\ pollset[k].mgr # Updater
        /\ \/ Deletion(Registry, Registry', k, {}) /\ mpx'.j = k
           \/ Edit(Registry, Registry', k, X, Y) /\ mpx'.j = k + 1
        /\ mpx'.at = "shutdown" /\ mpx'.i = mpx.i /\ mpx'.presult = mpx.presult
    BY <1>9, ShutdownCases
  <2>2. UNCHANGED <<pipe, write_handle, shutting_down>> /\ mpx.at = "shutdown"
    BY <1>9 DEF ShutdownStep, pipeVars
  <2>3. /\ shutting_down /\ mpx.i = 1 /\ mpx.presult > 0
        /\ pollset # <<>> /\ pollset[1].mgr = Updater
    BY <1>1, <2>2 DEF Phases
  <2>4. Asked'
    BY <2>1, <2>2, <2>3 DEF Asked
  <2>5. CASE Deletion(Registry, Registry', k, {}) /\ mpx'.j = k
    <3>1. /\ UpdaterStays'
          /\ \A l \in DOMAIN pollset' :
               /\ l < k => l \in DOMAIN pollset /\ pollset'[l] = pollset[l]
          /\ 1 \in DOMAIN pollset' /\ pollset'[1] = pollset[1]
      BY <1>1, <1>2, <2>1, <2>2, <2>5, RemoveUpdater
    <3>2. NoInput'
      BY <1>1, <2>1, <2>2, <2>3, <2>5, <3>1 DEF NoInput
    <3>3. Phases'
      BY <1>2, <2>1, <2>2, <2>3, <2>5, <3>1 DEF Phases
    <3> QED
      BY <2>4, <3>1, <3>2, <3>3 DEF Scan
  <2>6. CASE Edit(Registry, Registry', k, X, Y) /\ mpx'.j = k + 1
    <3>1. /\ UpdaterStays'
          /\ DOMAIN pollset' = DOMAIN pollset /\ pollset'[k].events = X
          /\ \A l \in DOMAIN pollset \ {k} : pollset'[l] = pollset[l]
      <4> HIDE DEF X, Y
      <4> QED
        BY <1>1, <2>1, <2>2, <2>6, EditUpdater
    <3>2. NoInput'
      <4> SUFFICES ASSUME NEW l \in DOMAIN pollset, l < k + 1, pollset'[l].mgr # Updater
                   PROVE  "read" \notin pollset'[l].events
        BY <2>1, <2>6, <3>1 DEF NoInput
      <4>1. CASE l = k
        BY <3>1, <4>1
      <4>2. CASE l # k
        BY <1>1, <1>2, <2>2, <2>3, <3>1, <4>2 DEF NoInput
      <4> QED
        BY <4>1, <4>2
    <3>3. Phases'
      <4>1. 1 \in DOMAIN pollset /\ pollset'[1] = pollset[1]
        BY <1>2, <2>1, <3>1
      <4>2. pollset' # <<>>
        BY <3>1, <4>1
      <4> QED
        BY <1>2, <2>1, <2>2, <2>3, <2>6, <4>1, <4>2 DEF Phases
    <3> QED
      BY <2>4, <3>1, <3>2, <3>3 DEF Scan
  <2> QED
    BY <2>1, <2>5, <2>6
<1>10. CASE UpdateInit \/ \E op \in Ops : UpdateRegister(op)
  <2> DEFINE m == Head(pipe).mgr
  <2>1. /\ m \in Managers /\ SoundReg(Registry') /\ Grown(Registry, Registry', m)
    BY <1>10, UpdateCases
  <2>2. /\ UNCHANGED <<mpx, shutting_down, write_handle>> /\ mpx.at = "updater" /\ pipe # <<>>
    BY <1>10 DEF UpdateInit, UpdateRegister, TakeMsg
  <2>3. /\ mpx.i = 1 /\ mpx.presult > 0 /\ pollset # <<>> /\ pollset[1].mgr = Updater
        /\ 1 \in DOMAIN pollset
    <3>1. /\ mpx.i = 1 /\ mpx.presult > 0 /\ pollset # <<>> /\ pollset[1].mgr = Updater
      BY <1>1, <2>2 DEF Phases
    <3> QED
      BY <1>2, <3>1
  <2> HIDE DEF m
  <2>4. pollset' \in Seq(Entry) /\ DOMAIN pollset' = 1 .. Len(pollset') /\ Len(pollset') \in Nat
    BY <2>1, TheRegistry, EntryType DEF SoundReg
  <2>5. /\ Len(pollset') >= Len(pollset)
        /\ \A k \in DOMAIN pollset :
             /\ pollset'[k].mgr = pollset[k].mgr
             /\ pollset'[k].revents = pollset[k].revents
             /\ pollset[k].events \subseteq pollset'[k].events
        /\ \A k \in DOMAIN pollset' \ DOMAIN pollset :
             pollset'[k].mgr = m /\ pollset'[k].revents = {}
        /\ \A x \in All \ {m} : mask'[x] = mask[x]
        /\ shutting_down => pollset' = pollset /\ mask' = mask
    BY <2>1, TheRegistry DEF Grown
  <2>6. m # Updater /\ Updater \in All
    BY <2>1, MpxAssumption DEF All
  <2>7. DOMAIN pollset \subseteq DOMAIN pollset'
    BY <1>2, <2>4, <2>5
  <2>8. NoInput'
    BY <1>1, <2>2, <2>5 DEF NoInput
  <2>9. Asked'
    <3> SUFFICES ASSUME ~shutting_down, NEW k \in DOMAIN pollset', k >= mpx.i
                 PROVE  pollset'[k].revents \cap Ops \subseteq pollset'[k].events
      BY <2>2 DEF Asked
    <3>1. CASE k \in DOMAIN pollset
      <4>1. pollset[k].revents \cap Ops \subseteq pollset[k].events
        BY <1>1, <3>1 DEF Asked
      <4> QED
        BY <2>5, <3>1, <4>1
    <3>2. CASE k \notin DOMAIN pollset
      BY <2>5, <3>2
    <3> QED
      BY <3>1, <3>2
  <2>10. UpdaterStays'
    <3>1. mask'[Updater] \subseteq {"read"}
      BY <1>1, <2>5, <2>6 DEF UpdaterStays
    <3>2. ASSUME NEW k \in DOMAIN pollset', pollset'[k].mgr = Updater
          PROVE  k = 1 /\ pollset'[k].revents # {"error"}
      BY <1>1, <2>2, <2>5, <2>6, <3>2 DEF UpdaterStays
    <3>3. Updater \in Polled'
      BY <2>3, <2>5, <2>7 DEF Polled
    <3> QED
      BY <3>1, <3>2, <3>3 DEF UpdaterStays
  <2>11. Phases'
    <3>1. pollset' # <<>> /\ pollset'[1].mgr = Updater
      BY <2>3, <2>4, <2>5, <2>7
    <3> QED
      BY <2>2, <2>3, <3>1 DEF Phases
  <2> QED
    BY <2>8, <2>9, <2>10, <2>11 DEF Scan
<1> QED
  BY <1>3, <1>4, <1>5, <1>6, <1>7, <1>8, <1>9, <1>10, NextSplit

-----------------------------------------------------------------------------
(* Every step keeps the messages and the types.                            *)

ClientType == client \in [Clients -> [at : {"idle", "lock", "write"}, msg : Msg]]

(* NoMsg is a message, and who calls has a good one. *)
LEMMA MsgFacts ==
  /\ NoMsg \in Msg /\ GoodMsg(NoMsg) /\ NoMsg.mgr = Nobody
  /\ \A op \in Opcodes, m \in Managers \cup {Nobody} :
       /\ [op |-> op, mgr |-> m] \in Msg
       /\ (IF op = "shutdown" THEN m = Nobody ELSE m \in Managers)
            => GoodMsg([op |-> op, mgr |-> m])
<1>1. Nobody \notin Managers
  BY MpxAssumption
<1> QED
  BY <1>1 DEF NoMsg, Msg, Opcodes, GoodMsg

(* Steps that leave the pipe and its callers alone. *)
Aside == UNCHANGED <<pipe, write_handle, write_lock, client, calls>>

(* How a step may touch pipe and clients. *)
LEMMA NextAside ==
  ASSUME [Next]_vars
  PROVE  \/ Aside
         \/ /\ pipe # <<>> /\ pipe' = Tail(pipe)
            /\ UNCHANGED <<write_handle, write_lock, client, calls>>
         \/ ClosePipe
         \/ \E c \in Clients : Client(c)
  BY DEF Next, MpxThread, Aside, Poll, RunEnds, ScanEnds, ScanSkips, Handle, HandleError,
     UpdaterStarts, UpdateRegister, TakeMsg, UpdateInit, UpdateShutdown, ShutdownStep, ShutdownEnds,
     UpdaterEnds, Release, Waiting, vars, pipeVars

(* One client moves on. *)
LEMMA ClientSet ==
  ASSUME ClientType, NEW c \in Clients, NEW x \in [at : {"idle", "lock", "write"}, msg : Msg],
         client' = [client EXCEPT ![c] = x]
  PROVE  /\ ClientType' /\ client'[c] = x
         /\ \A d \in Clients \ {c} : client'[d] = client[d]
  BY DEF ClientType

(* A client's step, by what becomes of its message. *)
LEMMA ClientMoves ==
  ASSUME MpxInv, NEW c \in Clients, Client(c)
  PROVE  /\ ClientType'
         /\ \A d \in Clients \ {c} : client'[d] = client[d]
         /\ \/ \E op \in Opcodes, m \in Managers \cup {Nobody} :
                 /\ Call(c, op, m) /\ client'[c] = [at |-> "lock", msg |-> [op |-> op, mgr |-> m]]
                 /\ m = Nobody \/ m \in owned
                 /\ GoodMsg([op |-> op, mgr |-> m])
            \/ /\ Lock(c) /\ write_handle /\ client'[c] = [at |-> "write", msg |-> client[c].msg]
            \/ /\ Lock(c) /\ ~write_handle /\ client'[c] = [at |-> "idle", msg |-> NoMsg]
            \/ Write(c) /\ client'[c] = [at |-> "idle", msg |-> NoMsg]
<1>1. ClientType /\ owned \subseteq Managers
  BY DEF MpxInv, TypeOK, ClientType
<1>2. client[c] \in [at : {"idle", "lock", "write"}, msg : Msg]
  BY <1>1 DEF ClientType
<1> DEFINE idle == [at |-> "idle", msg |-> NoMsg]
<1>3. idle \in [at : {"idle", "lock", "write"}, msg : Msg]
  BY MsgFacts
<1>4. ASSUME NEW op \in Opcodes, NEW m \in Managers \cup {Nobody}, Call(c, op, m)
      PROVE  /\ ClientType' /\ client'[c] = [at |-> "lock", msg |-> [op |-> op, mgr |-> m]]
             /\ \A d \in Clients \ {c} : client'[d] = client[d]
             /\ m = Nobody \/ m \in owned
             /\ GoodMsg([op |-> op, mgr |-> m])
  <2> DEFINE x == [at |-> "lock", msg |-> [op |-> op, mgr |-> m]]
  <2>1. x \in [at : {"idle", "lock", "write"}, msg : Msg]
    BY MsgFacts
  <2>2. client' = [client EXCEPT ![c] = x]
    BY <1>4 DEF Call
  <2>3. IF op = "shutdown" THEN m = Nobody ELSE m \in owned
    BY <1>4 DEF Call
  <2>4. GoodMsg([op |-> op, mgr |-> m])
    BY <1>1, <2>3, MsgFacts
  <2> HIDE DEF x
  <2>5. ClientType' /\ client'[c] = x /\ \A d \in Clients \ {c} : client'[d] = client[d]
    BY <1>1, <2>1, <2>2, ClientSet
  <2> QED
    BY <2>3, <2>4, <2>5 DEF x
<1>5. CASE Lock(c) /\ write_handle
  <2> DEFINE x == [at |-> "write", msg |-> client[c].msg]
  <2>1. x \in [at : {"idle", "lock", "write"}, msg : Msg]
    BY <1>2
  <2>2. client' = [client EXCEPT ![c].at = "write"]
    BY <1>5 DEF Lock
  <2>3. client'[c] = [client[c] EXCEPT !.at = "write"] /\ ClientType'
        /\ \A d \in Clients \ {c} : client'[d] = client[d]
    BY <1>1, <2>2 DEF ClientType
  <2>4. client'[c] = x
    BY <1>2, <2>3
  <2> QED
    BY <1>5, <2>3, <2>4
<1>6. CASE (Lock(c) /\ ~write_handle) \/ Write(c)
  <2>1. client' = [client EXCEPT ![c] = idle]
    BY <1>6 DEF Lock, Write
  <2> HIDE DEF idle
  <2>2. ClientType' /\ client'[c] = idle /\ \A d \in Clients \ {c} : client'[d] = client[d]
    BY <1>1, <1>3, <2>1, ClientSet
  <2>3. client'[c] = [at |-> "idle", msg |-> NoMsg]
    BY <2>2 DEF idle
  <2> QED
    BY <1>6, <2>2, <2>3
<1>7. Client(c) => \/ \E op \in Opcodes, m \in Managers \cup {Nobody} : Call(c, op, m)
                   \/ Lock(c) \/ Write(c)
  BY DEF Client
<1>8. CASE \E op \in Opcodes, m \in Managers \cup {Nobody} : Call(c, op, m)
  BY <1>4, <1>8
<1>9. CASE Lock(c) \/ Write(c)
  BY <1>5, <1>6, <1>9
<1> QED
  BY <1>7, <1>8, <1>9

(* Messages stay well-formed. *)
LEMMA MessagesKept ==
  ASSUME MpxInv, [Next]_vars
  PROVE  Messages'
<1>1. TypeOK /\ Messages /\ ClientType
  BY DEF MpxInv, TypeOK, ClientType
<1>2. Nobody \notin Clients
  BY MpxAssumption
<1>3. pipe \in Seq(Msg)
  BY <1>1 DEF TypeOK
<1>4. CASE Aside
  BY <1>1, <1>4 DEF Aside, Messages, GoodMsg
<1>5. CASE pipe # <<>> /\ pipe' = Tail(pipe) /\ UNCHANGED <<write_handle, write_lock, client, calls>>
  <2>1. \A k \in DOMAIN Tail(pipe) : k + 1 \in DOMAIN pipe /\ Tail(pipe)[k] = pipe[k + 1]
    BY <1>3, <1>5
  <2>2. \A k \in DOMAIN pipe' : GoodMsg(pipe'[k])
    BY <1>1, <1>5, <2>1 DEF Messages
  <2> QED
    BY <1>1, <1>5, <2>2 DEF Messages
<1>6. CASE ClosePipe
  BY <1>1, <1>2, <1>6 DEF ClosePipe, Messages
<1>7. ASSUME NEW c \in Clients, Client(c)
      PROVE  Messages'
  <2>1. /\ \A d \in Clients \ {c} : client'[d] = client[d]
        /\ \/ \E op \in Opcodes, m \in Managers \cup {Nobody} :
                /\ Call(c, op, m) /\ client'[c] = [at |-> "lock", msg |-> [op |-> op, mgr |-> m]]
                /\ GoodMsg([op |-> op, mgr |-> m])
           \/ /\ Lock(c) /\ write_handle /\ client'[c] = [at |-> "write", msg |-> client[c].msg]
           \/ /\ Lock(c) /\ ~write_handle /\ client'[c] = [at |-> "idle", msg |-> NoMsg]
           \/ Write(c) /\ client'[c] = [at |-> "idle", msg |-> NoMsg]
    BY <1>7, ClientMoves
  <2>2. ASSUME NEW op \in Opcodes, NEW m \in Managers \cup {Nobody}, Call(c, op, m),
               client'[c] = [at |-> "lock", msg |-> [op |-> op, mgr |-> m]],
               GoodMsg([op |-> op, mgr |-> m])
        PROVE  Messages'
    <3>1. UNCHANGED <<pipe, write_handle, write_lock>>
      BY <2>2 DEF Call, pipeVars
    <3> QED
      BY <1>1, <2>1, <2>2, <3>1 DEF Messages
  <2>3. CASE Lock(c) /\ write_handle /\ client'[c] = [at |-> "write", msg |-> client[c].msg]
    <3>1. UNCHANGED <<pipe, write_handle>> /\ write_lock' = c /\ write_lock = Nobody
      BY <2>3 DEF Lock
    <3> QED
      BY <1>1, <1>2, <2>1, <2>3, <3>1 DEF Messages
  <2>4. CASE Lock(c) /\ ~write_handle /\ client'[c] = [at |-> "idle", msg |-> NoMsg]
    <3>1. UNCHANGED <<pipe, write_handle, write_lock>>
      BY <2>4 DEF Lock
    <3> QED
      BY <1>1, <2>1, <2>4, <3>1, MsgFacts DEF Messages
  <2>5. CASE Write(c) /\ client'[c] = [at |-> "idle", msg |-> NoMsg]
    <3>1. /\ write_handle' = write_handle /\ write_lock' = Nobody /\ client[c].at = "write"
          /\ pipe' = Append(pipe, client[c].msg)
      BY <2>5 DEF Write
    <3>2. client[c].msg \in Msg
      BY <1>1 DEF ClientType
    <3>3. \A k \in DOMAIN pipe' : GoodMsg(pipe'[k])
      BY <1>1, <1>3, <3>1, <3>2 DEF Messages
    <3>4. \A d \in Clients \ {c} : client[d].at # "write"
      BY <1>1, <3>1 DEF Messages
    <3> QED
      BY <1>1, <2>1, <2>5, <3>1, <3>3, <3>4, MsgFacts DEF Messages
  <2> QED
    BY <2>1, <2>2, <2>3, <2>4, <2>5
<1> QED
  BY <1>4, <1>5, <1>6, <1>7, NextAside

-----------------------------------------------------------------------------
(* Every step keeps the references accounted for.                          *)

Owned(m) == IF m \in owned THEN 1 ELSE 0

(* InFlight, with the operators of the lemmas. *)
LEMMA InFlightIs ==
  ASSUME NEW m
  PROVE  /\ InFlight(m) = Held(pipe, m) + Cardinality(Callers(m))
         /\ InFlight(m)' = Held(pipe', m) + Cardinality(Callers(m)')
  BY DEF InFlight, Held, Callers

(* The new count of m follows from the old one. *)
LEMMA Balance ==
  ASSUME MpxInv, NEW m \in Managers, pipe' \in Seq(Msg), pollset' \in Seq(Entry),
         IsFiniteSet(Callers(m)')
  PROVE  /\ Held(pollset, m) \in Nat /\ Held(pollset', m) \in Nat
         /\ Held(pipe, m) \in Nat /\ Held(pipe', m) \in Nat
         /\ Cardinality(Callers(m)) \in Nat /\ Cardinality(Callers(m)') \in Nat
         /\ Owned(m) \in {0, 1} /\ Owned(m)' \in {0, 1}
         /\ refs[m] = Held(pollset, m) + Held(pipe, m) + Cardinality(Callers(m)) + Owned(m)
         /\ refs'[m] = Held(pollset', m) + Held(pipe', m) + Cardinality(Callers(m)') + Owned(m)'
              => refs'[m] = Held(pollset', m) + InFlight(m)' + Owned(m)' /\ refs'[m] \in Nat
<1>1. TypeOK /\ Counted
  BY DEF MpxInv
<1>2. pipe \in Seq(Msg) /\ pollset \in Seq(Entry)
  BY <1>1 DEF TypeOK
<1>3. /\ Held(pollset, m) \in Nat /\ Held(pollset', m) \in Nat
      /\ Held(pipe, m) \in Nat /\ Held(pipe', m) \in Nat
  BY <1>2, HeldNat
<1>4. Cardinality(Callers(m)) \in Nat /\ Cardinality(Callers(m)') \in Nat
  BY <1>1, FS_CardinalityType DEF Counted
<1>5. Owned(m) \in {0, 1} /\ Owned(m)' \in {0, 1}
  BY DEF Owned
<1>6. refs[m] = Held(pollset, m) + InFlight(m) + Owned(m)
  BY <1>1 DEF Counted, Owned
<1> QED
  BY <1>3, <1>4, <1>5, <1>6, InFlightIs, SMTT(30)

(* A client that had no message of m and one that had one. *)
LEMMA CallersFacts ==
  ASSUME MpxInv, NEW c \in Clients, NEW m \in Managers,
         \A d \in Clients \ {c} : client'[d] = client[d]
  PROVE  /\ IsFiniteSet(Callers(m)')
         /\ Cardinality(Callers(m)') =
              Cardinality(Callers(m)) + (IF client'[c].msg.mgr = m THEN 1 ELSE 0)
                                      - (IF client[c].msg.mgr = m THEN 1 ELSE 0)
<1> DEFINE S == Callers(m)
           T == Callers(m)'
<1>1. IsFiniteSet(S)
  BY DEF MpxInv, Counted
<1>2. (c \in S) <=> client[c].msg.mgr = m
  BY DEF Callers
<1>3. T = IF client'[c].msg.mgr = m THEN S \cup {c} ELSE S \ {c}
  BY DEF Callers
<1> HIDE DEF S, T
<1>4. Cardinality(S) \in Nat
  BY <1>1, FS_CardinalityType
<1>5. IsFiniteSet(S \cup {c}) /\ Cardinality(S \cup {c}) =
        IF c \in S THEN Cardinality(S) ELSE Cardinality(S) + 1
  BY <1>1, FS_AddElement
<1>6. IsFiniteSet(S \ {c}) /\ Cardinality(S \ {c}) =
        IF c \in S THEN Cardinality(S) - 1 ELSE Cardinality(S)
  BY <1>1, FS_RemoveElement
<1>7. IsFiniteSet(T) /\ Cardinality(T) =
        Cardinality(S) + (IF client'[c].msg.mgr = m THEN 1 ELSE 0)
                       - (IF client[c].msg.mgr = m THEN 1 ELSE 0)
  BY <1>2, <1>3, <1>4, <1>5, <1>6
<1> QED
  BY <1>7 DEF S, T

(* Entries that keep their managers. *)
LEMMA HeldSame ==
  ASSUME NEW m, DOMAIN pollset' = DOMAIN pollset,
         \A k \in DOMAIN pollset : pollset'[k].mgr = pollset[k].mgr
  PROVE  Held(pollset', m) = Held(pollset, m)
<1>1. {k \in DOMAIN pollset' : pollset'[k].mgr = m} = {k \in DOMAIN pollset : pollset[k].mgr = m}
  OBVIOUS
<1> QED
  BY <1>1 DEF Held

PipeType == pipe \in Seq(Msg)

(* The pipe and the clients keep their types. *)
LEMMA PipeKept ==
  ASSUME MpxInv, [Next]_vars
  PROVE  PipeType' /\ ClientType'
<1>1. PipeType /\ ClientType
  BY DEF MpxInv, TypeOK, PipeType, ClientType
<1>2. CASE Aside
  BY <1>1, <1>2 DEF Aside, PipeType, ClientType
<1>3. CASE pipe # <<>> /\ pipe' = Tail(pipe) /\ UNCHANGED <<write_handle, write_lock, client, calls>>
  BY <1>1, <1>3 DEF PipeType, ClientType
<1>4. CASE ClosePipe
  BY <1>1, <1>4 DEF ClosePipe, PipeType, ClientType
<1>5. ASSUME NEW c \in Clients, Client(c)
      PROVE  PipeType' /\ ClientType'
  <2>1. ClientType'
    BY <1>5, ClientMoves
  <2>2. client[c].msg \in Msg
    BY <1>1 DEF ClientType
  <2>3. pipe' = pipe \/ pipe' = Append(pipe, client[c].msg)
    BY <1>5 DEF Client, Call, Lock, Write, pipeVars
  <2> QED
    BY <1>1, <2>1, <2>2, <2>3 DEF PipeType
<1> QED
  BY <1>2, <1>3, <1>4, <1>5, NextAside

(* The reference counts stay what the holders add up to. *)
LEMMA RefsKept ==
  ASSUME MpxInv, [Next]_vars
  PROVE  Counted' /\ refs' \in [Managers -> Nat]
<1>1. TypeOK /\ Counted /\ Messages
  BY DEF MpxInv
<1>2. PipeType' /\ ClientType' /\ SoundReg(Registry')
  BY PipeKept, RegistryKept
<1>3. pipe' \in Seq(Msg) /\ pollset' \in Seq(Entry) /\ pipe \in Seq(Msg)
  BY <1>1, <1>2, TheRegistry DEF PipeType, SoundReg, TypeOK
<1>4. refs \in [Managers -> Nat] /\ owned \subseteq Managers /\ Nobody \notin Managers
  BY <1>1, MpxAssumption DEF TypeOK
<1> DEFINE New(m) == /\ IsFiniteSet(Callers(m)')
                     /\ refs'[m] = Held(pollset', m) + Held(pipe', m)
                                   + Cardinality(Callers(m)') + Owned(m)'
<1>5. ASSUME DOMAIN refs' = Managers, refs' = [m \in Managers |-> refs'[m]],
             \A m \in Managers : New(m)
      PROVE  Counted' /\ refs' \in [Managers -> Nat]
  <2>1. \A m \in Managers :
          refs'[m] = Held(pollset', m) + InFlight(m)' + Owned(m)' /\ refs'[m] \in Nat
    BY <1>3, <1>5, Balance
  <2> QED
    BY <1>5, <2>1 DEF Counted, Owned
<1>6. ASSUME client' = client
      PROVE  \A m \in Managers : IsFiniteSet(Callers(m)')
                                 /\ Cardinality(Callers(m)') = Cardinality(Callers(m))
  BY <1>1, <1>6 DEF Callers, Counted
<1>7. ASSUME owned' = owned
      PROVE  \A m \in Managers : Owned(m)' = Owned(m)
  BY <1>7 DEF Owned
<1>8. CASE (\E m \in Managers : Handle(m)) \/ (\E m \in All : HandleError(m))
           \/ UpdaterEnds \/ ShutdownStep
  <2>1. /\ refs' = [m \in Managers |-> refs[m] + Held(pollset', m) - Held(pollset, m)]
        /\ UNCHANGED <<pipe, client, owned>>
    <3>1. PICK s : Install(s) /\ refs' = RefsAfter(s)
      BY <1>8, Zenon DEF Handle, HandleReady, HandleError, UpdaterEnds, ShutdownStep
    <3>2. UNCHANGED <<pipe, client, owned>>
      BY <1>8 DEF Handle, HandleError, UpdaterEnds, ShutdownStep, pipeVars
    <3> QED
      BY <3>1, <3>2 DEF Install, RefsAfter
  <2>2. \A m \in Managers : New(m)
    BY <1>3, <1>6, <1>7, <2>1, Balance
  <2> QED
    BY <1>5, <2>1, <2>2
<1>9. CASE Poll \/ ScanEnds
  <2>1. UNCHANGED <<refs, pipe, client, owned>>
    BY <1>9 DEF Poll, ScanEnds, pipeVars
  <2>2. \A m : Held(pollset', m) = Held(pollset, m)
    BY <1>9, PollCases, ScanEndsCases, HeldSame DEF SameButResults
  <2>3. \A m \in Managers : New(m)
    BY <1>3, <1>6, <1>7, <2>1, <2>2, Balance
  <2> QED
    BY <1>4, <1>5, <2>1, <2>3
<1>10. CASE UpdateInit \/ \E op \in Ops : UpdateRegister(op)
  <2> DEFINE h == Head(pipe).mgr
  <2>1. h \in Managers /\ refs' = [RefsAfter(Registry') EXCEPT ![h] = @ - 1]
    BY <1>10, UpdateCases
  <2>2. pipe # <<>> /\ pipe' = Tail(pipe) /\ UNCHANGED <<client, owned>>
    BY <1>10 DEF UpdateInit, UpdateRegister, TakeMsg
  <2>3. \A m \in Managers : Held(pipe, m) = Held(pipe', m) + (IF h = m THEN 1 ELSE 0)
    BY <1>3, <2>2, HeldTail
  <2> HIDE DEF h
  <2>4. RefsAfter(Registry') = [m \in Managers |-> refs[m] + Held(pollset', m) - Held(pollset, m)]
    BY TheRegistry DEF RefsAfter
  <2>5. ASSUME NEW m \in Managers
        PROVE  refs'[m] = refs[m] + Held(pollset', m) - Held(pollset, m) - (IF h = m THEN 1 ELSE 0)
    <3>1. refs[m] \in Nat /\ Held(pollset', m) \in Nat /\ Held(pollset, m) \in Nat
      BY <1>3, <1>4, <1>6, <2>2, Balance
    <3> QED
      BY <2>1, <2>4, <3>1
  <2>6. \A m \in Managers : New(m)
    <3> TAKE m \in Managers
    <3>1. /\ IsFiniteSet(Callers(m)') /\ Cardinality(Callers(m)') = Cardinality(Callers(m))
          /\ Owned(m)' = Owned(m)
      BY <1>6, <1>7, <2>2
    <3>2. /\ Held(pollset, m) \in Nat /\ Held(pollset', m) \in Nat
          /\ Held(pipe, m) \in Nat /\ Held(pipe', m) \in Nat
          /\ Cardinality(Callers(m)) \in Nat /\ Owned(m) \in {0, 1}
          /\ refs[m] = Held(pollset, m) + Held(pipe, m) + Cardinality(Callers(m)) + Owned(m)
      BY <1>3, <3>1, Balance
    <3>3. refs'[m] = refs[m] + Held(pollset', m) - Held(pollset, m) - (IF h = m THEN 1 ELSE 0)
      BY <2>5
    <3>4. Held(pipe, m) = Held(pipe', m) + (IF h = m THEN 1 ELSE 0)
      BY <2>3
    <3>5. CASE h = m
      BY <3>1, <3>2, <3>3, <3>4, <3>5
    <3>6. CASE h # m
      BY <3>1, <3>2, <3>3, <3>4, <3>6
    <3> QED
      BY <3>5, <3>6
  <2> QED
    BY <1>5, <2>1, <2>4, <2>6
<1>11. CASE UpdateShutdown
  <2>1. /\ pipe # <<>> /\ pipe' = Tail(pipe) /\ Head(pipe).op = "shutdown"
        /\ UNCHANGED <<client, owned, refs, pollset>>
    BY <1>11 DEF UpdateShutdown, TakeMsg
  <2>2. Head(pipe).mgr = Nobody
    BY <1>1, <1>3, <2>1 DEF Messages, GoodMsg
  <2>3. \A m \in Managers : Held(pipe, m) = Held(pipe', m) + 0
    BY <1>3, <1>4, <2>1, <2>2, HeldTail
  <2>4. \A m \in Managers : New(m)
    BY <1>3, <1>6, <1>7, <2>1, <2>3, Balance
  <2> QED
    BY <1>4, <1>5, <2>1, <2>4
<1>12. CASE UNCHANGED <<refs, pipe, client, owned, pollset>>
  <2>1. \A m \in Managers : New(m)
    BY <1>3, <1>6, <1>7, <1>12, Balance
  <2> QED
    BY <1>4, <1>5, <1>12, <2>1
<1>13. ASSUME NEW c \in Clients, Client(c)
       PROVE  Counted' /\ refs' \in [Managers -> Nat]
  <2> DEFINE old(m) == IF client[c].msg.mgr = m THEN 1 ELSE 0
             new(m) == IF client'[c].msg.mgr = m THEN 1 ELSE 0
  <2>1. /\ \A d \in Clients \ {c} : client'[d] = client[d]
        /\ \/ \E op \in Opcodes, m \in Managers \cup {Nobody} :
                /\ Call(c, op, m) /\ client'[c] = [at |-> "lock", msg |-> [op |-> op, mgr |-> m]]
           \/ /\ Lock(c) /\ write_handle /\ client'[c] = [at |-> "write", msg |-> client[c].msg]
           \/ /\ Lock(c) /\ ~write_handle /\ client'[c] = [at |-> "idle", msg |-> NoMsg]
           \/ Write(c) /\ client'[c] = [at |-> "idle", msg |-> NoMsg]
    BY <1>13, ClientMoves
  <2>2. UNCHANGED <<pollset, owned>>
    BY <1>13 DEF Client, Call, Lock, Write, pollVars
  <2>3. \A m \in Managers :
          /\ IsFiniteSet(Callers(m)')
          /\ Cardinality(Callers(m)') = Cardinality(Callers(m)) + new(m) - old(m)
    BY <2>1, CallersFacts
  <2>4. ASSUME DOMAIN refs' = Managers, refs' = [m \in Managers |-> refs'[m]],
               \A m \in Managers :
                 refs'[m] - Held(pipe', m) = refs[m] - Held(pipe, m) + new(m) - old(m)
                 /\ refs'[m] \in Int
        PROVE  Counted' /\ refs' \in [Managers -> Nat]
    <3>1. ASSUME NEW m \in Managers
          PROVE  New(m)
      <4>1. /\ IsFiniteSet(Callers(m)') /\ Owned(m)' = Owned(m)
            /\ Cardinality(Callers(m)') = Cardinality(Callers(m)) + new(m) - old(m)
            /\ refs'[m] - Held(pipe', m) = refs[m] - Held(pipe, m) + new(m) - old(m)
            /\ refs'[m] \in Int
        BY <1>7, <2>2, <2>3, <2>4
      <4>2. /\ Held(pollset, m) \in Nat /\ Held(pollset', m) = Held(pollset, m)
            /\ Held(pipe, m) \in Nat /\ Held(pipe', m) \in Nat
            /\ Cardinality(Callers(m)) \in Nat /\ Owned(m) \in {0, 1}
            /\ refs[m] = Held(pollset, m) + Held(pipe, m) + Cardinality(Callers(m)) + Owned(m)
        BY <1>3, <2>2, <4>1, Balance
      <4>3. old(m) \in {0, 1} /\ new(m) \in {0, 1}
        OBVIOUS
      <4> HIDE DEF old, new
      <4> QED
        BY <4>1, <4>2, <4>3
    <3> HIDE DEF New
    <3> QED
      BY <1>5, <2>4, <3>1
  <2>5. \A m \in Managers : refs[m] \in Int /\ Held(pipe, m) \in Int /\ Held(pipe', m) \in Int
    <3>1. \A m \in Managers : Held(pipe, m) \in Nat /\ Held(pipe', m) \in Nat
      BY <1>3, HeldNat
    <3> QED
      BY <1>4, <3>1
  <2>6. ASSUME NEW op \in Opcodes, NEW m \in Managers \cup {Nobody}, Call(c, op, m),
               client'[c] = [at |-> "lock", msg |-> [op |-> op, mgr |-> m]]
        PROVE  Counted' /\ refs' \in [Managers -> Nat]
    <3>1. client[c].at = "idle" /\ pipe' = pipe
          /\ refs' = IF m = Nobody THEN refs ELSE [refs EXCEPT ![m] = @ + 1]
      BY <2>6 DEF Call, pipeVars
    <3>2. client[c].msg.mgr = Nobody
      BY <1>1, <3>1, MsgFacts DEF Messages
    <3>3. client'[c].msg.mgr = m
      BY <2>6
    <3>4. \A x \in Managers : old(x) = 0 /\ new(x) = IF m = x THEN 1 ELSE 0
      BY <1>4, <3>2, <3>3
    <3> HIDE DEF old, new
    <3>5. refs' \in [Managers -> Int] /\ \A x \in Managers : refs'[x] = refs[x] + new(x)
      BY <1>4, <3>1, <3>4
    <3> QED
      BY <2>4, <2>5, <3>1, <3>4, <3>5
  <2>7. CASE Lock(c) /\ write_handle /\ client'[c] = [at |-> "write", msg |-> client[c].msg]
    <3>1. pipe' = pipe /\ refs' = refs
      BY <2>7 DEF Lock
    <3>2. \A x \in Managers : new(x) = old(x) /\ old(x) \in Int
      BY <2>7
    <3> HIDE DEF old, new
    <3> QED
      BY <1>4, <2>4, <2>5, <3>1, <3>2
  <2>8. CASE Lock(c) /\ ~write_handle /\ client'[c] = [at |-> "idle", msg |-> NoMsg]
    <3> DEFINE m == client[c].msg.mgr
    <3>1. pipe' = pipe /\ refs' = IF m = Nobody THEN refs ELSE [refs EXCEPT ![m] = @ - 1]
      BY <2>8 DEF Lock
    <3>2. \A x \in Managers : new(x) = 0 /\ old(x) = IF m = x THEN 1 ELSE 0
      BY <1>4, <2>8, MsgFacts
    <3>3. m \in Managers \cup {Nobody}
      BY <1>1 DEF TypeOK, Msg
    <3> HIDE DEF old, new, m
    <3>4. refs' \in [Managers -> Int] /\ \A x \in Managers : refs'[x] = refs[x] - old(x)
      BY <1>4, <3>1, <3>2, <3>3
    <3> QED
      BY <2>4, <2>5, <3>1, <3>2, <3>4
  <2>9. CASE Write(c) /\ client'[c] = [at |-> "idle", msg |-> NoMsg]
    <3>1. pipe' = Append(pipe, client[c].msg) /\ refs' = refs
      BY <2>9 DEF Write
    <3>2. client[c].msg \in Msg
      BY <1>1 DEF TypeOK
    <3>3. \A x \in Managers : Held(pipe', x) = Held(pipe, x) + old(x)
      BY <1>3, <3>1, <3>2, HeldAppend
    <3>4. \A x \in Managers : new(x) = 0 /\ old(x) \in Int
      BY <1>4, <2>9, MsgFacts
    <3> HIDE DEF old, new
    <3> QED
      BY <1>4, <2>4, <2>5, <3>1, <3>3, <3>4
  <2> QED
    BY <2>1, <2>6, <2>7, <2>8, <2>9
<1>14. ASSUME NEW m \in Managers, Release(m)
       PROVE  Counted' /\ refs' \in [Managers -> Nat]
  <2>1. /\ m \in owned /\ owned' = owned \ {m} /\ refs' = [refs EXCEPT ![m] = @ - 1]
        /\ UNCHANGED <<pollset, pipe, client>>
    BY <1>14 DEF Release, pollVars, pipeVars
  <2>2. ASSUME NEW x \in Managers
        PROVE  New(x)
    <3>1. /\ IsFiniteSet(Callers(x)') /\ Cardinality(Callers(x)') = Cardinality(Callers(x))
      BY <1>6, <2>1
    <3>2. /\ Held(pollset, x) \in Nat /\ Held(pipe, x) \in Nat
          /\ Cardinality(Callers(x)) \in Nat
          /\ refs[x] = Held(pollset, x) + Held(pipe, x) + Cardinality(Callers(x)) + Owned(x)
      BY <1>3, <3>1, Balance
    <3>3. CASE x = m
      <4>1. Owned(x) = 1 /\ Owned(x)' = 0 /\ refs'[x] = refs[x] - 1
        BY <1>4, <2>1, <3>3 DEF Owned
      <4> QED
        BY <2>1, <3>1, <3>2, <4>1
    <3>4. CASE x # m
      <4>1. Owned(x)' = Owned(x) /\ refs'[x] = refs[x]
        BY <1>4, <2>1, <3>4 DEF Owned
      <4> QED
        BY <2>1, <3>1, <3>2, <4>1
    <3> QED
      BY <3>3, <3>4
  <2>3. DOMAIN refs' = Managers /\ refs' = [x \in Managers |-> refs'[x]]
    BY <1>4, <2>1
  <2> HIDE DEF New
  <2> QED
    BY <1>5, <2>2, <2>3
<1>15. CASE RunEnds \/ ScanSkips \/ UpdaterStarts \/ ShutdownEnds \/ ClosePipe \/ Waiting
            \/ UNCHANGED vars
  <2>1. UNCHANGED <<refs, pipe, client, owned, pollset>>
    BY <1>15 DEF RunEnds, ScanSkips, UpdaterStarts, ShutdownEnds, ClosePipe, Waiting, vars,
       pollVars, pipeVars
  <2> QED
    BY <1>12, <2>1
<1> QED
  BY <1>8, <1>9, <1>10, <1>11, <1>13, <1>14, <1>15, NextSplit DEF Apart

-----------------------------------------------------------------------------
(* The theorems.                                                           *)

(* All other variables keep their types. *)
LEMMA TypesKept ==
  ASSUME MpxInv, [Next]_vars
  PROVE  TypeOK'
<1>1. TypeOK /\ Phases
  BY DEF MpxInv
<1>2. pollset' \in Seq(Entry) /\ mask' \in [All -> SUBSET Ops]
  BY RegistryKept, TheRegistry DEF SoundReg
<1>3. pipe' \in Seq(Msg) /\ client' \in [Clients -> [at : {"idle", "lock", "write"}, msg : Msg]]
  BY PipeKept DEF PipeType, ClientType
<1>4. refs' \in [Managers -> Nat]
  BY RefsKept
<1>5. shutting_down' \in BOOLEAN
  <2>1. shutting_down' = shutting_down \/ shutting_down' = TRUE
    BY Zenon DEF Next, MpxThread, Poll, RunEnds, ScanEnds, ScanSkips, Handle, HandleError,
       UpdaterStarts, UpdateRegister, UpdateInit, UpdateShutdown, ShutdownStep, ShutdownEnds,
       ClosePipe, UpdaterEnds, Client, Call, Lock, Write, Release, Waiting, vars, pollVars
  <2> QED
    BY <1>1, <2>1, Zenon DEF TypeOK
<1>6. write_handle' \in BOOLEAN
  <2>1. write_handle' = write_handle \/ write_handle' = FALSE
    BY NextAside, Zenon DEF Aside, ClosePipe, Client, Call, Lock, Write, pipeVars
  <2> QED
    BY <1>1, <2>1, Zenon DEF TypeOK
<1>7. write_lock' \in Clients \cup {Nobody} /\ calls' \in 0 .. MaxCalls
  <2>1. \/ write_lock' = write_lock /\ calls' = calls
        \/ write_lock' \in Clients \cup {Nobody} /\ calls' = calls
        \/ write_lock' = write_lock /\ calls < MaxCalls /\ calls' = calls + 1
    BY NextAside DEF Aside, ClosePipe, Client, Call, Lock, Write, pipeVars
  <2>2. MaxCalls \in Nat
    BY MpxAssumption
  <2> QED
    BY <1>1, <2>1, <2>2 DEF TypeOK
<1>8. owned' \subseteq Managers /\ torn' \subseteq Managers
  <2>1. owned' \subseteq owned
    BY DEF Next, MpxThread, Poll, RunEnds, ScanEnds, ScanSkips, Handle, HandleError,
       UpdaterStarts, UpdateRegister, UpdateInit, UpdateShutdown, ShutdownStep, ShutdownEnds,
       ClosePipe, UpdaterEnds, Client, Call, Lock, Write, Release, Waiting, vars
  <2>2. torn' = torn \/ \E m \in Managers : torn' \in {torn, torn \cup {m}}
    BY NextSplit, ApartKeeps, HandleCases DEF Poll, ScanEnds, HandleError, UpdaterEnds,
       ShutdownStep, UpdateInit, UpdateRegister
  <2> QED
    BY <1>1, <2>1, <2>2 DEF TypeOK
<1>9. MpxType'
  <2>1. MpxType /\ mpx.i \in Nat /\ mpx.j \in Nat /\ mpx.presult \in Nat
    BY <1>1 DEF TypeOK, MpxType
  <2>2. CASE \/ \E m \in Managers : Handle(m)
             \/ \E m \in All : HandleError(m)
             \/ UpdaterEnds
    <3>1. mpx.presult > 0
      BY <1>1, <2>2 DEF Handle, HandleError, UpdaterEnds, Scanning, Phases
    <3>2. PICK F : NextIndex(F)
      BY <2>2, Zenon DEF Handle, HandleReady, HandleError, UpdaterEnds
    <3>3. mpx.presult - 1 \in Nat /\ mpx.i + 1 \in Nat
      BY <2>1, <3>1
    <3> QED
      BY <2>1, <3>2, <3>3 DEF NextIndex, MpxType
  <2>3. CASE Poll
    <3>1. PICK n : mpx' = [at |-> "scan", i |-> 1, j |-> 0, presult |-> n]
      BY <2>3 DEF Poll
    <3>2. n \in Nat
      BY <2>3, <3>1, PollCases
    <3> QED
      BY <3>1, <3>2 DEF MpxType
  <2>4. CASE ShutdownStep
    <3>1. PICK n : mpx' = [mpx EXCEPT !.j = n]
      BY <2>4 DEF ShutdownStep
    <3>2. n \in Nat
      BY <2>1, <2>4, <3>1, ShutdownCases DEF MpxType
    <3> QED
      BY <2>1, <3>1, <3>2 DEF MpxType
  <2>5. CASE \/ RunEnds \/ ScanEnds \/ ScanSkips \/ UpdaterStarts \/ UpdateShutdown
             \/ ShutdownEnds \/ ClosePipe
    <3>1. CASE RunEnds \/ UpdaterStarts \/ ClosePipe
      BY <2>1, <3>1 DEF RunEnds, UpdaterStarts, ClosePipe, MpxType
    <3>2. CASE ScanEnds
      BY <3>2 DEF ScanEnds, MpxType
    <3>3. CASE ScanSkips
      BY <2>1, <3>3 DEF ScanSkips, MpxType
    <3>4. CASE UpdateShutdown
      BY <2>1, <3>4 DEF UpdateShutdown, MpxType
    <3>5. CASE ShutdownEnds
      BY <2>1, <3>5 DEF ShutdownEnds, MpxType
    <3> QED
      BY <2>5, <3>1, <3>2, <3>3, <3>4, <3>5
  <2>6. CASE UNCHANGED mpx
    BY <2>1, <2>6 DEF MpxType
  <2>7. CASE \/ UpdateInit \/ \E op \in Ops : UpdateRegister(op)
             \/ (\E c \in Clients : Client(c)) \/ (\E m \in Managers : Release(m))
             \/ Waiting \/ UNCHANGED vars
    <3>1. UNCHANGED mpx
      BY <2>7, Zenon DEF UpdateInit, UpdateRegister, Client, Call, Lock, Write, Release, Waiting, vars
    <3> QED
      BY <2>6, <3>1
  <2> QED
    BY <2>2, <2>3, <2>4, <2>5, <2>7, NextSplit DEF Apart
<1> QED
  BY <1>2, <1>3, <1>4, <1>5, <1>6, <1>7, <1>8, <1>9 DEF TypeOK, MpxType

(* After init() only the pollset updater is registered. *)
LEMMA InitInv ==
  ASSUME Init
  PROVE  MpxInv
<1> DEFINE e == [mgr |-> Updater, events |-> {"read"}, revents |-> {}]
<1>1. pollset = <<e>> /\ e \in Entry
  BY DEF Init, Entry, All, Ops
<1>2. /\ pollset \in Seq(Entry) /\ Len(pollset) = 1 /\ DOMAIN pollset = {1}
      /\ pollset[1].mgr = Updater /\ pollset[1].events = {"read"} /\ pollset[1].revents = {}
  BY <1>1
<1>3. /\ mask \in [All -> SUBSET Ops] /\ mask[Updater] = {"read"}
      /\ \A m \in Managers : mask[m] = {} /\ m # Updater
  BY MpxAssumption DEF Init, All, Ops
<1>4. pipe = <<>> /\ \A c \in Clients : client[c].msg = NoMsg /\ client[c].at = "idle"
  BY DEF Init
<1>5. TypeOK
  <2>1. [at |-> "idle", msg |-> NoMsg] \in [at : {"idle", "lock", "write"}, msg : Msg]
    BY MsgFacts
  <2>2. shutting_down \in BOOLEAN /\ write_handle \in BOOLEAN
    BY Zenon DEF Init
  <2>3. pipe \in Seq(Msg)
    BY <1>4
  <2>4. /\ write_lock \in Clients \cup {Nobody} /\ calls \in 0 .. MaxCalls
        /\ owned \subseteq Managers /\ refs \in [Managers -> Nat] /\ torn \subseteq Managers
    BY MpxAssumption DEF Init
  <2>5. mpx \in [at : {"run", "scan", "updater", "shutdown", "close", "done"},
                 i : Nat, presult : Nat, j : Nat]
    BY DEF Init
  <2>6. client \in [Clients -> [at : {"idle", "lock", "write"}, msg : Msg]]
    BY <2>1 DEF Init
  <2> QED
    BY <1>2, <1>3, <2>2, <2>3, <2>4, <2>5, <2>6 DEF TypeOK
<1>6. SoundReg(Registry)
  BY <1>2, <1>3, TheRegistry DEF SoundReg
<1>7. \A m \in Managers : Exact(Registry, m)
  BY <1>2, <1>3, TheRegistry DEF Exact
<1>8. Polled = {Updater}
  BY <1>2 DEF Polled
<1>9. NoInput /\ Asked
  BY <1>2 DEF Init, NoInput, Asked
<1>10. UpdaterStays /\ Phases
  <2>1. UpdaterStays
    BY <1>2, <1>3, <1>8 DEF UpdaterStays
  <2>2. mpx.at = "run" /\ mpx.i = 1
    BY DEF Init
  <2> QED
    BY <2>1, <2>2 DEF Phases
<1>11. Messages
  BY <1>4, MsgFacts DEF Messages
<1>12. Counted
  <2> SUFFICES ASSUME NEW m \in Managers
               PROVE  /\ IsFiniteSet(Callers(m))
                      /\ refs[m] = Held(pollset, m) + InFlight(m) + (IF m \in owned THEN 1 ELSE 0)
    BY DEF Counted
  <2>1. Callers(m) = {}
    BY <1>4, MsgFacts, MpxAssumption DEF Callers
  <2>2. {k \in DOMAIN pollset : pollset[k].mgr = m} = {} /\ {k \in DOMAIN pipe : pipe[k].mgr = m} = {}
    BY <1>2, <1>3, <1>4
  <2>3. Cardinality({}) = 0 /\ IsFiniteSet({})
    BY FS_EmptySet
  <2>4. Held(pollset, m) = 0 /\ Held(pipe, m) = 0 /\ Cardinality(Callers(m)) = 0
    BY <2>1, <2>2, <2>3 DEF Held
  <2>5. InFlight(m) = 0
    BY <2>4, InFlightIs
  <2>6. refs[m] = 1 /\ m \in owned
    BY DEF Init
  <2> QED
    BY <2>1, <2>3, <2>4, <2>5, <2>6
<1> QED
  BY <1>5, <1>6, <1>7, <1>9, <1>10, <1>11, <1>12 DEF MpxInv

(* The inductive invariant of the multiplexer holds of every behaviour:    *)
(* whatever the handlers and the other threads do, in whatever order.      *)
THEOREM MpxInvariant == Spec => []MpxInv
<1>1. Init => MpxInv
  BY InitInv
<1>2. MpxInv /\ [Next]_vars => MpxInv'
  <2> SUFFICES ASSUME MpxInv, [Next]_vars
               PROVE  MpxInv'
    OBVIOUS
  <2>1. TypeOK' /\ Scan' /\ Messages' /\ Counted'
    BY TypesKept, ScanKept, MessagesKept, RefsKept
  <2>2. SoundReg(Registry)' /\ \A m \in Managers \ torn' : Exact(Registry, m)'
    BY RegistryKept DEF SoundReg, Exact
  <2> QED
    BY <2>1, <2>2 DEF MpxInv, Scan
<1> QED
  BY <1>1, <1>2, PTL DEF Spec

(* The variables keep their types; in particular no reference count of a   *)
(* manager drops below zero and presult of poll_once never does.           *)
THEOREM MpxTypes == Spec => []TypeOK
<1>1. MpxInv => TypeOK
  BY DEF MpxInv
<1> QED
  BY <1>1, MpxInvariant, PTL

(* The pollset that poll_once iterates over is sound whatever handlers,    *)
(* callers and errors do to it: one entry per manager, none without        *)
(* events, none for an operation that was not registered, none for input   *)
(* after shutdown(); masks agree with it; and the index that poll_once     *)
(* keeps while the updater adds and deletes entries is the updater's.      *)
THEOREM MpxPollsetSound == Spec => []PollsetSound
<1>1. MpxInv => PollsetSound
  <2> SUFFICES ASSUME MpxInv
               PROVE  PollsetSound
    OBVIOUS
  <2>1. SoundReg(Registry) /\ NoInput /\ Phases /\ TypeOK
    BY DEF MpxInv
  <2>2. SoundEntries
    BY <2>1, TheRegistry DEF SoundEntries, SoundReg, NoInput
  <2>3. ASSUME NEW m \in Managers \ torn
        PROVE  mask[m] = UNION {pollset[k].events : k \in Positions(Registry, m)}
    <3>1. Exact(Registry, m)
      BY DEF MpxInv
    <3>2. mask[m] \subseteq Ops /\ \A k \in DOMAIN pollset : pollset[k].events \subseteq Ops
      BY <2>1, EntryType DEF TypeOK, All
    <3>3. \A op \in Ops : op \in mask[m] <=>
            \E k \in DOMAIN pollset : pollset[k].mgr = m /\ op \in pollset[k].events
      BY <3>1, TheRegistry DEF Exact
    <3>4. Positions(Registry, m) = {k \in DOMAIN pollset : pollset[k].mgr = m}
      BY TheRegistry DEF Positions
    <3> QED
      BY <3>2, <3>3, <3>4
  <2>4. UpdaterIsFirst
    BY <2>1 DEF Phases, UpdaterIsFirst
  <2> QED
    BY <2>2, <2>3, <2>4 DEF PollsetSound, UntornIsPolled
<1> QED
  BY <1>1, MpxInvariant, PTL

(* No reference is leaked or dropped twice: not by messages in flight, not *)
(* by a pipe that closes in the middle of a call, not by shutdown(); and   *)
(* run() returns only after the pipe was closed and drained.               *)
THEOREM MpxRefsBalanced == Spec => []RefsBalanced
<1>1. MpxInv => RefsBalanced
  <2> SUFFICES ASSUME MpxInv
               PROVE  RefsBalanced
    OBVIOUS
  <2>1. Counted /\ Phases /\ UpdaterStays
    BY DEF MpxInv
  <2>2. mpx.at = "done" => Updater \notin Polled
    BY <2>1 DEF Phases, Polled
  <2> QED
    BY <2>1, <2>2 DEF RefsBalanced, Counted, UpdaterStays
<1> QED
  BY <1>1, MpxInvariant, PTL

(* Once shutdown() began no step adds a manager to the pollset: late       *)
(* requests to register or to initialize are discarded.                    *)
THEOREM MpxShutdownShrinks == Spec => ShutdownShrinks
<1>1. MpxInv /\ [Next]_vars => [shutting_down => Polled' \subseteq Polled]_vars
  <2> SUFFICES ASSUME MpxInv, [Next]_vars, shutting_down
               PROVE  Polled' \subseteq Polled
    OBVIOUS
  <2> SUFFICES \A k \in DOMAIN pollset' :
                 \E l \in DOMAIN pollset : pollset[l].mgr = pollset'[k].mgr
    BY DEF Polled
  <2>1. TypeOK /\ UpdaterStays
    BY DEF MpxInv
  <2>2. /\ DOMAIN pollset = 1 .. Len(pollset) /\ Len(pollset) \in Nat
    BY <2>1, EntryType DEF TypeOK
  <2>3. ASSUME NEW k \in DOMAIN pollset, NEW Y, Deletion(Registry, Registry', k, Y)
        PROVE  \A h \in DOMAIN pollset' :
                 \E l \in DOMAIN pollset : pollset[l].mgr = pollset'[h].mgr
    <3>1. /\ pollset' \in Seq(Entry) /\ Len(pollset') = Len(pollset) - 1
          /\ \A l \in 1 .. Len(pollset) - 1 :
               pollset'[l] = IF l < k THEN pollset[l] ELSE pollset[l + 1]
      BY <2>3, TheRegistry DEF Deletion
    <3>2. DOMAIN pollset' = 1 .. Len(pollset) - 1
      BY <3>1, EntryType
    <3> QED
      BY <2>2, <3>1, <3>2
  <2>4. ASSUME NEW k \in DOMAIN pollset, NEW X, NEW Y, Edit(Registry, Registry', k, X, Y)
        PROVE  \A h \in DOMAIN pollset' :
                 \E l \in DOMAIN pollset : pollset[l].mgr = pollset'[h].mgr
    <3>1. /\ pollset' \in Seq(Entry) /\ Len(pollset') = Len(pollset)
          /\ \A l \in DOMAIN pollset \ {k} : pollset'[l] = pollset[l]
          /\ pollset'[k].mgr = pollset[k].mgr
      BY <2>4, TheRegistry DEF Edit
    <3>2. DOMAIN pollset' = DOMAIN pollset
      BY <2>2, <3>1, EntryType
    <3> QED
      BY <3>1, <3>2
  <2>5. CASE Apart
    BY <2>5, ApartKeeps
  <2>6. CASE Poll \/ ScanEnds
    BY <2>6, PollCases, ScanEndsCases DEF SameButResults
  <2>7. CASE \E m \in Managers : Handle(m)
    BY <2>3, <2>4, <2>7, HandleCases
  <2>8. CASE \E m \in All : HandleError(m)
    BY <2>3, <2>8, HandleErrorCases
  <2>9. CASE UpdaterEnds
    BY <2>3, <2>9, UpdaterEndsCases, TheRegistry
  <2>10. CASE ShutdownStep
    BY <2>3, <2>4, <2>10, ShutdownCases
  <2>11. CASE UpdateInit \/ \E op \in Ops : UpdateRegister(op)
    <3>1. Grown(Registry, Registry', Head(pipe).mgr)
      BY <2>11, UpdateCases
    <3> QED
      BY <3>1, TheRegistry DEF Grown
  <2> QED
    BY <2>5, <2>6, <2>7, <2>8, <2>9, <2>10, <2>11, NextSplit
<1> QED
  BY <1>1, MpxInvariant, PTL DEF Spec, ShutdownShrinks
=============================================================================
