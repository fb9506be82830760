------------------------- MODULE LengthPrefixProofs -------------------------
(***************************************************************************)
(* Proofs about length-prefix framing over the stream transport: for any   *)
(* sizes of messages, buffers and chunks, the receiver gets the messages   *)
(* of the sender, whole, in order and each once, and neither buffer gets   *)
(* stuck.                                                                  *)
(***************************************************************************)
EXTENDS LengthPrefix, Integers, FiniteSetTheorems, NaturalsInduction, TLAPS

-----------------------------------------------------------------------------
(* The inductive invariant *)

(* Where frame c starts, or would start. *)
StartOf(c) == IF c = 1 THEN 0 ELSE EndOf(frames[c - 1])

(* Frames follow each other in the stream.  A header out of range is the   *)
(* last thing a sender writes.                                             *)
Chained ==
  /\ \A i \in Frames : frames[i].start = StartOf(i)
  /\ \A i, j \in Frames : i < j => EndOf(frames[i]) <= frames[j].start
  /\ \A i \in Frames :
       frames[i].len = IF frames[i].size > max_message_length THEN 0 ELSE frames[i].size
  /\ \A i \in Frames : frames[i].size > max_message_length => i = Len(frames) /\ tx_failed

(* The bytes in s are those from position `from' on. *)
Run(s, from) == \A k \in DOMAIN s : s[k] = from + k - 1

(* Where the contents of the buffers start in the stream. *)
OutStart == NextStart - Len(write_buf)
WireStart == OutStart - Len(wire)
RxStart == WireStart - Len(rx.buf)

(* Read buffer, wire and write buffer hold, together, the end of the stream*)
(* without gap and repetition.                                             *)
Stream ==
  /\ RxStart >= 0
  /\ Run(rx.buf, RxStart) /\ Run(wire, WireStart) /\ Run(write_buf, OutStart)

(* The receive policy is the one that length_prefix_framing asked for, and *)
(* handle_read_event makes the buffer large enough.  A receiver that failed*)
(* is not called again.                                                    *)
Policy ==
  /\ rx.min_read_size = HeaderSize /\ rx.max_read_size = bound
  /\ default_receive_size <= bound
  /\ in_event => bound <= rx.size
  /\ rx_failed => ~in_event /\ ~reading

(* The read buffer starts with frame c, whose messages before it were      *)
(* delivered, and holds less than this frame; if it holds the header, the  *)
(* upper bound has room for the frame.                                     *)
Pending(c) ==
  /\ RxStart = StartOf(c) /\ Len(delivered) = Messages(c - 1)
  /\ \/ Len(rx.buf) < HeaderSize
     \/ /\ c \in Frames /\ frames[c].size <= max_message_length
        /\ Len(rx.buf) < HeaderSize + frames[c].size
        /\ HeaderSize + frames[c].size <= bound

Boundary == ~rx_failed => \E c \in 1 .. (Len(frames) + 1) : Pending(c)

Prefix ==
  /\ Len(delivered) <= Messages(Len(frames))
  /\ \A k \in DOMAIN delivered : delivered[k] = Sent[k]

LPInv == TypeOK /\ Chained /\ Stream /\ Policy /\ Boundary /\ Prefix /\ OutputIsArmed

-----------------------------------------------------------------------------
(* Numbers *)

(* What the assumptions say of the constants. *)
LEMMA Constants ==
  /\ HeaderSize \in Nat \ {0} /\ default_receive_size \in Nat
  /\ HeaderSize <= default_receive_size /\ max_message_length \in Nat
  /\ Sizes \subseteq 0 .. (max_message_length - 1)
  /\ MaxFrames \in Nat /\ WireCapacity \in Nat \ {0} /\ max_consecutive_reads \in Nat \ {0}
  BY LPAssumption, TransportAssumption

(* Every nonempty set of natural numbers has a least element. *)
LEMMA LeastNat ==
  ASSUME NEW T, T \subseteq Nat, T # {}
  PROVE  \E x \in T : \A y \in T : x <= y
<1>1. PICK x \in T : \A y \in T : ~(<<y, x>> \in OpToRel(<, Nat))
  BY NatLessThanWellFounded, WFMin
<1>2. \A y \in T : ~(y < x)
  BY <1>1 DEF OpToRel
<1> QED
  BY <1>2

(* A bounded one has a greatest, which Max chooses. *)
LEMMA MaxNat ==
  ASSUME NEW T, T \subseteq Nat, T # {}, NEW n \in Nat, \A y \in T : y <= n
  PROVE  Max(T) \in T /\ \A y \in T : y <= Max(T)
<1> DEFINE U == {z \in Nat : \E y \in T : z = n - y}
<1>1. PICK y \in T : TRUE
  OBVIOUS
<1>2. n - y \in U
  BY <1>1
<1>3. PICK x \in U : \A z \in U : x <= z
  <2>1. U \subseteq Nat /\ U # {}
    BY <1>2
  <2> HIDE DEF U
  <2> QED
    BY <2>1, LeastNat
<1>4. PICK m \in T : x = n - m
  BY <1>3
<1>5. \A z \in T : n - z \in U
  OBVIOUS
<1>6. \A z \in T : m >= z
  <2> TAKE z \in T
  <2>1. n - m <= n - z /\ z \in Nat /\ m \in Nat
    BY <1>3, <1>4, <1>5
  <2> QED
    BY <2>1
<1>7. Max(T) \in T /\ \A z \in T : Max(T) >= z
  BY <1>6 DEF Max
<1> QED
  BY <1>7

-----------------------------------------------------------------------------
(* Frames and the messages in them *)

FramesOK == frames \in Seq(Frame) /\ Chained

(* The fields of a frame and where it ends. *)
LEMMA FrameFacts ==
  ASSUME FramesOK
  PROVE  /\ Frames = 1 .. Len(frames) /\ Len(frames) \in Nat
         /\ \A i \in Frames :
              /\ frames[i].start \in Nat /\ frames[i].len \in Nat /\ frames[i].size \in Nat
              /\ EndOf(frames[i]) = frames[i].start + HeaderSize + frames[i].len
              /\ EndOf(frames[i]) \in Nat
              /\ frames[i].size <= max_message_length => frames[i].len = frames[i].size
<1>1. frames \in Seq(Frame)
  BY DEF FramesOK
<1>2. \A i \in Frames : frames[i] \in Frame
  BY <1>1 DEF Frames
<1>3. \A i \in Frames :
        /\ frames[i].start \in Nat /\ frames[i].len \in Nat /\ frames[i].size \in Nat
  BY <1>2, Constants DEF Frame
<1>4. \A i \in Frames : frames[i].size <= max_message_length => frames[i].len = frames[i].size
  BY <1>3, Constants DEF FramesOK, Chained
<1> QED
  BY <1>1, <1>3, <1>4, Constants DEF Frames, EndOf

(* Frames start where the one before ends; the stream ends with the last.  *)
LEMMA StartFacts ==
  ASSUME FramesOK
  PROVE  /\ \A c \in 1 .. (Len(frames) + 1) : StartOf(c) \in Nat /\ StartOf(c) <= NextStart
         /\ \A c \in Frames : /\ frames[c].start = StartOf(c)
                              /\ StartOf(c + 1) = EndOf(frames[c])
                              /\ StartOf(c + 1) = StartOf(c) + HeaderSize + frames[c].len
         /\ \A c, e \in 1 .. (Len(frames) + 1) : c < e => StartOf(c) < StartOf(e)
         /\ NextStart = StartOf(Len(frames) + 1)
<1> DEFINE n == Len(frames)
<1>1. /\ Frames = 1 .. n /\ n \in Nat
      /\ \A i \in Frames :
           /\ frames[i].start \in Nat /\ frames[i].len \in Nat
           /\ EndOf(frames[i]) = frames[i].start + HeaderSize + frames[i].len
           /\ EndOf(frames[i]) \in Nat
  BY FrameFacts
<1>2. \A c \in Frames : frames[c].start = StartOf(c)
  BY DEF FramesOK, Chained
<1>3. \A c \in Frames : StartOf(c + 1) = EndOf(frames[c])
  BY <1>1 DEF StartOf
<1>4. \A c \in 1 .. (n + 1) : StartOf(c) \in Nat
  BY <1>1 DEF StartOf
<1>5. NextStart = StartOf(n + 1)
  <2>1. frames \in Seq(Frame)
    BY DEF FramesOK
  <2>2. CASE frames = <<>>
    BY <2>2 DEF NextStart, StartOf
  <2>3. CASE frames # <<>>
    BY <1>1, <2>1, <2>3 DEF NextStart, StartOf
  <2> QED
    BY <2>2, <2>3
<1>6. \A c, e \in 1 .. (n + 1) : c < e => StartOf(c) < StartOf(e)
  <2> SUFFICES ASSUME NEW c \in 1 .. (n + 1), NEW e \in 1 .. (n + 1), c < e
               PROVE  StartOf(c) < StartOf(e)
    OBVIOUS
  <2>1. c \in Frames /\ e - 1 \in Frames /\ c <= e - 1
    BY <1>1
  <2>2. StartOf(e) = EndOf(frames[e - 1])
    BY <1>1, <2>1 DEF StartOf
  <2>3. StartOf(c) < EndOf(frames[c])
    BY <1>1, <1>2, <2>1, Constants, SMTT(30)
  <2>4. CASE c = e - 1
    BY <2>2, <2>3, <2>4
  <2>5. CASE c < e - 1
    <3>1. EndOf(frames[c]) <= frames[e - 1].start
      BY <2>1, <2>5 DEF FramesOK, Chained
    <3>2. PICK g \in Frames : g = e - 1
      BY <2>1
    <3>3. frames[g].start <= EndOf(frames[g])
      BY <1>1, Constants
    <3>4. /\ StartOf(c) \in Nat /\ EndOf(frames[c]) \in Nat
          /\ frames[g].start \in Nat /\ EndOf(frames[g]) \in Nat
      BY <1>1, <1>4, <2>1
    <3> QED
      BY <2>2, <2>3, <3>1, <3>2, <3>3, <3>4
  <2> QED
    BY <1>1, <2>1, <2>4, <2>5
<1>7. \A c \in 1 .. (n + 1) : StartOf(c) <= NextStart
  <2> TAKE c \in 1 .. (n + 1)
  <2>1. CASE c = n + 1
    BY <1>1, <1>4, <1>5, <2>1
  <2>2. CASE c < n + 1
    BY <1>1, <1>4, <1>5, <1>6, <2>2
  <2> QED
    BY <1>1, <2>1, <2>2
<1> QED
  BY <1>1, <1>2, <1>3, <1>4, <1>5, <1>6, <1>7

(* Messages among the first k of the frames fs. *)
Count(fs, k) == Cardinality({j \in 1 .. k : IsMessage(fs[j])})

(* One frame more adds at most one message. *)
LEMMA CountStep ==
  ASSUME NEW fs, NEW k \in Nat
  PROVE  /\ Count(fs, 0) = 0
         /\ Count(fs, k) \in Nat
         /\ Count(fs, k + 1) = Count(fs, k) + (IF IsMessage(fs[k + 1]) THEN 1 ELSE 0)
<1> DEFINE S(n) == {j \in 1 .. n : IsMessage(fs[j])}
<1>1. \A n \in Nat : IsFiniteSet(S(n)) /\ Cardinality(S(n)) \in Nat
  <2> TAKE n \in Nat
  <2>1. IsFiniteSet(1 .. n) /\ S(n) \in SUBSET (1 .. n)
    BY FS_Interval
  <2> QED
    BY <2>1, FS_Subset, FS_CardinalityType
<1>2. S(0) = {}
  OBVIOUS
<1>3. Count(fs, 0) = 0
  BY <1>2, FS_EmptySet DEF Count
<1>4. CASE IsMessage(fs[k + 1])
  <2>1. S(k + 1) = S(k) \cup {k + 1} /\ k + 1 \notin S(k)
    BY <1>4
  <2> QED
    BY <1>1, <1>3, <1>4, <2>1, FS_AddElement DEF Count
<1>5. CASE ~IsMessage(fs[k + 1])
  <2>1. S(k + 1) = S(k)
    BY <1>5
  <2> QED
    BY <1>1, <1>3, <1>5, <2>1 DEF Count
<1> QED
  BY <1>4, <1>5

(* Counting messages. *)
LEMMA MessagesCount ==
  ASSUME NEW k \in Nat
  PROVE  /\ Messages(0) = 0
         /\ Messages(k) \in Nat
         /\ Messages(k + 1) = Messages(k) + (IF IsMessage(frames[k + 1]) THEN 1 ELSE 0)
<1>1. \A n : Messages(n) = Count(frames, n)
  BY DEF Messages, Count
<1> QED
  BY <1>1, CountStep

(* ... is monotone ... *)
LEMMA MessagesMonotone ==
  ASSUME NEW k \in Nat, NEW l \in Nat, k <= l
  PROVE  Messages(k) <= Messages(l)
<1> DEFINE S(n) == {j \in 1 .. n : IsMessage(frames[j])}
<1>1. IsFiniteSet(1 .. l) /\ S(l) \in SUBSET (1 .. l)
  BY FS_Interval
<1>2. IsFiniteSet(S(l))
  BY <1>1, FS_Subset
<1>3. S(k) \in SUBSET S(l)
  OBVIOUS
<1> QED
  BY <1>2, <1>3, FS_Subset DEF Messages

(* ... and tells the frames with messages apart. *)
LEMMA MessageFrameIs ==
  ASSUME FramesOK, NEW i \in 1 .. Messages(Len(frames))
  PROVE  LET j == MessageFrame(i)
         IN  /\ j \in Frames /\ IsMessage(frames[j]) /\ Messages(j) = i
             /\ Messages(j - 1) = i - 1
             /\ \A l \in Frames : IsMessage(frames[l]) /\ Messages(l) = i => l = j
<1> DEFINE n == Len(frames)
           T == {k \in Nat : Messages(k) >= i}
<1>1. Frames = 1 .. n /\ n \in Nat
  BY FrameFacts
<1>2. \A k \in Nat : Messages(k) \in Nat
  BY MessagesCount
<1>3. i \in Nat \ {0} /\ n \in T
  BY <1>1, <1>2
<1>4. PICK m \in T : \A k \in T : m <= k
  <2>1. T \subseteq Nat /\ T # {}
    BY <1>3
  <2> HIDE DEF T
  <2> QED
    BY <2>1, LeastNat
<1>5. m \in Nat /\ m <= n /\ m # 0 /\ Messages(m) \in Nat /\ Messages(m) >= i
  <2>1. m \in Nat /\ m <= n /\ Messages(m) >= i
    BY <1>3, <1>4
  <2>2. Messages(0) = 0 /\ ~(0 >= i)
    BY <1>3, MessagesCount
  <2>3. m # 0
    BY <2>1, <2>2
  <2> QED
    BY <1>2, <2>1, <2>3
<1>6. m - 1 \in Nat /\ Messages(m - 1) < i /\ Messages(m - 1) \in Nat
  <2>1. m - 1 \in Nat /\ ~(m <= m - 1)
    BY <1>5
  <2>2. m - 1 \notin T
    BY <1>4, <2>1
  <2> QED
    BY <1>2, <1>3, <2>1, <2>2
<1>7. Messages((m - 1) + 1) = Messages(m - 1) + (IF IsMessage(frames[(m - 1) + 1]) THEN 1 ELSE 0)
  BY <1>6, MessagesCount
<1>8. Messages(m) = Messages(m - 1) + (IF IsMessage(frames[m]) THEN 1 ELSE 0)
  <2>1. (m - 1) + 1 = m
    BY <1>5
  <2> QED
    BY <1>7, <2>1
<1>9. m \in Frames /\ IsMessage(frames[m]) /\ Messages(m) = i
  <2>1. m \in Frames
    BY <1>1, <1>5
  <2>2. IsMessage(frames[m])
    BY <1>3, <1>5, <1>6, <1>8
  <2>3. Messages(m) = Messages(m - 1) + 1
    BY <1>8, <2>2
  <2>4. Messages(m) = i
    BY <1>3, <1>5, <1>6, <2>3
  <2> QED
    BY <2>1, <2>2, <2>4
<1>10. ASSUME NEW l \in Frames, IsMessage(frames[l]), NEW j \in Frames, Messages(l) = Messages(j),
              l > j
       PROVE  FALSE
  <2>1. l - 1 \in Nat /\ (l - 1) + 1 = l /\ j <= l - 1 /\ j \in Nat
    BY <1>1, <1>10
  <2>2. Messages(j) <= Messages(l - 1)
    BY <2>1, MessagesMonotone
  <2>3. Messages((l - 1) + 1) = Messages(l - 1) + (IF IsMessage(frames[(l - 1) + 1]) THEN 1 ELSE 0)
    BY <2>1, MessagesCount
  <2>4. Messages(l) = Messages(l - 1) + 1
    BY <1>10, <2>1, <2>3
  <2> QED
    BY <1>2, <1>10, <2>1, <2>2, <2>4
<1>11. \A l \in Frames : IsMessage(frames[l]) /\ Messages(l) = i => l = m
  <2> SUFFICES ASSUME NEW l \in Frames, IsMessage(frames[l]), Messages(l) = i, l # m
               PROVE  FALSE
    OBVIOUS
  <2>1. l > m \/ m > l
    BY <1>1, <1>5
  <2> QED
    BY <1>9, <1>10, <2>1
<1>12. MessageFrame(i) = m
  BY <1>9, <1>11 DEF MessageFrame
<1>13. Messages(m - 1) = i - 1
  <2>1. Messages(m) = Messages(m - 1) + 1
    BY <1>8, <1>9
  <2> QED
    BY <1>3, <1>6, <1>9, <2>1
<1> QED
  BY <1>9, <1>11, <1>12, <1>13

(* Messages are sequences of bytes. *)
LEMMA SentIs ==
  ASSUME FramesOK
  PROVE  /\ Sent \in Seq(Seq(Nat)) /\ Len(Sent) = Messages(Len(frames))
         /\ DOMAIN Sent = 1 .. Messages(Len(frames)) /\ Messages(Len(frames)) \in Nat
         /\ \A i \in DOMAIN Sent : Sent[i] = Payload(frames[MessageFrame(i)])
<1> DEFINE n == Messages(Len(frames))
<1>1. n \in Nat
  BY FrameFacts, MessagesCount
<1>2. \A i \in 1 .. n : Payload(frames[MessageFrame(i)]) \in Seq(Nat)
  <2> TAKE i \in 1 .. n
  <2>1. PICK j : j = MessageFrame(i)
    OBVIOUS
  <2>2. j \in Frames
    BY <2>1, MessageFrameIs
  <2>3. frames[j].start \in Nat /\ frames[j].len \in Nat
        /\ EndOf(frames[j]) = frames[j].start + HeaderSize + frames[j].len
    BY <2>2, FrameFacts
  <2>4. Payload(frames[j]) = [k \in 1 .. frames[j].len |-> frames[j].start + HeaderSize + k - 1]
    BY <2>3, Constants DEF Payload, Bytes
  <2>5. \A k \in 1 .. frames[j].len : frames[j].start + HeaderSize + k - 1 \in Nat
    BY <2>3, Constants
  <2> QED
    BY <2>1, <2>3, <2>4, <2>5
<1> HIDE DEF n
<1>3. Sent = [i \in 1 .. n |-> Payload(frames[MessageFrame(i)])]
  BY DEF Sent, n
<1>4. Sent \in Seq(Seq(Nat)) /\ Len(Sent) = n
  BY <1>1, <1>2, <1>3
<1> QED
  BY <1>1, <1>3, <1>4 DEF n

(* A new frame at the end leaves the others where they were. *)
LEMMA NewFrameKeeps ==
  ASSUME FramesOK, NEW f \in Frame, frames' = Append(frames, f), f.start = NextStart,
         f.len = IF f.size > max_message_length THEN 0 ELSE f.size,
         ~tx_failed, f.size > max_message_length => tx_failed'
  PROVE  /\ FramesOK'
         /\ Len(frames') = Len(frames) + 1 /\ Frames \subseteq Frames'
         /\ \A i \in Frames : frames'[i] = frames[i]
         /\ \A c \in 1 .. (Len(frames) + 1) : StartOf(c)' = StartOf(c)
         /\ NextStart' = NextStart + HeaderSize + f.len
         /\ \A k \in 0 .. Len(frames) : Messages(k)' = Messages(k)
         /\ Messages(Len(frames))' = Messages(Len(frames)) + (IF IsMessage(f) THEN 1 ELSE 0)
         /\ \A i \in 1 .. Messages(Len(frames)) : MessageFrame(i)' = MessageFrame(i)
<1>0. PICK n : n = Len(frames)
  OBVIOUS
<1>1. /\ frames \in Seq(Frame) /\ Frames = 1 .. n /\ n \in Nat
      /\ f.start \in Nat /\ f.len \in Nat /\ f.size \in Nat
  BY <1>0, FrameFacts, Constants DEF FramesOK, Frame
<1>2. /\ frames' \in Seq(Frame) /\ Len(frames') = n + 1 /\ Frames' = 1 .. (n + 1)
      /\ \A i \in Frames : frames'[i] = frames[i]
      /\ frames'[n + 1] = f
  BY <1>0, <1>1 DEF Frames
<1>3. \A i \in Frames' : (i \in Frames /\ frames'[i] = frames[i]) \/ (i = n + 1 /\ frames'[i] = f)
  BY <1>1, <1>2
<1>4. \A c \in 1 .. (n + 1) : StartOf(c)' = StartOf(c)
  <2> TAKE c \in 1 .. (n + 1)
  <2>1. c = 1 \/ (c # 1 /\ c - 1 \in Frames)
    BY <1>1
  <2> QED
    BY <1>2, <2>1 DEF StartOf, EndOf
<1>5. NextStart = StartOf(n + 1) /\ StartOf(n + 1) = f.start
  BY <1>0, StartFacts
<1>6. NextStart' = NextStart + HeaderSize + f.len
  <2>1. frames' # <<>>
    BY <1>1, <1>2
  <2> QED
    BY <1>2, <2>1 DEF NextStart, EndOf
<1>7. Chained'
  <2>1. \A i \in Frames' : frames'[i].start = StartOf(i)'
    <3> TAKE i \in Frames'
    <3>1. i \in 1 .. (n + 1)
      BY <1>2
    <3>2. CASE i \in Frames
      <4>1. frames[i].start = StartOf(i)
        BY <3>2, StartFacts
      <4> QED
        BY <1>2, <1>4, <3>1, <3>2, <4>1
    <3>3. CASE i = n + 1
      BY <1>2, <1>4, <1>5, <3>1, <3>3
    <3> QED
      BY <1>3, <3>2, <3>3
  <2>2. \A i \in Frames : EndOf(frames[i]) <= f.start
    <3> TAKE i \in Frames
    <3>1. EndOf(frames[i]) = StartOf(i + 1)
      BY StartFacts
    <3>2. i + 1 \in 1 .. (n + 1)
      BY <1>1
    <3> QED
      BY <1>0, <1>5, <3>1, <3>2, StartFacts
  <2>3. \A i, j \in Frames' : i < j => EndOf(frames'[i]) <= frames'[j].start
    <3> SUFFICES ASSUME NEW i \in Frames', NEW j \in Frames', i < j
                 PROVE  EndOf(frames'[i]) <= frames'[j].start
      OBVIOUS
    <3>1. i \in Frames /\ frames'[i] = frames[i]
      BY <1>1, <1>2
    <3>2. CASE j \in Frames
      BY <1>2, <3>1, <3>2 DEF FramesOK, Chained
    <3>3. CASE j = n + 1
      BY <1>2, <2>2, <3>1, <3>3
    <3> QED
      BY <1>3, <3>2, <3>3
  <2>4. \A i \in Frames' :
          frames'[i].len = IF frames'[i].size > max_message_length THEN 0 ELSE frames'[i].size
    BY <1>3 DEF FramesOK, Chained
  <2>5. \A i \in Frames' : frames'[i].size > max_message_length => i = Len(frames') /\ tx_failed'
    BY <1>1, <1>2, <1>3 DEF FramesOK, Chained
  <2> QED
    BY <2>1, <2>3, <2>4, <2>5 DEF Chained, EndOf
<1>8. \A k \in 0 .. n : Messages(k)' = Messages(k)
  <2> TAKE k \in 0 .. n
  <2>1. {j \in 1 .. k : IsMessage(frames'[j])} = {j \in 1 .. k : IsMessage(frames[j])}
    BY <1>1, <1>2
  <2> QED
    BY <2>1 DEF Messages, IsMessage
<1>9. Messages(n + 1)' = Messages(n) + (IF IsMessage(f) THEN 1 ELSE 0)
  <2>1. Count(frames', n + 1) = Count(frames', n) + (IF IsMessage(frames'[n + 1]) THEN 1 ELSE 0)
    BY <1>1, CountStep
  <2>2. Messages(n + 1)' = Count(frames', n + 1) /\ Messages(n)' = Count(frames', n)
    BY DEF Messages, Count, IsMessage
  <2> QED
    BY <1>1, <1>2, <1>8, <2>1, <2>2
<1>10. ASSUME NEW i \in 1 .. Messages(n)
       PROVE  MessageFrame(i)' = MessageFrame(i)
  <2>1. PICK j : j = MessageFrame(i)
    OBVIOUS
  <2>2. /\ j \in Frames /\ IsMessage(frames[j]) /\ Messages(j) = i
        /\ \A l \in Frames : IsMessage(frames[l]) /\ Messages(l) = i => l = j
    BY <1>0, <2>1, MessageFrameIs
  <2>3. j \in Frames' /\ IsMessage(frames'[j]) /\ Messages(j)' = i
    BY <1>1, <1>2, <1>8, <2>2
  <2>4. ASSUME NEW l \in Frames', IsMessage(frames'[l]), Messages(l)' = i
        PROVE  l = j
    <3>1. CASE l \in Frames
      BY <1>1, <1>2, <1>8, <2>2, <2>4, <3>1
    <3>2. CASE l = n + 1
      <4>1. Messages(n) \in Nat
        BY <1>1, MessagesCount
      <4>2. Messages(n + 1)' = Messages(n) + 1
        BY <1>2, <1>9, <2>4, <3>2
      <4> QED
        BY <2>4, <3>2, <4>1, <4>2
    <3> QED
      BY <1>3, <3>1, <3>2
  <2>5. MessageFrame(i)' = CHOOSE l \in Frames' : IsMessage(frames'[l]) /\ Messages(l)' = i
    BY DEF MessageFrame, Messages, IsMessage
  <2> QED
    BY <2>1, <2>3, <2>4, <2>5
<1>11. Messages(Len(frames))' = Messages(n + 1)'
  BY <1>2
<1> QED
  BY <1>0, <1>1, <1>2, <1>4, <1>6, <1>7, <1>8, <1>9, <1>10, <1>11 DEF FramesOK

-----------------------------------------------------------------------------
(* Runs of bytes *)

(* A part of a run is a run. *)
LEMMA SubRun ==
  ASSUME NEW s \in Seq(Nat), NEW from \in Int, Run(s, from), NEW a \in Nat, NEW b \in Nat,
         a <= b, b <= Len(s)
  PROVE  LET x == SubSeq(s, a + 1, b)
         IN  /\ x \in Seq(Nat) /\ Len(x) = b - a /\ Run(x, from + a)
             /\ x = [k \in 1 .. (b - a) |-> from + a + k - 1]
<1> DEFINE x == SubSeq(s, a + 1, b)
<1>1. /\ x \in Seq(Nat) /\ Len(x) = b - a
      /\ DOMAIN x = 1 .. (b - a)
      /\ \A k \in 1 .. (b - a) : x[k] = s[a + k]
  OBVIOUS
<1> HIDE DEF x
<1>2. \A k \in 1 .. (b - a) : x[k] = from + a + k - 1
  <2> TAKE k \in 1 .. (b - a)
  <2>1. a + k \in DOMAIN s
    OBVIOUS
  <2>2. s[a + k] = from + (a + k) - 1
    BY <2>1 DEF Run
  <2> QED
    BY <1>1, <2>2, SMTT(30)
<1>3. x = [k \in 1 .. (b - a) |-> from + a + k - 1]
  BY <1>1, <1>2
<1> QED
  BY <1>1, <1>2, <1>3 DEF Run, x

(* Two runs that meet are one. *)
LEMMA JoinRuns ==
  ASSUME NEW s \in Seq(Nat), NEW t \in Seq(Nat), NEW from \in Int, Run(s, from),
         Run(t, from + Len(s))
  PROVE  s \o t \in Seq(Nat) /\ Len(s \o t) = Len(s) + Len(t) /\ Run(s \o t, from)
<1> DEFINE x == s \o t
<1>1. /\ x \in Seq(Nat) /\ Len(x) = Len(s) + Len(t) /\ Len(s) \in Nat /\ Len(t) \in Nat
      /\ DOMAIN x = 1 .. (Len(s) + Len(t))
      /\ \A k \in 1 .. Len(s) : x[k] = s[k]
      /\ \A k \in (Len(s) + 1) .. (Len(s) + Len(t)) : x[k] = t[k - Len(s)]
  OBVIOUS
<1> HIDE DEF x
<1>2. \A k \in 1 .. Len(s) : x[k] = from + k - 1
  <2>1. DOMAIN s = 1 .. Len(s) /\ DOMAIN t = 1 .. Len(t)
    OBVIOUS
  <2> QED
    BY <1>1, <2>1 DEF Run
<1>3. \A k \in (Len(s) + 1) .. (Len(s) + Len(t)) : x[k] = from + k - 1
  <2> TAKE k \in (Len(s) + 1) .. (Len(s) + Len(t))
  <2>1. k - Len(s) \in DOMAIN t
    BY <1>1
  <2>2. t[k - Len(s)] = from + Len(s) + (k - Len(s)) - 1
    BY <2>1 DEF Run
  <2> QED
    BY <1>1, <2>2
<1>4. Run(x, from)
  <2>1. \A k \in DOMAIN x : k \in 1 .. Len(s) \/ k \in (Len(s) + 1) .. (Len(s) + Len(t))
    BY <1>1
  <2> QED
    BY <1>2, <1>3, <2>1 DEF Run
<1> QED
  BY <1>1, <1>4 DEF x

-----------------------------------------------------------------------------
(* consume() *)

(* The input is a nonempty part of the stream that starts with frame c.    *)
Input(input, c) ==
  /\ input \in Seq(Nat) /\ input # <<>>
  /\ c \in 1 .. (Len(frames) + 1)
  /\ Run(input, StartOf(c)) /\ StartOf(c) + Len(input) <= NextStart

(* consume() finds frame c at the start of the input. *)
LEMMA InputStarts ==
  ASSUME FramesOK, NEW input, NEW c, Input(input, c)
  PROVE  c \in Frames /\ Aligned(input) /\ First(input) = c /\ Head(input) = StartOf(c)
<1>1. /\ Frames = 1 .. Len(frames) /\ Len(frames) \in Nat /\ Len(input) \in Nat \ {0}
      /\ c \in 1 .. (Len(frames) + 1)
  BY FrameFacts DEF Input
<1>2. Head(input) = StartOf(c)
  <2>1. Head(input) = input[1] /\ 1 \in DOMAIN input
    BY DEF Input
  <2>2. input[1] = StartOf(c) + 1 - 1 /\ StartOf(c) \in Nat
    BY <2>1, StartFacts DEF Input, Run
  <2> QED
    BY <2>1, <2>2
<1>3. c \in Frames
  <2> SUFFICES ASSUME c = Len(frames) + 1 PROVE FALSE
    BY <1>1
  <2>1. StartOf(c) = NextStart /\ StartOf(c) \in Nat
    BY StartFacts DEF Input
  <2> QED
    BY <1>1, <2>1 DEF Input
<1>4. frames[c].start = Head(input)
  BY <1>2, <1>3, StartFacts
<1>5. ASSUME NEW i \in Frames, frames[i].start = Head(input)
      PROVE  i = c
  <2>1. StartOf(i) = StartOf(c) /\ StartOf(i) \in Nat
    BY <1>1, <1>2, <1>5, StartFacts
  <2>2. ~(i < c) /\ ~(c < i)
    <3>1. i \in 1 .. (Len(frames) + 1)
      BY <1>1
    <3> QED
      BY <1>1, <2>1, <3>1, StartFacts
  <2> QED
    BY <1>1, <2>2
<1> QED
  BY <1>2, <1>3, <1>4, <1>5 DEF Aligned, First

(* consume() stops before the first frame that is incomplete or out of     *)
(* range.                                                                  *)
LEMMA ConsumeStops ==
  ASSUME FramesOK, NEW input, NEW c, Input(input, c)
  PROVE  LET last == LastComplete(input)
         IN  /\ last \in (c - 1) .. Len(frames)
             /\ \A j \in c .. last : frames[j].size <= max_message_length
             /\ StartOf(last + 1) <= StartOf(c) + Len(input)
             /\ Consumed(input) = StartOf(last + 1) - StartOf(c)
             /\ \A k \in Complete(input) : k \in c .. last
             /\ last + 1 \in Frames => \/ frames[last + 1].size > max_message_length
                                       \/ StartOf(last + 2) > StartOf(c) + Len(input)
<1> DEFINE T == Complete(input) \cup {c - 1}
           last == LastComplete(input)
<1>1. /\ Frames = 1 .. Len(frames) /\ Len(frames) \in Nat /\ Len(input) \in Nat \ {0}
      /\ c \in Frames /\ Aligned(input) /\ First(input) = c /\ Head(input) = StartOf(c)
  BY FrameFacts, InputStarts DEF Input
<1>2. /\ \A k \in Frames : EndOf(frames[k]) = StartOf(k + 1) /\ StartOf(k + 1) \in Nat
      /\ StartOf(c) \in Nat
  <2>1. \A k \in Frames : k + 1 \in 1 .. (Len(frames) + 1) /\ k \in 1 .. (Len(frames) + 1)
    BY <1>1
  <2> QED
    BY <1>1, <2>1, StartFacts
<1>3. Complete(input) =
        {k \in Frames : /\ k >= c /\ StartOf(k + 1) - StartOf(c) <= Len(input)
                        /\ \A j \in c .. k : frames[j].size <= max_message_length}
  BY <1>1, <1>2 DEF Complete
<1>4. last = Max(T)
  BY <1>1 DEF LastComplete
<1>5. T \subseteq Nat /\ T # {} /\ \A y \in T : y <= Len(frames)
  BY <1>1, <1>3
<1>6. Max(T) \in T /\ \A y \in T : y <= Max(T)
  <2> HIDE DEF T
  <2> QED
    BY <1>1, <1>5, MaxNat
<1> HIDE DEF last
<1>7. last \in Nat /\ (last \in Complete(input) \/ last = c - 1) /\ \A y \in T : y <= last
  BY <1>4, <1>5, <1>6
<1>8. last \in (c - 1) .. Len(frames)
  BY <1>1, <1>3, <1>7
<1>9. \A j \in c .. last : frames[j].size <= max_message_length
  BY <1>1, <1>3, <1>7
<1>10. \A k \in Complete(input) : k \in c .. last
  BY <1>1, <1>3, <1>7
<1>11. ASSUME last \in Complete(input)
       PROVE  /\ StartOf(last + 1) <= StartOf(c) + Len(input)
              /\ Consumed(input) = StartOf(last + 1) - StartOf(c)
  <2>1. last \in Frames /\ StartOf(last + 1) - StartOf(c) <= Len(input)
    BY <1>3, <1>11
  <2>2. StartOf(last + 1) <= StartOf(c) + Len(input)
    BY <1>1, <1>2, <2>1
  <2>3. Consumed(input) = EndOf(frames[last]) - StartOf(c)
    BY <1>1, <1>11 DEF Consumed, last
  <2> QED
    BY <1>2, <2>1, <2>2, <2>3
<1>12. ASSUME last \notin Complete(input)
       PROVE  /\ StartOf(last + 1) <= StartOf(c) + Len(input)
              /\ Consumed(input) = StartOf(last + 1) - StartOf(c)
  <2>1. last = c - 1 /\ last + 1 = c
    BY <1>1, <1>7, <1>12
  <2>2. Complete(input) = {}
    <3> SUFFICES ASSUME NEW k \in Complete(input) PROVE FALSE
      OBVIOUS
    <3>1. k \in c .. last
      BY <1>10
    <3> QED
      BY <1>1, <2>1, <3>1
  <2>3. Consumed(input) = 0
    BY <1>1, <2>2 DEF Consumed
  <2> QED
    BY <1>1, <1>2, <2>1, <2>3
<1>13. ASSUME last + 1 \in Frames, frames[last + 1].size <= max_message_length,
              StartOf(last + 2) <= StartOf(c) + Len(input)
       PROVE  FALSE
  <2>1. PICK k \in Frames : k = last + 1
    BY <1>13
  <2>2. k >= c /\ last + 2 = k + 1
    BY <1>1, <1>8, <2>1
  <2>3. StartOf(k + 1) - StartOf(c) <= Len(input)
    BY <1>1, <1>2, <1>13, <2>1, <2>2
  <2>4. \A j \in c .. k : frames[j].size <= max_message_length
    BY <1>1, <1>8, <1>9, <1>13, <2>1
  <2>5. k \in Complete(input)
    BY <1>3, <2>2, <2>3, <2>4
  <2> QED
    BY <1>7, <1>10, <2>1, <2>5
<1>14. last + 1 \in Frames => \/ frames[last + 1].size > max_message_length
                              \/ StartOf(last + 2) > StartOf(c) + Len(input)
  <2> SUFFICES ASSUME last + 1 \in Frames
               PROVE  \/ frames[last + 1].size > max_message_length
                      \/ StartOf(last + 2) > StartOf(c) + Len(input)
    OBVIOUS
  <2>1. StartOf((last + 1) + 1) \in Nat /\ (last + 1) + 1 = last + 2
    BY <1>2, <1>8
  <2>2. frames[last + 1].size \in Nat
    BY FrameFacts
  <2> QED
    BY <1>1, <1>2, <1>13, <2>1, <2>2, Constants, SMTT(30)
<1> QED
  BY <1>8, <1>9, <1>10, <1>11, <1>12, <1>14 DEF last

(* With a header after the consumed bytes there is another frame. *)
LEMMA NextHeader ==
  ASSUME FramesOK, NEW input, NEW c, Input(input, c), HasHeader(input)
  PROVE  LET last == LastComplete(input)
         IN  /\ last + 1 \in Frames /\ NextSize(input) = frames[last + 1].size
             /\ NextSize(input) \in Nat
             /\ NextSize(input) <= max_message_length
                  => Len(input) - Consumed(input) < HeaderSize + NextSize(input)
<1>0. PICK last : last = LastComplete(input)
  OBVIOUS
<1>1. /\ last \in (c - 1) .. Len(frames)
      /\ StartOf(last + 1) <= StartOf(c) + Len(input)
      /\ Consumed(input) = StartOf(last + 1) - StartOf(c)
      /\ last + 1 \in Frames => \/ frames[last + 1].size > max_message_length
                                \/ StartOf(last + 2) > StartOf(c) + Len(input)
  BY <1>0, ConsumeStops
<1>2. /\ Frames = 1 .. Len(frames) /\ Len(frames) \in Nat /\ Len(input) \in Nat
      /\ c \in Frames /\ StartOf(c) + Len(input) <= NextStart
  BY FrameFacts, InputStarts DEF Input
<1>3. last + 1 \in 1 .. (Len(frames) + 1) /\ c \in 1 .. (Len(frames) + 1)
  BY <1>1, <1>2
<1>4. StartOf(last + 1) \in Nat /\ StartOf(c) \in Nat /\ NextStart = StartOf(Len(frames) + 1)
  BY <1>3, StartFacts
<1>5. Len(input) - Consumed(input) >= HeaderSize
  BY DEF HasHeader
<1>6. last + 1 # Len(frames) + 1
  BY <1>1, <1>2, <1>4, <1>5, Constants
<1>7. PICK k \in Frames : k = last + 1
  BY <1>2, <1>3, <1>6
<1>8. frames[k].size \in Nat /\ frames[k].len \in Nat
      /\ (frames[k].size <= max_message_length => frames[k].len = frames[k].size)
      /\ StartOf(k + 1) = StartOf(k) + HeaderSize + frames[k].len
  BY FrameFacts, StartFacts
<1>9. NextSize(input) = frames[k].size
  BY <1>0, <1>7 DEF NextSize
<1>10. ASSUME frames[k].size <= max_message_length
       PROVE  Len(input) - Consumed(input) < HeaderSize + frames[k].size
  <2>1. k + 1 = last + 2
    BY <1>1, <1>2, <1>7
  <2>2. StartOf(k + 1) > StartOf(c) + Len(input)
    BY <1>1, <1>7, <1>8, <1>10, <2>1, Constants
  <2> QED
    BY <1>1, <1>2, <1>4, <1>7, <1>8, <1>10, <2>2, Constants, SMTT(30)
<1> QED
  BY <1>0, <1>7, <1>8, <1>9, <1>10

(* The upper layer gets the messages of the frames, each as a whole. *)
LEMMA PayloadsAre ==
  ASSUME FramesOK, NEW input, NEW c, Input(input, c),
         NEW k \in (c - 1) .. LastComplete(input)
  PROVE  LET n == Messages(k) - Messages(c - 1)
             x == Payloads(input, k)
         IN  /\ n \in Nat /\ Messages(c - 1) \in Nat /\ x \in Seq(Seq(Nat)) /\ Len(x) = n
             /\ Messages(k) <= Messages(Len(frames))
             /\ \A i \in 1 .. n : x[i] = Sent[Messages(c - 1) + i]
<1>0. PICK last, p, q, x : /\ last = LastComplete(input) /\ p = Messages(c - 1)
                           /\ q = Messages(k) /\ x = Payloads(input, k)
  OBVIOUS
<1>1. /\ last \in (c - 1) .. Len(frames) /\ k \in (c - 1) .. last
      /\ \A j \in c .. last : frames[j].size <= max_message_length
      /\ StartOf(last + 1) <= StartOf(c) + Len(input)
  BY <1>0, ConsumeStops
<1>2. /\ Frames = 1 .. Len(frames) /\ Len(frames) \in Nat /\ Len(input) \in Nat
      /\ c \in Frames /\ Aligned(input) /\ First(input) = c /\ Head(input) = StartOf(c)
      /\ input \in Seq(Nat) /\ Run(input, StartOf(c))
  BY FrameFacts, InputStarts DEF Input
<1>3. c - 1 \in Nat /\ k \in Nat /\ c - 1 <= k /\ k <= Len(frames)
  BY <1>1, <1>2
<1>4. p \in Nat /\ q \in Nat /\ p <= q /\ q <= Messages(Len(frames))
      /\ Messages(Len(frames)) \in Nat
  BY <1>0, <1>2, <1>3, MessagesCount, MessagesMonotone
<1> DEFINE from(j) == frames[j].start - Head(input) + HeaderSize
           payload(j) == SubSeq(input, from(j) + 1, from(j) + frames[j].size)
<1>5. x = [i \in 1 .. (q - p) |-> payload(MessageFrame(p + i))]
  BY <1>0, <1>2 DEF Payloads
<1>6. ASSUME NEW i \in 1 .. (q - p)
      PROVE  payload(MessageFrame(p + i)) = Sent[p + i] /\ Sent[p + i] \in Seq(Nat)
  <2>1. PICK m \in 1 .. Messages(Len(frames)) : m = p + i
    BY <1>4
  <2>2. PICK j : j = MessageFrame(m)
    OBVIOUS
  <2>3. j \in Frames /\ IsMessage(frames[j]) /\ Messages(j) = m /\ Messages(j - 1) = m - 1
    BY <2>2, MessageFrameIs
  <2>4. j \in Nat /\ j - 1 \in Nat /\ c \in Nat /\ m \in Nat /\ p < m /\ m <= q
    BY <1>2, <1>4, <2>1, <2>3
  <2>5. c <= j
    <3> SUFFICES ASSUME j <= c - 1 PROVE FALSE
      BY <1>3, <2>4
    <3>1. Messages(j) <= Messages(c - 1)
      BY <1>3, <2>4, MessagesMonotone
    <3> QED
      BY <1>0, <1>4, <2>3, <2>4, <3>1
  <2>6. j <= k
    <3> SUFFICES ASSUME k <= j - 1 PROVE FALSE
      BY <1>3, <2>4
    <3>1. Messages(k) <= Messages(j - 1)
      BY <1>3, <2>4, MessagesMonotone
    <3> QED
      BY <1>0, <1>4, <2>3, <2>4, <3>1
  <2>7. j \in c .. last /\ j + 1 \in 1 .. (Len(frames) + 1) /\ last + 1 \in 1 .. (Len(frames) + 1)
        /\ j + 1 <= last + 1
    BY <1>1, <1>2, <2>4, <2>5, <2>6
  <2>8. /\ frames[j].size \in Nat /\ frames[j].len = frames[j].size
        /\ frames[j].start = StartOf(j) /\ StartOf(j) \in Nat
        /\ StartOf(j + 1) = StartOf(j) + HeaderSize + frames[j].size
        /\ EndOf(frames[j]) = StartOf(j) + HeaderSize + frames[j].size
    <3>1. frames[j].size <= max_message_length
      BY <1>1, <2>7
    <3>2. /\ frames[j].size \in Nat /\ frames[j].len = frames[j].size /\ frames[j].start \in Nat
          /\ EndOf(frames[j]) = frames[j].start + HeaderSize + frames[j].len
      BY <2>3, <3>1, FrameFacts
    <3> QED
      BY <2>3, <3>2, StartFacts
  <2>9. StartOf(c) \in Nat /\ StartOf(last + 1) \in Nat
        /\ StartOf(c) <= StartOf(j) /\ StartOf(j + 1) <= StartOf(last + 1)
    <3>1. c \in 1 .. (Len(frames) + 1) /\ j \in 1 .. (Len(frames) + 1)
      BY <1>2, <2>3
    <3>2. StartOf(c) \in Nat /\ StartOf(last + 1) \in Nat /\ StartOf(j + 1) \in Nat
      BY <2>7, <3>1, StartFacts
    <3>3. StartOf(c) <= StartOf(j)
      BY <1>2, <2>4, <2>5, <2>8, <3>1, <3>2, StartFacts, SMTT(30)
    <3>4. j + 1 = last + 1 \/ j + 1 < last + 1
      BY <1>1, <1>2, <2>4, <2>7
    <3>5. StartOf(j + 1) <= StartOf(last + 1)
      BY <2>7, <3>2, <3>4, StartFacts
    <3> QED
      BY <3>2, <3>3, <3>5
  <2>10. PICK a, b, s : /\ a = from(j) /\ b = from(j) + frames[j].size /\ s = StartOf(c)
    OBVIOUS
  <2>11. /\ a \in Nat /\ b \in Nat /\ a <= b /\ b <= Len(input) /\ s \in Nat
         /\ b - a = frames[j].size /\ s + a = StartOf(j) + HeaderSize
    <3>1. a = StartOf(j) - s + HeaderSize /\ b = a + frames[j].size
      BY <1>2, <2>8, <2>10
    <3>2. PICK u \in Nat, v \in Nat, w \in Nat, sz \in Nat :
            u = StartOf(j) /\ v = StartOf(j + 1) /\ w = StartOf(last + 1) /\ sz = frames[j].size
      BY <2>8, <2>9, Constants
    <3>3. s \in Nat /\ s <= u /\ v <= w /\ w <= s + Len(input) /\ v = u + HeaderSize + sz
      BY <1>1, <2>8, <2>9, <2>10, <3>2
    <3> HIDE DEF from
    <3>4. a = u - s + HeaderSize /\ b = a + sz
      BY <3>1, <3>2
    <3>5. PICK l \in Nat, h \in Nat : l = Len(input) /\ h = HeaderSize
      BY <1>2, Constants
    <3>6. s \in Nat /\ s <= u /\ v <= w /\ w <= s + l /\ v = u + h + sz
          /\ a = u - s + h /\ b = a + sz
      BY <3>3, <3>4, <3>5
    <3>7. a \in Nat
      BY <3>6
    <3>8. b \in Nat /\ a <= b /\ b - a = sz /\ s + a = u + h
      BY <3>6, <3>7
    <3>9. b <= l
      BY <3>6, <3>7
    <3> QED
      BY <3>2, <3>3, <3>5, <3>7, <3>8, <3>9
  <2>12. payload(j) = [t \in 1 .. (b - a) |-> s + a + t - 1] /\ payload(j) \in Seq(Nat)
    <3>1. payload(j) = SubSeq(input, a + 1, b) /\ Run(input, s)
      BY <1>2, <2>10
    <3> HIDE DEF payload, from
    <3>2. SubSeq(input, a + 1, b) \in Seq(Nat)
          /\ SubSeq(input, a + 1, b) = [t \in 1 .. (b - a) |-> s + a + t - 1]
      <4>1. s \in Int /\ a \in Nat /\ b \in Nat /\ a <= b /\ b <= Len(input)
        BY <2>11
      <4>2. input \in Seq(Nat) /\ Run(input, s)
        BY <1>2, <3>1
      <4> QED
        BY <4>1, <4>2, SubRun, SMTT(30)
    <3> QED
      BY <3>1, <3>2
  <2>13. Payload(frames[j]) = [t \in 1 .. (b - a) |-> s + a + t - 1]
    <3>1. EndOf(frames[j]) - (frames[j].start + HeaderSize) = b - a
          /\ frames[j].start + HeaderSize = s + a
      BY <2>8, <2>11, Constants
    <3> QED
      BY <3>1 DEF Payload, Bytes
  <2>14. Sent[p + i] = Payload(frames[j])
    BY <2>1, <2>2, SentIs
  <2> QED
    BY <2>1, <2>2, <2>12, <2>13, <2>14
<1> HIDE DEF payload
<1>7. x \in Seq(Seq(Nat)) /\ Len(x) = q - p
  <2>1. q - p \in Nat
    BY <1>4
  <2>2. DOMAIN x = 1 .. (q - p) /\ \A i \in 1 .. (q - p) : x[i] \in Seq(Nat)
    BY <1>5, <1>6
  <2>3. x = [i \in 1 .. (q - p) |-> x[i]]
    BY <1>5
  <2> QED
    BY <2>1, <2>2, <2>3
<1>8. \A i \in 1 .. (q - p) : x[i] = Sent[p + i]
  BY <1>5, <1>6
<1> QED
  BY <1>0, <1>4, <1>7, <1>8

(* What the upper layer got stays a prefix of what was sent. *)
LEMMA DeliverMore ==
  ASSUME FramesOK, delivered \in Seq(Seq(Nat)), Prefix, NEW x \in Seq(Seq(Nat)), NEW n \in Nat,
         Len(delivered) + Len(x) = n, n <= Messages(Len(frames)),
         \A i \in 1 .. Len(x) : x[i] = Sent[Len(delivered) + i]
  PROVE  LET d == delivered \o x
         IN  /\ d \in Seq(Seq(Nat)) /\ Len(d) = n
             /\ \A k \in DOMAIN d : d[k] = Sent[k]
             /\ d = SubSeq(Sent, 1, n)
<1> DEFINE d == delivered \o x
<1>1. /\ d \in Seq(Seq(Nat)) /\ Len(d) = n /\ DOMAIN d = 1 .. n
      /\ \A k \in 1 .. Len(delivered) : d[k] = delivered[k]
      /\ \A k \in (Len(delivered) + 1) .. n : d[k] = x[k - Len(delivered)]
      /\ Len(delivered) \in Nat /\ Len(x) \in Nat
      /\ DOMAIN delivered = 1 .. Len(delivered)
  OBVIOUS
<1> HIDE DEF d
<1>2. \A k \in 1 .. n : d[k] = Sent[k]
  <2> TAKE k \in 1 .. n
  <2>1. CASE k \in 1 .. Len(delivered)
    BY <1>1, <2>1 DEF Prefix
  <2>2. CASE k \in (Len(delivered) + 1) .. n
    <3>1. k - Len(delivered) \in 1 .. Len(x) /\ Len(delivered) + (k - Len(delivered)) = k
      BY <1>1, <2>2
    <3>2. x[k - Len(delivered)] = Sent[Len(delivered) + (k - Len(delivered))]
      BY <3>1
    <3> QED
      BY <1>1, <2>2, <3>1, <3>2
  <2> QED
    BY <1>1, <2>1, <2>2
<1>3. Sent \in Seq(Seq(Nat)) /\ n <= Len(Sent) /\ Len(Sent) \in Nat
  BY SentIs
<1>4. SubSeq(Sent, 1, n) \in Seq(Seq(Nat)) /\ Len(SubSeq(Sent, 1, n)) = n
      /\ DOMAIN SubSeq(Sent, 1, n) = 1 .. n
      /\ \A k \in 1 .. n : SubSeq(Sent, 1, n)[k] = Sent[k]
  <2>1. PICK s \in Seq(Seq(Nat)) : s = Sent
    BY <1>3
  <2> QED
    BY <1>3, <2>1
<1>5. d = SubSeq(Sent, 1, n)
  <2>1. PICK e \in Seq(Seq(Nat)) : e = SubSeq(Sent, 1, n)
    BY <1>4
  <2> QED
    BY <1>1, <1>2, <1>4, <2>1
<1> QED
  BY <1>1, <1>2, <1>5 DEF d

-----------------------------------------------------------------------------
(* The sender *)

(* The sender's step adds at most one frame. *)
Added(f) ==
  /\ frames' = Append(frames, f) /\ f \in Frame /\ f.start = NextStart
  /\ f.len = IF f.size > max_message_length THEN 0 ELSE f.size
  /\ ~tx_failed /\ (f.size > max_message_length => tx_failed')
Grown == (frames' = frames /\ (tx_failed => tx_failed')) \/ (\E f : Added(f))

(* What is known of the frames before the step stays true. *)
LEMMA GrownKeeps ==
  ASSUME FramesOK, Grown
  PROVE  /\ FramesOK' /\ Len(frames) \in Nat /\ Len(frames') \in Nat
         /\ Len(frames) <= Len(frames')
         /\ \A i \in Frames : i \in Frames' /\ frames'[i] = frames[i]
         /\ \A c \in 1 .. (Len(frames) + 1) : StartOf(c)' = StartOf(c)
         /\ \A k \in 0 .. Len(frames) : Messages(k)' = Messages(k)
         /\ Messages(Len(frames)) \in Nat /\ Messages(Len(frames))' \in Nat
         /\ Messages(Len(frames)) <= Messages(Len(frames))'
         /\ Messages(Len(frames))' <= Messages(Len(frames)) + 1
         /\ \A i \in 1 .. Messages(Len(frames)) : Sent'[i] = Sent[i]
<1>1. Len(frames) \in Nat /\ Messages(Len(frames)) \in Nat /\ Frames = 1 .. Len(frames)
  BY FrameFacts, MessagesCount
<1>2. CASE frames' = frames /\ (tx_failed => tx_failed')
  <2>1. FramesOK'
    BY <1>2 DEF FramesOK, Chained, Frames, StartOf, EndOf
  <2>2. \A c \in 1 .. (Len(frames) + 1) : StartOf(c)' = StartOf(c)
    BY <1>2 DEF StartOf, EndOf
  <2>3. /\ \A k \in 0 .. Len(frames) : Messages(k)' = Messages(k)
        /\ Messages(Len(frames))' = Messages(Len(frames))
    BY <1>2 DEF Messages, IsMessage
  <2>4. Sent' = Sent
    BY <1>2 DEF Sent, Messages, IsMessage, MessageFrame, Frames, Payload, EndOf
  <2> QED
    BY <1>1, <1>2, <2>1, <2>2, <2>3, <2>4 DEF Frames
<1>3. CASE \E f : Added(f)
  <2>1. PICK f : Added(f)
    BY <1>3
  <2>2. /\ FramesOK'
        /\ Len(frames') = Len(frames) + 1 /\ Frames \subseteq Frames'
        /\ \A i \in Frames : frames'[i] = frames[i]
        /\ \A c \in 1 .. (Len(frames) + 1) : StartOf(c)' = StartOf(c)
        /\ \A k \in 0 .. Len(frames) : Messages(k)' = Messages(k)
        /\ Messages(Len(frames))' = Messages(Len(frames)) + (IF IsMessage(f) THEN 1 ELSE 0)
        /\ \A i \in 1 .. Messages(Len(frames)) : MessageFrame(i)' = MessageFrame(i)
    BY <2>1, NewFrameKeeps DEF Added
  <2>3. PICK m, m1 : m = Messages(Len(frames)) /\ m1 = Messages(Len(frames))'
    OBVIOUS
  <2>4. m \in Nat /\ m1 \in Nat /\ m <= m1 /\ m1 <= m + 1
    BY <1>1, <2>2, <2>3
  <2>5. ASSUME NEW i \in 1 .. m PROVE Sent'[i] = Sent[i]
    <3>1. PICK j : j = MessageFrame(i)
      OBVIOUS
    <3>2. j \in Frames /\ MessageFrame(i)' = j
      BY <2>2, <2>3, <3>1, MessageFrameIs
    <3>3. i \in 1 .. m1
      BY <2>4
    <3>4. Sent[i] = Payload(frames[j])
      BY <2>3, <3>1 DEF Sent
    <3>5. Sent'[i] = Payload(frames'[j])
      BY <2>3, <3>2, <3>3 DEF Sent, Payload, EndOf
    <3> QED
      BY <2>2, <3>2, <3>4, <3>5
  <2> QED
    BY <1>1, <2>2, <2>3, <2>4, <2>5
<1> QED
  BY <1>2, <1>3 DEF Grown

(* The lemma on Sent, after a step. *)
SentTyped ==
  /\ Sent \in Seq(Seq(Nat)) /\ Len(Sent) = Messages(Len(frames))
  /\ DOMAIN Sent = 1 .. Messages(Len(frames))

(* The type of Sent after the step. *)
LEMMA SentIsNext == FramesOK' => SentTyped'
<1>1. FramesOK => SentTyped
  BY SentIs DEF SentTyped
<1> QED
  BY <1>1, PTL

(* The abstract channel sees a new message or nothing. *)
LEMMA SentGrows ==
  ASSUME FramesOK, Grown
  PROVE  Sent' = Sent \/ (Len(Sent') = Len(Sent) + 1 /\ SubSeq(Sent', 1, Len(Sent)) = Sent)
<1>1. PICK m, m1 : m = Messages(Len(frames)) /\ m1 = Messages(Len(frames))'
  OBVIOUS
<1>2. m \in Nat /\ m1 \in Nat /\ m <= m1 /\ m1 <= m + 1 /\ \A i \in 1 .. m : Sent'[i] = Sent[i]
  BY <1>1, GrownKeeps
<1>3. Sent \in Seq(Seq(Nat)) /\ Len(Sent) = m /\ DOMAIN Sent = 1 .. m
  BY <1>1, SentIs
<1>4. Sent' \in Seq(Seq(Nat)) /\ Len(Sent') = m1 /\ DOMAIN Sent' = 1 .. m1
  <2>1. FramesOK'
    BY GrownKeeps
  <2> QED
    BY <1>1, <2>1, SentIsNext DEF SentTyped
<1>5. PICK s \in Seq(Seq(Nat)), t \in Seq(Seq(Nat)) : s = Sent /\ t = Sent'
  BY <1>3, <1>4
<1>6. CASE m1 = m
  <2>1. s = t
    BY <1>2, <1>3, <1>4, <1>5, <1>6
  <2> QED
    BY <1>5, <2>1
<1>7. CASE m1 = m + 1
  <2>1. SubSeq(t, 1, m) \in Seq(Seq(Nat)) /\ Len(SubSeq(t, 1, m)) = m
        /\ \A i \in 1 .. m : SubSeq(t, 1, m)[i] = t[i]
    BY <1>2, <1>4, <1>5, <1>7
  <2>2. PICK u \in Seq(Seq(Nat)) : u = SubSeq(t, 1, m)
    BY <2>1
  <2>3. u = s
    BY <1>2, <1>3, <1>5, <2>1, <2>2
  <2> QED
    BY <1>3, <1>4, <1>5, <1>7, <2>2, <2>3
<1> QED
  BY <1>2, <1>6, <1>7

(* The bytes of a frame. *)
LEMMA FrameRun ==
  ASSUME NEW f \in Frame
  PROVE  /\ FrameBytes(f) \in Seq(Nat) /\ Len(FrameBytes(f)) = HeaderSize + f.len
         /\ Run(FrameBytes(f), f.start) /\ f.start \in Nat /\ f.len \in Nat
<1>1. f.start \in Nat /\ f.len \in Nat
  BY DEF Frame
<1>2. PICK s \in Nat, n \in Nat : s = f.start /\ n = HeaderSize + f.len
  BY <1>1, Constants
<1>3. FrameBytes(f) = [k \in 1 .. n |-> s + k - 1]
  <2>1. EndOf(f) - f.start = n
    BY <1>1, <1>2, Constants DEF EndOf
  <2> QED
    BY <1>2, <2>1 DEF FrameBytes, Bytes
<1>4. \A k \in 1 .. n : s + k - 1 \in Nat
  BY <1>2
<1>5. FrameBytes(f) \in Seq(Nat) /\ Len(FrameBytes(f)) = n
  BY <1>2, <1>3, <1>4
<1>6. Run(FrameBytes(f), f.start)
  BY <1>2, <1>3 DEF Run
<1> QED
  BY <1>1, <1>2, <1>5, <1>6

(* The buffers as numbers. *)
LEMMA BufferFacts ==
  ASSUME LPInv
  PROVE  /\ FramesOK /\ NextStart \in Nat /\ rx.buf \in Seq(Nat)
         /\ Len(write_buf) \in Nat /\ Len(wire) \in Nat /\ Len(rx.buf) \in Nat
         /\ OutStart \in Nat /\ WireStart \in Nat /\ RxStart \in Nat
         /\ OutStart + Len(write_buf) = NextStart
         /\ WireStart + Len(wire) = OutStart
         /\ RxStart + Len(rx.buf) = WireStart
<1>1. FramesOK /\ write_buf \in Seq(Nat) /\ wire \in Seq(Nat) /\ rx.buf \in Seq(Nat)
  BY DEF LPInv, TypeOK, FramesOK, RxState
<1>2. NextStart \in Nat
  <2>1. Len(frames) + 1 \in 1 .. (Len(frames) + 1)
    BY <1>1, FrameFacts
  <2> QED
    BY <1>1, <2>1, StartFacts
<1>3. PICK o \in Nat, w \in Nat, r \in Nat :
        o = Len(write_buf) /\ w = Len(wire) /\ r = Len(rx.buf)
  BY <1>1
<1>4. OutStart = NextStart - o /\ WireStart = OutStart - w /\ RxStart = WireStart - r
      /\ RxStart >= 0
  BY <1>3 DEF OutStart, WireStart, RxStart, LPInv, Stream
<1>5. /\ OutStart \in Nat /\ WireStart \in Nat /\ RxStart \in Nat
      /\ OutStart + o = NextStart /\ WireStart + w = OutStart /\ RxStart + r = WireStart
  BY <1>2, <1>4
<1> QED
  BY <1>1, <1>2, <1>3, <1>5

(* write() moves bytes from the write buffer, which the new frame made     *)
(* longer, to the wire.                                                    *)
Writes(d, buf, n) ==
  /\ NextStart' = NextStart + d
  /\ Len(buf) = Len(write_buf) + d /\ Run(buf, OutStart) /\ n <= Len(buf)
  /\ wire' = wire \o SubSeq(buf, 1, n) /\ write_buf' = SubSeq(buf, n + 1, Len(buf))
  /\ rx' = rx

(* Read buffer, wire and write buffer still hold the end of the stream. *)
LEMMA WriteMoves ==
  ASSUME LPInv, NEW d \in Nat, NEW buf \in Seq(Nat), NEW n \in Nat, Writes(d, buf, n)
  PROVE  /\ Stream' /\ RxStart' = RxStart /\ wire' \in Seq(Nat) /\ write_buf' \in Seq(Nat)
<1>1. /\ NextStart \in Nat /\ rx.buf \in Seq(Nat)
      /\ Len(write_buf) \in Nat /\ Len(wire) \in Nat /\ Len(rx.buf) \in Nat
      /\ OutStart \in Nat /\ WireStart \in Nat /\ RxStart \in Nat
      /\ OutStart + Len(write_buf) = NextStart
      /\ WireStart + Len(wire) = OutStart
      /\ RxStart + Len(rx.buf) = WireStart
  BY BufferFacts
<1>0. /\ NextStart' = NextStart + d
      /\ Len(buf) = Len(write_buf) + d /\ Run(buf, OutStart) /\ n <= Len(buf) /\ rx' = rx
  BY DEF Writes
<1>2. wire \in Seq(Nat) /\ Run(wire, WireStart) /\ Run(rx.buf, RxStart) /\ Len(buf) \in Nat
  BY DEF LPInv, TypeOK, Stream
<1>3. PICK x, y : /\ x = SubSeq(buf, 1, n) /\ wire' = wire \o x
                  /\ y = SubSeq(buf, n + 1, Len(buf)) /\ write_buf' = y
  BY DEF Writes
<1>4. x \in Seq(Nat) /\ Len(x) = n /\ Run(x, OutStart)
  <2>1. /\ SubSeq(buf, 0 + 1, n) \in Seq(Nat) /\ Len(SubSeq(buf, 0 + 1, n)) = n - 0
        /\ Run(SubSeq(buf, 0 + 1, n), OutStart + 0)
    <3>1. 0 \in Nat /\ 0 <= n /\ OutStart \in Int
      BY <1>1
    <3> QED
      BY <1>0, <3>1, SubRun
  <2>2. 0 + 1 = 1 /\ n - 0 = n /\ OutStart + 0 = OutStart
    BY <1>1
  <2> QED
    BY <1>3, <2>1, <2>2
<1>5. y \in Seq(Nat) /\ Len(y) = Len(buf) - n /\ Run(y, OutStart + n)
  <2>1. OutStart \in Int /\ Len(buf) <= Len(buf)
    BY <1>1, <1>2
  <2> QED
    BY <1>0, <1>2, <1>3, <2>1, SubRun
<1>6. wire' \in Seq(Nat) /\ Len(wire') = Len(wire) + n /\ Run(wire', WireStart)
  <2>1. WireStart \in Int /\ Run(x, WireStart + Len(wire))
    BY <1>1, <1>4
  <2> QED
    BY <1>2, <1>3, <1>4, <2>1, JoinRuns, ZenonT(60)
<1>7. /\ OutStart' = OutStart + n /\ WireStart' = WireStart /\ RxStart' = RxStart
  <2>1. PICK s1 \in Nat, o1 \in Nat, w1 \in Nat :
          s1 = NextStart' /\ o1 = Len(write_buf') /\ w1 = Len(wire')
    <3>1. NextStart + d \in Nat /\ Len(wire) + n \in Nat /\ Len(buf) - n \in Nat
      BY <1>0, <1>1, <1>2
    <3>2. NextStart' \in Nat /\ Len(write_buf') \in Nat /\ Len(wire') \in Nat
      BY <1>0, <1>3, <1>5, <1>6, <3>1
    <3> QED
      BY <3>2
  <2>2. s1 = NextStart + d /\ o1 = Len(write_buf) + d - n /\ w1 = Len(wire) + n
    BY <1>0, <1>1, <1>3, <1>5, <1>6, <2>1
  <2>3. OutStart' = s1 - o1
    BY <2>1 DEF OutStart
  <2>4. PICK ns \in Nat, os \in Nat, ws \in Nat, o \in Nat, w \in Nat :
        /\ ns = NextStart /\ os = OutStart /\ ws = WireStart
        /\ o = Len(write_buf) /\ w = Len(wire)
    BY <1>1
  <2>5. os + o = ns /\ ws + w = os /\ s1 = ns + d /\ o1 = o + d - n /\ w1 = w + n
    BY <1>1, <2>2, <2>4
  <2>6. OutStart' = OutStart + n
    <3>1. s1 - o1 = os + n
      BY <2>5
    <3> QED
      BY <2>3, <2>4, <3>1
  <2>7. WireStart' = OutStart' - w1
    BY <2>1 DEF WireStart
  <2>8. WireStart' = WireStart
    <3>1. os + n - w1 = ws
      BY <2>5
    <3> QED
      BY <2>6, <2>7, <2>4, <3>1
  <2>9. RxStart' = WireStart' - Len(rx.buf)
    BY <1>0 DEF RxStart
  <2> QED
    BY <1>1, <2>6, <2>8, <2>9
<1>8. RxStart' >= 0 /\ Run(rx'.buf, RxStart')
  BY <1>0, <1>1, <1>2, <1>7
<1>9. Run(wire', WireStart') /\ Run(write_buf', OutStart')
  BY <1>3, <1>5, <1>6, <1>7
<1> QED
  BY <1>3, <1>5, <1>6, <1>7, <1>8, <1>9 DEF Stream

(* The receiver does not notice a step of the sender. *)
LEMMA SenderKeeps ==
  ASSUME LPInv, UNCHANGED rxVars, Grown, TypeOK', Stream', RxStart' = RxStart, OutputIsArmed'
  PROVE  LPInv'
<1>1. /\ FramesOK /\ Boundary /\ Prefix /\ Policy
      /\ rx' = rx /\ bound' = bound /\ reads' = reads /\ reading' = reading
      /\ in_event' = in_event /\ rx_failed' = rx_failed /\ delivered' = delivered
  BY BufferFacts DEF LPInv, rxVars
<1>2. /\ FramesOK' /\ Len(frames) \in Nat /\ Len(frames') \in Nat
      /\ Len(frames) <= Len(frames')
      /\ \A i \in Frames : i \in Frames' /\ frames'[i] = frames[i]
      /\ \A c \in 1 .. (Len(frames) + 1) : StartOf(c)' = StartOf(c)
      /\ \A k \in 0 .. Len(frames) : Messages(k)' = Messages(k)
      /\ Messages(Len(frames)) \in Nat /\ Messages(Len(frames))' \in Nat
      /\ Messages(Len(frames)) <= Messages(Len(frames))'
      /\ \A i \in 1 .. Messages(Len(frames)) : Sent'[i] = Sent[i]
  BY <1>1, GrownKeeps
<1>3. Policy'
  BY <1>1 DEF Policy
<1>4. Boundary'
  <2> SUFFICES ASSUME ~rx_failed
               PROVE  \E c \in 1 .. (Len(frames') + 1) : Pending(c)'
    BY <1>1 DEF Boundary
  <2>1. PICK c \in 1 .. (Len(frames) + 1) : Pending(c)
    BY <1>1 DEF Boundary
  <2>2. c \in 1 .. (Len(frames') + 1) /\ c - 1 \in 0 .. Len(frames) /\ StartOf(c)' = StartOf(c)
    BY <1>2
  <2>3. Messages(c - 1)' = Messages(c - 1)
    BY <1>2, <2>2
  <2>4. RxStart' = StartOf(c)' /\ Len(delivered') = Messages(c - 1)'
    BY <1>1, <2>1, <2>2, <2>3 DEF Pending
  <2>5. Pending(c)'
    BY <1>1, <1>2, <2>1, <2>4 DEF Pending
  <2> QED
    BY <2>2, <2>5
<1>5. Prefix'
  <2>1. Len(delivered) \in Nat /\ DOMAIN delivered = 1 .. Len(delivered)
    BY DEF LPInv, TypeOK
  <2>2. Len(delivered') <= Messages(Len(frames))'
    BY <1>1, <1>2, <2>1 DEF Prefix
  <2>3. \A k \in DOMAIN delivered : k \in 1 .. Messages(Len(frames)) /\ delivered[k] = Sent[k]
    BY <1>1, <1>2, <2>1 DEF Prefix
  <2> QED
    BY <1>1, <1>2, <2>2, <2>3 DEF Prefix
<1> QED
  BY <1>2, <1>3, <1>4, <1>5 DEF LPInv, FramesOK

(* A new frame makes the write buffer longer. *)
LEMMA AddedBytes ==
  ASSUME LPInv, NEW f, Added(f)
  PROVE  LET d == HeaderSize + f.len
             buf == write_buf \o FrameBytes(f)
         IN  /\ f \in Frame /\ d \in Nat /\ NextStart' = NextStart + d
             /\ buf \in Seq(Nat) /\ Len(buf) = Len(write_buf) + d /\ Run(buf, OutStart)
<1>1. f \in Frame /\ f.start = NextStart
  BY DEF Added
<1>2. PICK d, x, buf : d = HeaderSize + f.len /\ x = FrameBytes(f) /\ buf = write_buf \o x
  OBVIOUS
<1>3. x \in Seq(Nat) /\ Len(x) = d /\ Run(x, f.start) /\ f.len \in Nat
  BY <1>1, <1>2, FrameRun
<1>4. d \in Nat
  BY <1>2, <1>3, Constants
<1>5. NextStart' = NextStart + HeaderSize + f.len
  BY BufferFacts, NewFrameKeeps DEF Added
<1>6. NextStart' = NextStart + d
  <2>1. PICK s \in Nat, l \in Nat, h \in Nat : s = NextStart /\ l = f.len /\ h = HeaderSize
    BY <1>3, BufferFacts, Constants
  <2>2. NextStart' = s + h + l /\ d = h + l
    BY <1>2, <1>5, <2>1
  <2>3. NextStart' = s + d
    BY <2>2
  <2> QED
    BY <2>1, <2>3
<1>7. buf \in Seq(Nat) /\ Len(buf) = Len(write_buf) + d /\ Run(buf, OutStart)
  <2>1. write_buf \in Seq(Nat) /\ Run(write_buf, OutStart)
    BY DEF LPInv, TypeOK, Stream
  <2>2. OutStart \in Int /\ Run(x, OutStart + Len(write_buf))
    BY <1>1, <1>3, BufferFacts
  <2> QED
    BY <1>2, <1>3, <2>1, <2>2, JoinRuns
<1> QED
  BY <1>1, <1>2, <1>4, <1>6, <1>7

(* A message is a frame ... *)
LEMMA NewMessageIs ==
  ASSUME LPInv, NEW len \in 0 .. max_message_length
  PROVE  LET f == NewFrame(len, len)
         IN  /\ f \in Frame /\ f.start = NextStart /\ f.size = len
             /\ f.len = IF f.size > max_message_length THEN 0 ELSE f.size
<1>1. NextStart \in Nat /\ max_message_length \in Nat
  BY BufferFacts, Constants
<1>2. len \in 0 .. (max_message_length + 1) /\ len \in Nat /\ ~(len > max_message_length)
  BY <1>1
<1> QED
  BY <1>1, <1>2 DEF NewFrame, Frame

(* ... and so is a header out of range. *)
LEMMA NewHugeIs ==
  ASSUME LPInv
  PROVE  LET f == NewFrame(max_message_length + 1, 0)
         IN  /\ f \in Frame /\ f.start = NextStart
             /\ f.len = IF f.size > max_message_length THEN 0 ELSE f.size
  BY BufferFacts, Constants DEF NewFrame, Frame

(* A message outside of a write event. *)
LEMMA SendKeeps ==
  ASSUME LPInv, NEW f, NEW fails \in BOOLEAN, f \in Frame, f.start = NextStart,
         f.len = IF f.size > max_message_length THEN 0 ELSE f.size,
         f.size > max_message_length => fails, Send(f, fails)
  PROVE  LPInv' /\ Grown /\ delivered' = delivered
<1>1. Added(f)
  BY DEF Send, Added
<1>2. Grown
  BY <1>1 DEF Grown
<1>3. PICK d, buf : d = HeaderSize + f.len /\ buf = write_buf \o FrameBytes(f)
  OBVIOUS
<1>4. /\ d \in Nat /\ NextStart' = NextStart + d
      /\ buf \in Seq(Nat) /\ Len(buf) = Len(write_buf) + d /\ Run(buf, OutStart)
  BY <1>1, <1>3, AddedBytes
<1>5. write_buf' = buf /\ wire' = wire /\ rx' = rx
  BY <1>3 DEF Send, rxVars
<1>6. Writes(d, buf, 0)
  <2>1. wire' = wire \o SubSeq(buf, 1, 0)
    <3>1. SubSeq(buf, 1, 0) = <<>> /\ wire \in Seq(Nat)
      BY <1>4 DEF LPInv, TypeOK
    <3> QED
      BY <1>5, <3>1
  <2>2. 0 + 1 = 1 /\ 0 <= Len(buf)
    BY <1>4
  <2>3. write_buf' = SubSeq(buf, 0 + 1, Len(buf))
    <3>1. SubSeq(buf, 1, Len(buf)) = buf
      BY <1>4
    <3> QED
      BY <1>5, <2>2, <3>1
  <2> QED
    BY <1>4, <1>5, <2>1, <2>2, <2>3 DEF Writes
<1>7. Stream' /\ RxStart' = RxStart /\ wire' \in Seq(Nat) /\ write_buf' \in Seq(Nat)
  BY <1>4, <1>6, WriteMoves
<1>8. frames' \in Seq(Frame)
  BY <1>2, BufferFacts, GrownKeeps DEF FramesOK
<1>9. /\ writing' = (writing \/ write_buf = <<>>) /\ tx_failed' = fails /\ ~tx_failed
      /\ UNCHANGED rxVars
  BY DEF Send, begin_output
<1>10. TypeOK'
  <2>1. writing' \in BOOLEAN /\ tx_failed' \in BOOLEAN
    BY <1>9, Zenon DEF LPInv, TypeOK
  <2> QED
    BY <1>7, <1>8, <1>9, <2>1 DEF LPInv, TypeOK, rxVars
<1>11. writing'
  BY <1>9, Zenon DEF LPInv, OutputIsArmed
<1>12. OutputIsArmed'
  BY <1>11, Zenon DEF OutputIsArmed
<1> QED
  BY <1>2, <1>7, <1>9, <1>10, <1>12, SenderKeeps DEF rxVars

(* SendMessage and SendHuge. *)
LEMMA SendMessageKeeps ==
  ASSUME LPInv, NEW len \in Sizes, SendMessage(len)
  PROVE  LPInv' /\ Grown /\ delivered' = delivered
<1>1. PICK f : f = NewFrame(len, len)
  OBVIOUS
<1>2. len \in 0 .. max_message_length /\ max_message_length \in Nat
  BY Constants
<1>3. /\ f \in Frame /\ f.start = NextStart /\ f.size = len
      /\ f.len = IF f.size > max_message_length THEN 0 ELSE f.size
  BY <1>1, <1>2, NewMessageIs
<1>4. PICK fails \in BOOLEAN : fails = (len = 0)
  OBVIOUS
<1>5. Send(f, fails)
  BY <1>1, <1>4, Zenon DEF SendMessage
<1>6. f.size > max_message_length => fails
  BY <1>2, <1>3
<1> QED
  BY <1>3, <1>5, <1>6, SendKeeps

(* A peer that announces a message out of range. *)
LEMMA SendHugeKeeps ==
  ASSUME LPInv, SendHuge
  PROVE  LPInv' /\ Grown /\ delivered' = delivered
<1>1. PICK f : f = NewFrame(max_message_length + 1, 0)
  OBVIOUS
<1>2. /\ f \in Frame /\ f.start = NextStart
      /\ f.len = IF f.size > max_message_length THEN 0 ELSE f.size
  BY <1>1, NewHugeIs
<1>3. Send(f, TRUE)
  BY <1>1 DEF SendHuge
<1> QED
  BY <1>2, <1>3, SendKeeps

(* A write event, with or without a message from prepare_send. *)
LEMMA WriteEventKeeps ==
  ASSUME LPInv, NEW len \in Sizes \cup {0}, NEW n \in 0 .. WireCapacity, NEW done \in BOOLEAN,
         WriteEvent(len, n, done)
  PROVE  LPInv' /\ Grown /\ delivered' = delivered
<1>1. PICK f, buf : /\ f = NewFrame(len, len)
                    /\ buf = IF len = 0 THEN write_buf ELSE write_buf \o FrameBytes(f)
  OBVIOUS
<1>2. /\ len > 0 => ~tx_failed
      /\ n <= Len(buf)
      /\ frames' = IF len = 0 THEN frames ELSE Append(frames, f)
      /\ wire' = wire \o SubSeq(buf, 1, n)
      /\ write_buf' = SubSeq(buf, n + 1, Len(buf))
      /\ writing' = StaysArmed(write_buf', done)
      /\ UNCHANGED <<tx_failed, rxVars>>
  BY <1>1 DEF WriteEvent
<1>3. len \in 0 .. max_message_length /\ max_message_length \in Nat /\ n \in Nat /\ rx' = rx
  BY <1>2, Constants DEF rxVars
<1>4. ASSUME len = 0
      PROVE  Grown /\ \E d \in Nat : buf \in Seq(Nat) /\ Writes(d, buf, n)
  <2>1. Grown
    BY <1>2, <1>4 DEF Grown
  <2>2. buf = write_buf /\ frames' = frames
    BY <1>1, <1>2, <1>4
  <2>3. buf \in Seq(Nat) /\ Run(buf, OutStart)
    BY <2>2 DEF LPInv, TypeOK, Stream
  <2>4. NextStart' = NextStart + 0 /\ Len(buf) = Len(write_buf) + 0
    <3>1. NextStart' = NextStart
      BY <2>2 DEF NextStart, EndOf
    <3> QED
      BY <2>2, <3>1, BufferFacts
  <2>5. Writes(0, buf, n)
    BY <1>2, <1>3, <2>3, <2>4 DEF Writes
  <2> QED
    BY <2>1, <2>3, <2>5
<1>5. ASSUME len # 0
      PROVE  Grown /\ \E d \in Nat : buf \in Seq(Nat) /\ Writes(d, buf, n)
  <2>1. /\ f \in Frame /\ f.start = NextStart /\ f.size = len
        /\ f.len = IF f.size > max_message_length THEN 0 ELSE f.size
    BY <1>1, <1>3, NewMessageIs
  <2>2. frames' = Append(frames, f) /\ buf = write_buf \o FrameBytes(f) /\ ~tx_failed
    BY <1>1, <1>2, <1>3, <1>5
  <2>3. f.size > max_message_length => tx_failed'
    BY <1>3, <2>1
  <2>4. Added(f)
    BY <2>1, <2>2, <2>3 DEF Added
  <2>5. PICK d : d = HeaderSize + f.len
    OBVIOUS
  <2>6. /\ d \in Nat /\ NextStart' = NextStart + d
        /\ buf \in Seq(Nat) /\ Len(buf) = Len(write_buf) + d /\ Run(buf, OutStart)
    BY <2>2, <2>4, <2>5, AddedBytes
  <2>7. Writes(d, buf, n)
    BY <1>2, <1>3, <2>6 DEF Writes
  <2> QED
    BY <2>4, <2>6, <2>7 DEF Grown
<1>6. PICK d \in Nat : buf \in Seq(Nat) /\ Writes(d, buf, n)
  BY <1>4, <1>5
<1>7. Grown
  BY <1>4, <1>5
<1>8. Stream' /\ RxStart' = RxStart /\ wire' \in Seq(Nat) /\ write_buf' \in Seq(Nat)
  BY <1>3, <1>6, WriteMoves
<1>9. frames' \in Seq(Frame)
  BY <1>7, BufferFacts, GrownKeeps DEF FramesOK
<1>10. writing' = (write_buf' # <<>> \/ ~done) /\ tx_failed' = tx_failed /\ UNCHANGED rxVars
  BY <1>2 DEF StaysArmed
<1>11. TypeOK'
  <2>1. writing' \in BOOLEAN /\ tx_failed' \in BOOLEAN
    BY <1>10, Zenon DEF LPInv, TypeOK
  <2> QED
    BY <1>8, <1>9, <1>10, <2>1 DEF LPInv, TypeOK, rxVars
<1>12. OutputIsArmed'
  BY <1>10, Zenon DEF OutputIsArmed
<1> QED
  BY <1>7, <1>8, <1>10, <1>11, <1>12, SenderKeeps DEF rxVars

(* prepare_send or write() fails. *)
LEMMA WriteFailsKeeps ==
  ASSUME LPInv, WriteFails
  PROVE  LPInv' /\ Grown /\ delivered' = delivered
<1>1. writing' = FALSE /\ tx_failed' = TRUE /\ UNCHANGED <<frames, write_buf, wire, rxVars>>
  BY DEF WriteFails
<1>2. Grown
  BY <1>1 DEF Grown
<1>3. TypeOK' /\ OutputIsArmed'
  BY <1>1 DEF LPInv, TypeOK, OutputIsArmed, rxVars
<1>4. Stream' /\ RxStart' = RxStart
  BY <1>1 DEF LPInv, Stream, RxStart, WireStart, OutStart, NextStart, EndOf, rxVars
<1> QED
  BY <1>1, <1>2, <1>3, <1>4, SenderKeeps DEF rxVars

-----------------------------------------------------------------------------
(* The receiver: what does not depend on the input *)

(* The abstract channel sees a delivery or nothing. *)
Delivers ==
  /\ Sent' = Sent
  /\ \/ delivered' = delivered
     \/ \E k \in (Len(delivered) + 1) .. Len(Sent) : delivered' = SubSeq(Sent, 1, k)

(* The sender does not notice a step of the receiver. *)
LEMMA SameSender ==
  ASSUME UNCHANGED txVars
  PROVE  /\ frames' = frames /\ write_buf' = write_buf /\ writing' = writing
         /\ tx_failed' = tx_failed /\ Frames' = Frames
         /\ NextStart' = NextStart /\ OutStart' = OutStart
         /\ \A c : StartOf(c)' = StartOf(c)
         /\ \A k : Messages(k)' = Messages(k)
         /\ Messages(Len(frames))' = Messages(Len(frames)) /\ Sent' = Sent
         /\ Chained => Chained'
         /\ OutputIsArmed => OutputIsArmed'
<1>1. frames' = frames /\ write_buf' = write_buf /\ writing' = writing /\ tx_failed' = tx_failed
  BY DEF txVars
<1>2. Frames' = Frames /\ NextStart' = NextStart /\ OutStart' = OutStart
  BY <1>1 DEF Frames, NextStart, EndOf, OutStart
<1>3. \A c : StartOf(c)' = StartOf(c)
  BY <1>1 DEF StartOf, EndOf
<1>4. \A k : Messages(k)' = Messages(k)
  BY <1>1 DEF Messages, IsMessage
<1>5. Messages(Len(frames))' = Messages(Len(frames)) /\ Sent' = Sent
  BY <1>1 DEF Sent, Messages, IsMessage, MessageFrame, Frames, Payload, EndOf
<1>6. Chained => Chained'
  BY <1>1 DEF Chained, StartOf, EndOf, Frames
<1>7. OutputIsArmed => OutputIsArmed'
  BY <1>1, Zenon DEF OutputIsArmed
<1> QED
  BY <1>1, <1>2, <1>3, <1>4, <1>5, <1>6, <1>7

(* Steps that neither move nor deliver bytes. *)
LEMMA IdleKeeps ==
  ASSUME LPInv, UNCHANGED <<txVars, wire, bound, delivered>>, rx'.buf = rx.buf,
         TypeOK', Policy', rx_failed => rx_failed'
  PROVE  LPInv' /\ Delivers
<1>1. /\ UNCHANGED txVars /\ wire' = wire /\ bound' = bound /\ delivered' = delivered
      /\ Chained /\ Stream /\ Boundary /\ Prefix /\ OutputIsArmed
  BY DEF LPInv
<1>2. /\ frames' = frames /\ write_buf' = write_buf /\ Frames' = Frames /\ OutStart' = OutStart
      /\ \A c : StartOf(c)' = StartOf(c)
      /\ \A k : Messages(k)' = Messages(k)
      /\ Messages(Len(frames))' = Messages(Len(frames)) /\ Sent' = Sent
      /\ Chained' /\ OutputIsArmed'
  BY <1>1, SameSender
<1>3. WireStart' = WireStart /\ RxStart' = RxStart
  BY <1>1, <1>2 DEF WireStart, RxStart
<1>4. Stream'
  BY <1>1, <1>2, <1>3 DEF Stream
<1>5. Boundary'
  <2>1. \A c : Pending(c) => Pending(c)'
    BY <1>1, <1>2, <1>3 DEF Pending
  <2> QED
    BY <1>1, <1>2, <2>1 DEF Boundary
<1>6. Prefix'
  BY <1>1, <1>2 DEF Prefix
<1> QED
  BY <1>1, <1>2, <1>4, <1>5, <1>6 DEF LPInv, Delivers

(* A read event starts. *)
LEMMA ReadEventKeeps ==
  ASSUME LPInv, ReadEvent
  PROVE  LPInv' /\ Delivers
<1>1. /\ reading /\ rx' = Prepare(rx) /\ reads' = 0 /\ in_event' = TRUE
      /\ UNCHANGED <<txVars, wire, bound, reading, rx_failed, delivered>>
  BY DEF ReadEvent
<1>2. rx \in RxState /\ rx.max_read_size = bound /\ bound \in Nat /\ rx.min_read_size = HeaderSize
      /\ default_receive_size <= bound
  BY DEF LPInv, TypeOK, Policy
<1>3. /\ rx' \in RxState /\ rx'.buf = rx.buf /\ rx'.min_read_size = rx.min_read_size
      /\ rx'.max_read_size = rx.max_read_size /\ bound <= rx'.size
  BY <1>1, <1>2 DEF Prepare, RxState
<1>4. ~rx_failed
  BY <1>1, Zenon DEF LPInv, Policy
<1>5. TypeOK'
  BY <1>1, <1>3, Constants DEF LPInv, TypeOK, txVars
<1>6. Policy'
  BY <1>1, <1>2, <1>3, <1>4 DEF Policy
<1> QED
  BY <1>1, <1>3, <1>5, <1>6, IdleKeeps

(* Inside handle_read_event. *)
LEMMA InEvent ==
  ASSUME LPInv, in_event
  PROVE  /\ ~rx_failed /\ rx \in RxState /\ bound \in Nat
         /\ rx.min_read_size = HeaderSize /\ rx.max_read_size = bound
         /\ default_receive_size <= bound /\ rx.max_read_size > 0
         /\ bound <= rx.size /\ rx.size \in Nat
<1>1. ~rx_failed
  BY Zenon DEF LPInv, Policy
<1>2. /\ rx \in RxState /\ bound \in Nat /\ rx.min_read_size = HeaderSize
      /\ rx.max_read_size = bound /\ default_receive_size <= bound /\ bound <= rx.size
  BY DEF LPInv, TypeOK, Policy
<1>3. rx.max_read_size > 0
  BY <1>2, Constants
<1> QED
  BY <1>1, <1>2, <1>3 DEF RxState

(* handle_read_event returns without having read more. *)
LEMMA ReturnKeeps ==
  ASSUME LPInv, in_event, NEW stay \in BOOLEAN, Return(stay), rx_failed' \in BOOLEAN,
         rx_failed' => ~stay,
         UNCHANGED <<txVars, wire, rx, bound, reads, delivered>>
  PROVE  LPInv' /\ Delivers
<1>1. ~rx_failed
  BY InEvent
<1>2. in_event' = FALSE /\ reading' = stay
  BY DEF Return
<1>3. TypeOK'
  BY <1>2 DEF LPInv, TypeOK, txVars
<1>4. Policy'
  BY <1>2 DEF LPInv, Policy
<1> QED
  BY <1>1, <1>3, <1>4, IdleKeeps

(* A read event ends without having read more. *)
LEMMA ReadReturns ==
  ASSUME LPInv, ReadEnds \/ ReadBlocks \/ ReadFails
  PROVE  LPInv' /\ Delivers
<1>1. CASE ReadEnds
  <2>1. in_event /\ Return(rx.max_read_size > 0)
        /\ UNCHANGED <<txVars, wire, rx, bound, reads, rx_failed, delivered>>
    BY <1>1 DEF ReadEnds
  <2>2. ~rx_failed /\ rx.max_read_size > 0
    BY <2>1, InEvent
  <2>3. (rx.max_read_size > 0) = TRUE
    BY <2>2
  <2>4. Return(TRUE) /\ rx_failed' = FALSE
    BY <2>1, <2>2, <2>3 DEF LPInv, TypeOK
  <2> QED
    BY <2>1, <2>4, ReturnKeeps
<1>2. CASE ReadBlocks
  <2>1. in_event /\ Return(TRUE)
        /\ UNCHANGED <<txVars, wire, rx, bound, reads, rx_failed, delivered>>
    BY <1>2 DEF ReadBlocks, Reads
  <2>2. rx_failed' = FALSE
    BY <2>1, InEvent DEF LPInv, TypeOK
  <2> QED
    BY <2>1, <2>2, ReturnKeeps
<1>3. CASE ReadFails
  <2>1. in_event /\ Return(FALSE) /\ rx_failed' = TRUE
        /\ UNCHANGED <<txVars, wire, rx, bound, reads, delivered>>
    BY <1>3 DEF ReadFails, Reads
  <2> QED
    BY <2>1, ReturnKeeps
<1> QED
  BY <1>1, <1>2, <1>3

-----------------------------------------------------------------------------
(* The receiver: read() and consume() *)

(* read() moves n bytes from the wire to the end of the read buffer; what  *)
(* is there starts with a frame.                                           *)
LEMMA TakeMoves ==
  ASSUME LPInv, NEW n, Take(n)
  PROVE  LET g == Got(n)
         IN  /\ n \in Nat /\ UNCHANGED txVars /\ in_event /\ reads < max_consecutive_reads
             /\ g \in RxState /\ g.size = rx.size /\ g.delta_offset = rx.delta_offset
             /\ g.min_read_size = rx.min_read_size /\ g.max_read_size = rx.max_read_size
             /\ Len(g.buf) = Len(rx.buf) + n /\ Len(g.buf) <= bound
             /\ Run(g.buf, RxStart)
             /\ wire' \in Seq(Nat) /\ Run(wire', RxStart + Len(g.buf))
             /\ OutStart' = OutStart /\ WireStart' = RxStart + Len(g.buf)
             /\ \E c : Pending(c) /\ Input(g.buf, c)
<1>1. /\ in_event /\ MayRead(rx, reads) /\ n \in 1 .. Len(wire) /\ n <= Room(rx)
      /\ wire' = SubSeq(wire, n + 1, Len(wire)) /\ UNCHANGED txVars
  BY DEF Take, Reads
<1>2. PICK x, g, i : x = SubSeq(wire, 1, n) /\ g = Got(n) /\ i = rx.buf \o x
  OBVIOUS
<1>3. /\ FramesOK /\ NextStart \in Nat /\ rx.buf \in Seq(Nat)
      /\ Len(write_buf) \in Nat /\ Len(wire) \in Nat /\ Len(rx.buf) \in Nat
      /\ OutStart \in Nat /\ WireStart \in Nat /\ RxStart \in Nat
      /\ OutStart + Len(write_buf) = NextStart
      /\ WireStart + Len(wire) = OutStart
      /\ RxStart + Len(rx.buf) = WireStart
  BY BufferFacts
<1>4. wire \in Seq(Nat) /\ Run(wire, WireStart) /\ Run(rx.buf, RxStart)
  BY DEF LPInv, TypeOK, Stream
<1>5. n \in Nat /\ n >= 1 /\ n <= Len(wire) /\ RxStart \in Int /\ WireStart \in Int
  BY <1>1, <1>3
<1>6. x \in Seq(Nat) /\ Len(x) = n /\ Run(x, WireStart)
  <2>1. /\ SubSeq(wire, 0 + 1, n) \in Seq(Nat) /\ Len(SubSeq(wire, 0 + 1, n)) = n - 0
        /\ Run(SubSeq(wire, 0 + 1, n), WireStart + 0)
    <3>1. 0 \in Nat /\ 0 <= n
      BY <1>5
    <3> QED
      BY <1>4, <1>5, <3>1, SubRun
  <2>2. 0 + 1 = 1 /\ n - 0 = n /\ WireStart + 0 = WireStart
    BY <1>5
  <2> QED
    BY <1>2, <2>1, <2>2
<1>7. i \in Seq(Nat) /\ Len(i) = Len(rx.buf) + n /\ Run(i, RxStart)
  <2>1. Run(x, RxStart + Len(rx.buf))
    BY <1>3, <1>6
  <2> QED
    BY <1>2, <1>3, <1>4, <1>5, <1>6, <2>1, JoinRuns
<1>8. wire' \in Seq(Nat) /\ Len(wire') = Len(wire) - n /\ Run(wire', WireStart + n)
  <2>1. PICK l \in Nat, w \in Int : l = Len(wire) /\ w = WireStart
    BY <1>3, <1>5
  <2>2. PICK y : y = SubSeq(wire, n + 1, l)
    OBVIOUS
  <2>3. n <= l /\ l <= Len(wire) /\ Run(wire, w) /\ n \in Nat
    BY <1>4, <1>5, <2>1
  <2>4. y \in Seq(Nat) /\ Len(y) = l - n /\ Run(y, w + n)
    <3>1. wire \in Seq(Nat)
      BY <1>4
    <3> QED
      BY <2>1, <2>3, <2>2, <3>1, SubRun
  <2> QED
    BY <1>1, <2>1, <2>4, <2>2
<1>9. RxStart + Len(i) = WireStart + n /\ RxStart + Len(i) <= NextStart /\ Len(i) \in Nat
  <2>1. PICK r \in Nat, b \in Nat, w \in Nat, l \in Nat, ns \in Nat, o \in Nat :
          r = RxStart /\ b = Len(rx.buf) /\ w = WireStart /\ l = Len(wire) /\ ns = NextStart
          /\ o = Len(write_buf)
    BY <1>3
  <2>2. r + b = w /\ w + l + o = ns /\ n <= l /\ n \in Nat
    BY <1>3, <1>5, <2>1
  <2>3. b + n \in Nat /\ r + (b + n) = w + n /\ r + (b + n) <= ns
    BY <2>2
  <2> QED
    BY <1>7, <2>1, <2>3
<1>10. OutStart' = OutStart /\ WireStart' = RxStart + Len(i)
  <2>1. OutStart' = OutStart
    BY <1>1, SameSender
  <2>2. WireStart' = OutStart - (Len(wire) - n)
    BY <1>8, <2>1 DEF WireStart
  <2>3. PICK os \in Nat, w \in Nat, l \in Nat : os = OutStart /\ w = WireStart /\ l = Len(wire)
    BY <1>3
  <2>4. w + l = os /\ WireStart' = os - (l - n)
    BY <1>3, <2>2, <2>3
  <2>5. os - (l - n) = w + n
    BY <1>5, <2>4
  <2> QED
    BY <1>9, <2>1, <2>3, <2>4, <2>5
<1>11. rx \in RxState /\ rx.max_read_size = bound /\ bound \in Nat /\ ~rx_failed
  BY <1>1, InEvent
<1>12. /\ g = [rx EXCEPT !.buf = i]
  BY <1>2 DEF Got, Received
<1>13. /\ g \in RxState /\ g.size = rx.size /\ g.delta_offset = rx.delta_offset
       /\ g.min_read_size = rx.min_read_size /\ g.max_read_size = rx.max_read_size
       /\ g.buf = i
  BY <1>7, <1>11, <1>12 DEF RxState
<1>14. Len(i) <= bound
  <2>1. n <= bound - Len(rx.buf)
    BY <1>1, <1>11 DEF Room, Offset
  <2> QED
    BY <1>3, <1>5, <1>7, <1>11, <2>1
<1>15. reads < max_consecutive_reads
  BY <1>1 DEF MayRead
<1>16. \E c : Pending(c) /\ Input(i, c)
  <2>1. PICK c \in 1 .. (Len(frames) + 1) : Pending(c)
    BY <1>11 DEF LPInv, Boundary
  <2>2. RxStart = StartOf(c)
    BY <2>1 DEF Pending
  <2>3. i # <<>>
    BY <1>3, <1>5, <1>7
  <2> QED
    BY <1>7, <1>9, <2>1, <2>2, <2>3 DEF Input
<1>17. Run(wire', RxStart + Len(i))
  BY <1>8, <1>9
<1> QED
  BY <1>1, <1>2, <1>5, <1>7, <1>8, <1>10, <1>13, <1>14, <1>15, <1>16, <1>17

(* The header is not complete. *)
LEMMA ReadTooFewKeeps ==
  ASSUME LPInv, NEW n, ReadTooFew(n)
  PROVE  LPInv' /\ Delivers
<1>1. /\ Take(n) /\ ~Ready(Got(n)) /\ rx' = Got(n) /\ reads' = reads + 1
      /\ UNCHANGED <<bound, reading, in_event, rx_failed, delivered>>
  BY DEF ReadTooFew
<1>2. PICK g : g = Got(n)
  OBVIOUS
<1>3. /\ UNCHANGED txVars /\ in_event /\ reads < max_consecutive_reads
      /\ g \in RxState /\ g.size = rx.size
      /\ g.min_read_size = rx.min_read_size /\ g.max_read_size = rx.max_read_size
      /\ Run(g.buf, RxStart)
      /\ wire' \in Seq(Nat) /\ Run(wire', RxStart + Len(g.buf))
      /\ OutStart' = OutStart /\ WireStart' = RxStart + Len(g.buf)
      /\ \E c : Pending(c) /\ Input(g.buf, c)
  BY <1>1, <1>2, TakeMoves
<1>4. rx' = g /\ Len(g.buf) < HeaderSize
  <2>1. g.min_read_size = HeaderSize /\ Len(g.buf) \in Nat
    BY <1>3, InEvent DEF RxState
  <2> QED
    BY <1>1, <1>2, <2>1, Constants DEF Ready, Offset
<1>5. /\ frames' = frames /\ write_buf' = write_buf
      /\ \A c : StartOf(c)' = StartOf(c)
      /\ \A k : Messages(k)' = Messages(k)
      /\ Messages(Len(frames))' = Messages(Len(frames)) /\ Sent' = Sent
      /\ Chained' /\ OutputIsArmed'
  BY <1>3, SameSender DEF LPInv
<1>6. RxStart' = RxStart
  <2>1. RxStart \in Nat /\ Len(g.buf) \in Nat
    BY <1>3, BufferFacts DEF RxState
  <2>2. PICK r \in Nat, l \in Nat : r = RxStart /\ l = Len(g.buf)
    BY <2>1
  <2>3. WireStart' = r + l
    BY <1>3, <2>2
  <2>4. RxStart' = r + l - l
    BY <1>4, <2>2, <2>3 DEF RxStart
  <2> QED
    BY <2>2, <2>4
<1>7. TypeOK'
  <2>1. reads' \in 0 .. max_consecutive_reads
    BY <1>1, <1>3, Constants DEF LPInv, TypeOK
  <2> QED
    BY <1>1, <1>3, <1>4, <2>1 DEF LPInv, TypeOK, txVars
<1>8. Policy'
  BY <1>1, <1>3, <1>4 DEF LPInv, Policy
<1>9. Stream'
  BY <1>3, <1>4, <1>5, <1>6 DEF LPInv, Stream
<1>10. Boundary'
  <2>1. PICK c : Pending(c) /\ Input(g.buf, c)
    BY <1>3
  <2>2. Pending(c)'
    BY <1>1, <1>4, <1>5, <1>6, <2>1 DEF Pending
  <2>3. c \in 1 .. (Len(frames') + 1)
    BY <1>5, <2>1 DEF Input
  <2> QED
    BY <2>2, <2>3 DEF Boundary
<1>11. Prefix'
  BY <1>1, <1>5 DEF LPInv, Prefix
<1> QED
  BY <1>1, <1>5, <1>7, <1>8, <1>9, <1>10, <1>11 DEF LPInv, Delivers

(* The upper layer gets the messages up to frame k. *)
LEMMA DeliverUpTo ==
  ASSUME LPInv, NEW input, NEW c, Pending(c), Input(input, c),
         NEW k \in (c - 1) .. LastComplete(input), UNCHANGED txVars,
         delivered' = delivered \o Payloads(input, k)
  PROVE  /\ delivered' \in Seq(Seq(Nat)) /\ Len(delivered') = Messages(k)
         /\ Prefix' /\ Delivers
<1>1. FramesOK /\ delivered \in Seq(Seq(Nat)) /\ Prefix
  BY BufferFacts DEF LPInv, TypeOK
<1>2. PICK x, p, q : x = Payloads(input, k) /\ p = Messages(c - 1) /\ q = Messages(k)
  OBVIOUS
<1>3. /\ q - p \in Nat /\ p \in Nat /\ x \in Seq(Seq(Nat)) /\ Len(x) = q - p
      /\ q <= Messages(Len(frames)) /\ \A i \in 1 .. (q - p) : x[i] = Sent[p + i]
  BY <1>1, <1>2, PayloadsAre
<1>4. Len(delivered) = p /\ Messages(Len(frames)) \in Nat
  BY <1>1, <1>2, SentIs DEF Pending
<1>5. q \in Nat
  <2>1. c \in Nat /\ c >= 1 /\ k \in Nat
    <3>1. c \in Frames /\ Frames = 1 .. Len(frames) /\ Len(frames) \in Nat
      BY <1>1, InputStarts, FrameFacts
    <3>2. LastComplete(input) \in (c - 1) .. Len(frames)
      BY <1>1, ConsumeStops
    <3> QED
      BY <3>1, <3>2
  <2> QED
    BY <1>2, <2>1, MessagesCount
<1>6. p + (q - p) = q /\ p <= q
  BY <1>3, <1>5
<1>7. PICK d : d = delivered \o x
  OBVIOUS
<1>8. /\ d \in Seq(Seq(Nat)) /\ Len(d) = q
      /\ \A i \in DOMAIN d : d[i] = Sent[i]
      /\ d = SubSeq(Sent, 1, q)
  <2>1. Len(delivered) + Len(x) = q
    BY <1>3, <1>4, <1>6
  <2>2. \A i \in 1 .. Len(x) : x[i] = Sent[Len(delivered) + i]
    BY <1>3, <1>4
  <2> QED
    BY <1>1, <1>3, <1>5, <1>7, <2>1, <2>2, DeliverMore
<1>9. delivered' = d
  BY <1>2, <1>7
<1>10. Sent' = Sent /\ Messages(Len(frames))' = Messages(Len(frames))
  BY SameSender
<1>11. Prefix'
  BY <1>3, <1>8, <1>9, <1>10 DEF Prefix
<1>12. Delivers
  <2>1. CASE p = q
    <3>1. x = <<>>
      BY <1>3, <2>1
    <3>2. d = delivered
      BY <1>1, <1>7, <3>1
    <3> QED
      BY <1>9, <1>10, <3>2 DEF Delivers
  <2>2. CASE p < q
    <3>1. q \in (Len(delivered) + 1) .. Len(Sent)
      BY <1>1, <1>3, <1>4, <1>5, <2>2, SentIs
    <3> QED
      BY <1>8, <1>9, <1>10, <3>1 DEF Delivers
  <2> QED
    BY <1>3, <1>5, <1>6, <2>1, <2>2
<1> QED
  BY <1>2, <1>8, <1>9, <1>11, <1>12

(* Shifting the read buffer. *)
LEMMA ShiftMoves ==
  ASSUME NEW g \in RxState, NEW m \in Nat, m <= Len(g.buf), NEW from \in Int, Run(g.buf, from),
         g.max_read_size <= g.size \/ Len(g.buf) < g.max_read_size
  PROVE  LET r == Resize(Shift(g, m))
         IN  /\ r \in RxState /\ Len(r.buf) = Len(g.buf) - m /\ Run(r.buf, from + m)
             /\ r.min_read_size = g.min_read_size /\ r.max_read_size = g.max_read_size
             /\ r.max_read_size <= r.size
<1>1. PICK s, y : s = Shift(g, m) /\ y = SubSeq(g.buf, m + 1, Len(g.buf))
  OBVIOUS
<1>2. g.buf \in Seq(Nat) /\ g.size \in Nat /\ g.max_read_size \in Nat /\ Len(g.buf) \in Nat
  BY DEF RxState
<1>3. y \in Seq(Nat) /\ Len(y) = Len(g.buf) - m /\ Run(y, from + m)
  <2>1. PICK l \in Nat, b \in Seq(Nat) : l = Len(g.buf) /\ b = g.buf /\ l <= Len(b)
    BY <1>2
  <2>2. m <= l /\ Run(b, from) /\ y = SubSeq(b, m + 1, l)
    BY <1>1, <2>1
  <2>3. y \in Seq(Nat) /\ Len(y) = l - m /\ Run(y, from + m)
    BY <2>1, <2>2, SubRun
  <2> QED
    BY <2>1, <2>3
<1>4. /\ s \in RxState /\ s.buf = y /\ s.min_read_size = g.min_read_size
      /\ s.max_read_size = g.max_read_size /\ s.size = g.size
  <2>1. CASE m = 0
    <3>1. s = g
      BY <1>1, <2>1 DEF Shift
    <3>2. y = g.buf
      BY <1>1, <1>2, <2>1
    <3> QED
      BY <3>1, <3>2
  <2>2. CASE m # 0
    <3>1. Len(g.buf) - m \in Nat
      BY <1>2
    <3>2. PICK l \in Nat : l = Len(g.buf) - m
      BY <3>1
    <3>3. s = [g EXCEPT !.buf = y, !.delta_offset = l]
      BY <1>1, <2>2, <3>2 DEF Shift, Offset
    <3> QED
      BY <1>3, <3>3 DEF RxState
  <2> QED
    BY <2>1, <2>2
<1>5. PICK r : r = Resize(s)
  OBVIOUS
<1>6. /\ r \in RxState /\ r.buf = y /\ r.min_read_size = g.min_read_size
      /\ r.max_read_size = g.max_read_size
  BY <1>4, <1>5 DEF Resize, RxState
<1>7. r.max_read_size <= r.size
  <2>1. CASE s.size # s.max_read_size /\ Len(s.buf) < s.max_read_size
    BY <1>2, <1>4, <1>5, <2>1 DEF Resize, RxState, Offset
  <2>2. CASE ~(s.size # s.max_read_size /\ Len(s.buf) < s.max_read_size)
    <3>1. r = s
      BY <1>5, <2>2 DEF Resize, Offset
    <3>2. Len(g.buf) < g.max_read_size => Len(y) < g.max_read_size
      BY <1>2, <1>3
    <3> QED
      BY <1>2, <1>4, <2>2, <3>1, <3>2
  <2> QED
    BY <2>1, <2>2
<1> QED
  BY <1>1, <1>3, <1>5, <1>6, <1>7

(* consume() returns; the buffer is shifted and perhaps grows. *)
LEMMA ReadAndConsumeKeeps ==
  ASSUME LPInv, NEW n, ReadAndConsume(n)
  PROVE  LPInv' /\ Delivers
<1>1. PICK g, i, last, m, need, b1, r1 :
        /\ g = Got(n) /\ i = g.buf /\ last = LastComplete(i) /\ m = Consumed(i)
        /\ need = Needed(i) /\ b1 = IF need > bound THEN need ELSE bound
        /\ r1 = IF b1 = bound THEN g ELSE configure_read(g, between(HeaderSize, b1))
  OBVIOUS
<1>2. /\ Take(n) /\ ~Malformed(i)
      /\ delivered' = delivered \o Payloads(i, last)
      /\ bound' = b1 /\ rx' = Resize(Shift(r1, m)) /\ reads' = reads + 1
      /\ UNCHANGED <<reading, in_event, rx_failed>>
  BY <1>1 DEF ReadAndConsume
<1>3. /\ UNCHANGED txVars /\ in_event /\ reads < max_consecutive_reads
      /\ g \in RxState /\ g.size = rx.size
      /\ g.min_read_size = rx.min_read_size /\ g.max_read_size = rx.max_read_size
      /\ Len(i) <= bound /\ Run(i, RxStart)
      /\ wire' \in Seq(Nat) /\ Run(wire', RxStart + Len(i))
      /\ OutStart' = OutStart /\ WireStart' = RxStart + Len(i)
      /\ \E c : Pending(c) /\ Input(i, c)
  BY <1>1, <1>2, TakeMoves
<1>4. PICK c : Pending(c) /\ Input(i, c)
  BY <1>3
<1>5. /\ ~rx_failed /\ bound \in Nat /\ rx.min_read_size = HeaderSize /\ rx.max_read_size = bound
      /\ default_receive_size <= bound /\ bound <= rx.size /\ rx.size \in Nat
  BY <1>3, InEvent
<1>6. FramesOK /\ RxStart \in Nat /\ RxStart = StartOf(c) /\ Len(i) \in Nat /\ Len(frames) \in Nat
      /\ c \in 1 .. Len(frames)
  BY <1>1, <1>3, <1>4, BufferFacts, FrameFacts, InputStarts DEF Pending, RxState
<1>7. /\ last \in (c - 1) .. Len(frames)
      /\ StartOf(last + 1) <= StartOf(c) + Len(i)
      /\ m = StartOf(last + 1) - StartOf(c)
  BY <1>1, <1>4, <1>6, ConsumeStops
<1>8. PICK e : e = last + 1
  OBVIOUS
<1>9. e \in 1 .. (Len(frames) + 1) /\ e - 1 = last /\ last \in (c - 1) .. LastComplete(i)
  BY <1>1, <1>6, <1>7, <1>8
<1>10. m \in Nat /\ m <= Len(i) /\ RxStart + m = StartOf(e)
  <2>1. c \in 1 .. (Len(frames) + 1) /\ c <= e
    BY <1>6, <1>7, <1>8
  <2>2. StartOf(e) \in Nat /\ StartOf(c) <= StartOf(e)
    <3>1. StartOf(e) \in Nat /\ StartOf(c) \in Nat /\ (c < e => StartOf(c) < StartOf(e))
      BY <1>6, <1>9, <2>1, StartFacts
    <3>2. c = e \/ c < e
      BY <1>6, <1>9, <2>1
    <3> QED
      BY <3>1, <3>2
  <2>3. PICK s \in Nat, t \in Nat, l \in Nat : s = StartOf(c) /\ t = StartOf(e) /\ l = Len(i)
    BY <1>6, <2>2
  <2>4. s <= t /\ t <= s + l /\ m = t - s
    BY <1>7, <1>8, <2>2, <2>3
  <2>5. m \in Nat /\ m <= l /\ s + m = t
    BY <2>4
  <2> QED
    BY <1>6, <2>3, <2>5
<1>11. /\ need \in Nat
       /\ Len(i) - m < HeaderSize
          \/ /\ e \in Frames /\ frames[e].size <= max_message_length
             /\ Len(i) - m < HeaderSize + frames[e].size /\ need = HeaderSize + frames[e].size
  <2>1. CASE HasHeader(i)
    <3>1. /\ e \in Frames /\ NextSize(i) = frames[e].size /\ NextSize(i) \in Nat
          /\ NextSize(i) <= max_message_length => Len(i) - m < HeaderSize + NextSize(i)
      BY <1>1, <1>4, <1>6, <1>8, <2>1, NextHeader
    <3>2. NextSize(i) <= max_message_length
      BY <1>2, <2>1, <3>1, Constants DEF Malformed
    <3>3. need = NextSize(i) + HeaderSize
      BY <1>1, <2>1 DEF Needed
    <3> QED
      BY <3>1, <3>2, <3>3, Constants
  <2>2. CASE ~HasHeader(i)
    <3>1. need = 0
      BY <1>1, <2>2 DEF Needed
    <3>2. ~(Len(i) - m >= HeaderSize)
      BY <1>1, <2>2 DEF HasHeader
    <3> QED
      BY <1>6, <1>10, <3>1, <3>2, Constants
  <2> QED
    BY <2>1, <2>2
<1>12. b1 \in Nat /\ need <= b1 /\ bound <= b1
  BY <1>1, <1>5, <1>11
<1>13. /\ r1 \in RxState /\ r1.buf = i /\ r1.size = rx.size /\ r1.min_read_size = HeaderSize
       /\ r1.max_read_size = b1
  <2>1. CASE b1 = bound
    BY <1>1, <1>3, <1>5, <2>1
  <2>2. CASE b1 # bound
    <3>1. r1 = [g EXCEPT !.min_read_size = HeaderSize, !.max_read_size = b1]
      BY <1>1, <2>2 DEF configure_read, between
    <3> QED
      BY <1>1, <1>3, <1>12, <3>1, Constants DEF RxState
  <2> QED
    BY <2>1, <2>2
<1>14. r1.max_read_size <= r1.size \/ Len(r1.buf) < r1.max_read_size
  <2>1. CASE b1 = bound
    BY <1>5, <1>13, <2>1
  <2>2. CASE b1 > bound
    BY <1>3, <1>5, <1>6, <1>12, <1>13, <2>2
  <2> QED
    BY <1>5, <1>12, <2>1, <2>2
<1>15. PICK r2 : r2 = rx'
  OBVIOUS
<1>16. /\ r2 \in RxState /\ Len(r2.buf) = Len(i) - m /\ Run(r2.buf, RxStart + m)
       /\ r2.min_read_size = HeaderSize /\ r2.max_read_size = b1 /\ b1 <= r2.size
  <2>1. RxStart \in Int /\ m <= Len(r1.buf) /\ Run(r1.buf, RxStart)
    BY <1>3, <1>6, <1>10, <1>13
  <2>2. r2 = Resize(Shift(r1, m))
    BY <1>2, <1>15
  <2>3. /\ r2 \in RxState /\ Len(r2.buf) = Len(r1.buf) - m /\ Run(r2.buf, RxStart + m)
        /\ r2.min_read_size = r1.min_read_size /\ r2.max_read_size = r1.max_read_size
        /\ r2.max_read_size <= r2.size
    BY <1>10, <1>13, <1>14, <2>1, <2>2, ShiftMoves
  <2> QED
    BY <1>13, <2>3
<1>17. /\ delivered' \in Seq(Seq(Nat)) /\ Len(delivered') = Messages(last)
       /\ Prefix' /\ Delivers
  BY <1>2, <1>3, <1>4, <1>9, DeliverUpTo
<1>18. /\ frames' = frames /\ write_buf' = write_buf /\ Frames' = Frames
       /\ \A d : StartOf(d)' = StartOf(d)
       /\ \A k : Messages(k)' = Messages(k)
       /\ Chained' /\ OutputIsArmed'
  BY <1>3, SameSender DEF LPInv
<1>19. RxStart' = RxStart + m
  <2>1. PICK r \in Nat, l \in Nat : r = RxStart /\ l = Len(i)
    BY <1>6
  <2>2. WireStart' = r + l /\ Len(r2.buf) = l - m
    BY <1>3, <1>16, <2>1
  <2>3. RxStart' = r + l - (l - m)
    BY <1>15, <2>2 DEF RxStart
  <2>4. r + l - (l - m) = r + m
    BY <1>10
  <2> QED
    BY <2>1, <2>3, <2>4
<1>20. TypeOK'
  <2>1. reads' \in 0 .. max_consecutive_reads
    BY <1>2, <1>3, Constants DEF LPInv, TypeOK
  <2> QED
    BY <1>2, <1>3, <1>12, <1>15, <1>16, <1>17, <2>1 DEF LPInv, TypeOK, txVars
<1>21. Policy'
  <2>1. default_receive_size <= b1
    BY <1>5, <1>12, Constants
  <2> QED
    BY <1>2, <1>5, <1>15, <1>16, <2>1 DEF LPInv, Policy
<1>22. Stream'
  <2>1. RxStart' >= 0 /\ Run(rx'.buf, RxStart')
    BY <1>6, <1>10, <1>15, <1>16, <1>19
  <2>2. Run(wire', WireStart') /\ Run(write_buf', OutStart')
    BY <1>3, <1>18 DEF LPInv, Stream
  <2> QED
    BY <2>1, <2>2 DEF Stream
<1>23. Boundary'
  <2>1. RxStart' = StartOf(e)' /\ Len(delivered') = Messages(e - 1)'
    BY <1>9, <1>10, <1>17, <1>18, <1>19
  <2>2. \/ Len(rx'.buf) < HeaderSize
        \/ /\ e \in Frames' /\ frames'[e].size <= max_message_length
           /\ Len(rx'.buf) < HeaderSize + frames'[e].size
           /\ HeaderSize + frames'[e].size <= bound'
    BY <1>2, <1>11, <1>12, <1>15, <1>16, <1>18
  <2>3. Pending(e)'
    BY <2>1, <2>2 DEF Pending
  <2>4. e \in 1 .. (Len(frames') + 1)
    BY <1>9, <1>18
  <2> QED
    BY <2>3, <2>4 DEF Boundary
<1> QED
  BY <1>17, <1>18, <1>20, <1>21, <1>22, <1>23 DEF LPInv

(* consume() fails. *)
LEMMA ReadAndAbortKeeps ==
  ASSUME LPInv, NEW n, NEW last, ReadAndAbort(n, last)
  PROVE  LPInv' /\ Delivers
<1>1. PICK g, i : g = Got(n) /\ i = g.buf
  OBVIOUS
<1>2. /\ Take(n)
      /\ last \in Complete(i) \/ last = LastComplete(i)
      /\ delivered' = delivered \o Payloads(i, last)
      /\ rx' = g /\ in_event' = FALSE /\ reading' = FALSE /\ rx_failed' = TRUE
      /\ UNCHANGED <<bound, reads>>
  BY <1>1 DEF ReadAndAbort, Return
<1>3. /\ UNCHANGED txVars
      /\ g \in RxState /\ g.size = rx.size
      /\ g.min_read_size = rx.min_read_size /\ g.max_read_size = rx.max_read_size
      /\ Run(i, RxStart)
      /\ wire' \in Seq(Nat) /\ Run(wire', RxStart + Len(i))
      /\ OutStart' = OutStart /\ WireStart' = RxStart + Len(i)
      /\ \E c : Pending(c) /\ Input(i, c)
  BY <1>1, <1>2, TakeMoves
<1>4. PICK c : Pending(c) /\ Input(i, c)
  BY <1>3
<1>5. last \in (c - 1) .. LastComplete(i)
  <2>1. /\ FramesOK /\ Len(frames) \in Nat /\ c \in 1 .. Len(frames)
    BY <1>4, BufferFacts, FrameFacts, InputStarts
  <2>2. /\ LastComplete(i) \in (c - 1) .. Len(frames)
        /\ \A k \in Complete(i) : k \in c .. LastComplete(i)
    BY <1>4, <2>1, ConsumeStops
  <2>3. PICK z \in (c - 1) .. Len(frames) : z = LastComplete(i)
    BY <2>2
  <2>4. last \in c .. z \/ last = z
    BY <1>2, <2>2, <2>3
  <2>5. last \in (c - 1) .. z
    BY <2>1, <2>3, <2>4
  <2> QED
    BY <2>3, <2>5
<1>6. delivered' \in Seq(Seq(Nat)) /\ Prefix' /\ Delivers
  BY <1>2, <1>3, <1>4, <1>5, DeliverUpTo
<1>7. write_buf' = write_buf /\ Chained' /\ OutputIsArmed'
  BY <1>3, SameSender DEF LPInv
<1>8. RxStart' = RxStart
  <2>1. PICK r \in Nat, l \in Nat : r = RxStart /\ l = Len(i)
    BY <1>1, <1>3, BufferFacts DEF RxState
  <2>2. WireStart' = r + l
    BY <1>3, <2>1
  <2>3. RxStart' = r + l - l
    BY <1>1, <1>2, <2>1, <2>2 DEF RxStart
  <2> QED
    BY <2>1, <2>3
<1>9. TypeOK'
  BY <1>2, <1>3, <1>6 DEF LPInv, TypeOK, txVars
<1>10. Policy'
  BY <1>2, <1>3 DEF LPInv, Policy
<1>11. Stream'
  <2>1. RxStart' >= 0 /\ Run(rx'.buf, RxStart')
    BY <1>1, <1>2, <1>3, <1>8, BufferFacts
  <2>2. Run(wire', WireStart') /\ Run(write_buf', OutStart')
    BY <1>3, <1>7 DEF LPInv, Stream
  <2> QED
    BY <2>1, <2>2 DEF Stream
<1>12. Boundary'
  BY <1>2 DEF Boundary
<1> QED
  BY <1>6, <1>7, <1>9, <1>10, <1>11, <1>12 DEF LPInv

-----------------------------------------------------------------------------
(* The theorems *)

(* The state after init(). *)
LEMMA InitKeeps == Init => LPInv
<1> SUFFICES ASSUME Init PROVE LPInv
  OBVIOUS
<1>1. /\ frames = <<>> /\ write_buf = <<>> /\ writing = FALSE /\ tx_failed = FALSE
      /\ wire = <<>> /\ bound = default_receive_size
      /\ reads = 0 /\ reading = TRUE /\ in_event = FALSE
      /\ rx_failed = FALSE /\ delivered = <<>>
  BY DEF Init
<1>2. /\ rx \in RxState /\ rx.buf = <<>> /\ rx.min_read_size = HeaderSize
      /\ rx.max_read_size = bound
  <2>1. PICK z : z = [buf |-> <<>>, size |-> 0, delta_offset |-> 0,
                      min_read_size |-> 0, max_read_size |-> 0]
    OBVIOUS
  <2>2. z \in RxState /\ z.buf = <<>>
    <3>1. <<>> \in Seq(Nat)
      OBVIOUS
    <3> QED
      BY <2>1, <3>1 DEF RxState
  <2>3. rx = [z EXCEPT !.min_read_size = HeaderSize, !.max_read_size = default_receive_size]
    BY <2>1 DEF Init, configure_read, RxInit, between
  <2> QED
    BY <1>1, <2>2, <2>3, Constants DEF RxState
<1>3. TypeOK
  <2>1. frames \in Seq(Frame) /\ write_buf \in Seq(Nat) /\ wire \in Seq(Nat)
        /\ delivered \in Seq(Seq(Nat))
    BY <1>1
  <2>2. reads \in 0 .. max_consecutive_reads /\ bound \in Nat
    BY <1>1, Constants
  <2> QED
    BY <1>1, <1>2, <2>1, <2>2 DEF TypeOK
<1>4. Frames = {} /\ Len(frames) = 0
  BY <1>1 DEF Frames
<1>5. Chained
  BY <1>4 DEF Chained
<1>6. NextStart = 0 /\ OutStart = 0 /\ WireStart = 0 /\ RxStart = 0
  <2>1. Len(write_buf) = 0 /\ Len(wire) = 0 /\ Len(rx.buf) = 0
    BY <1>1, <1>2
  <2> QED
    <3>1. NextStart = 0
      BY <1>1 DEF NextStart
    <3>2. OutStart = 0
      BY <2>1, <3>1 DEF OutStart
    <3>3. WireStart = 0
      BY <2>1, <3>2 DEF WireStart
    <3>4. RxStart = 0
      BY <2>1, <3>3 DEF RxStart
    <3> QED
      BY <3>1, <3>2, <3>3, <3>4
<1>7. Stream
  BY <1>1, <1>2, <1>6 DEF Stream, Run
<1>8. Policy
  BY <1>1, <1>2, Constants DEF Policy
<1>9. Messages(0) = 0
  BY MessagesCount
<1>10. Boundary
  <2>1. StartOf(1) = 0 /\ 1 - 1 = 0 /\ Len(rx.buf) = 0 /\ Len(delivered) = 0
    BY <1>1, <1>2 DEF StartOf
  <2>2. Pending(1)
    BY <1>6, <1>9, <2>1, Constants DEF Pending
  <2>3. 1 \in 1 .. (Len(frames) + 1)
    BY <1>4
  <2> QED
    BY <2>2, <2>3 DEF Boundary
<1>11. Prefix
  BY <1>1, <1>4, <1>9 DEF Prefix
<1>12. OutputIsArmed
  BY <1>1 DEF OutputIsArmed
<1> QED
  BY <1>3, <1>5, <1>7, <1>8, <1>10, <1>11, <1>12 DEF LPInv

(* Every step keeps the invariant, and the abstract channel sees what the  *)
(* channel may do.                                                         *)
LEMMA StepKeeps ==
  ASSUME LPInv, [Next]_vars
  PROVE  LPInv' /\ (Delivers \/ (Grown /\ delivered' = delivered))
<1>1. CASE Sender
  <2>1. CASE \E len \in Sizes : SendMessage(len)
    BY <2>1, SendMessageKeeps
  <2>2. CASE SendHuge
    BY <2>2, SendHugeKeeps
  <2>3. CASE WriteFails
    BY <2>3, WriteFailsKeeps
  <2>4. CASE \E len \in Sizes \cup {0}, done \in BOOLEAN, n \in 0 .. WireCapacity :
               WriteEvent(len, n, done)
    BY <2>4, WriteEventKeeps
  <2> QED
    BY <1>1, <2>1, <2>2, <2>3, <2>4 DEF Sender
<1>2. CASE Receiver
  <2>1. CASE ReadEvent
    BY <2>1, ReadEventKeeps
  <2>2. CASE ReadEnds \/ ReadBlocks \/ ReadFails
    BY <2>2, ReadReturns
  <2>3. CASE \E n \in 1 .. WireCapacity : ReadTooFew(n)
    BY <2>3, ReadTooFewKeeps
  <2>4. CASE \E n \in 1 .. WireCapacity : ReadAndConsume(n)
    BY <2>4, ReadAndConsumeKeeps
  <2>5. CASE \E n \in 1 .. WireCapacity : \E last \in 0 .. MaxFrames : ReadAndAbort(n, last)
    BY <2>5, ReadAndAbortKeeps
  <2> QED
    BY <1>2, <2>1, <2>2, <2>3, <2>4, <2>5 DEF Receiver
<1>3. CASE UNCHANGED vars
  <2>1. /\ UNCHANGED txVars /\ wire' = wire /\ rx' = rx /\ bound' = bound /\ reads' = reads
        /\ reading' = reading /\ in_event' = in_event /\ rx_failed' = rx_failed
        /\ delivered' = delivered
    BY <1>3 DEF vars, rxVars
  <2>2. TypeOK' /\ Policy'
    BY <2>1 DEF LPInv, TypeOK, Policy, txVars
  <2> QED
    BY <2>1, <2>2, IdleKeeps
<1> QED
  BY <1>1, <1>2, <1>3 DEF Next, Waiting

(* Every reachable state of sender, stream and receiver satisfies the      *)
(* inductive invariant.                                                    *)
THEOREM FramingInvariant == Spec => []LPInv
<1>1. LPInv /\ [Next]_vars => LPInv'
  BY StepKeeps
<1> QED
  BY <1>1, InitKeeps, PTL DEF Spec

(* The state of length_prefix_framing and of both transports stays well    *)
(* typed.                                                                  *)
THEOREM FramingTypes == Spec => []TypeOK
<1>1. LPInv => TypeOK
  BY DEF LPInv
<1> QED
  BY <1>1, FramingInvariant, PTL

(* For any sizes of messages and buffers: consume() raises the upper bound *)
(* of the receive policy before the buffer is full, so that the transport  *)
(* can always read, and a write buffer with bytes is being written.        *)
THEOREM FramingBuffersMove == Spec => []BuffersMove
<1>1. LPInv => BuffersMove
  <2> SUFFICES ASSUME LPInv, in_event
               PROVE  Len(rx.buf) < rx.max_read_size /\ rx.max_read_size <= rx.size
    BY DEF BuffersMove, ReadHasRoom, IsFull, Offset, LPInv, TypeOK, RxState
  <2>1. /\ ~rx_failed /\ bound \in Nat /\ rx.max_read_size = bound
        /\ default_receive_size <= bound /\ bound <= rx.size
    BY InEvent
  <2>2. PICK c \in 1 .. (Len(frames) + 1) : Pending(c)
    BY <2>1 DEF LPInv, Boundary
  <2>3. \/ Len(rx.buf) < HeaderSize
        \/ /\ c \in Frames /\ Len(rx.buf) < HeaderSize + frames[c].size
           /\ HeaderSize + frames[c].size <= bound
    BY <2>2 DEF Pending
  <2>4. Len(rx.buf) \in Nat /\ (c \in Frames => frames[c].size \in Nat)
    BY BufferFacts, FrameFacts
  <2>5. Len(rx.buf) < bound
    BY <2>1, <2>3, <2>4, Constants
  <2> QED
    BY <2>1, <2>5
<1> QED
  BY <1>1, FramingInvariant, PTL

(* The receiving application gets what the sending one wrote: whatever the *)
(* socket makes of the stream, length_prefix_framing over stream_transport *)
(* implements the abstract message channel.                                *)
THEOREM FramingIsChannel == Spec => IsChannel
<1>1. Init => Channel!MCInit
  <2> SUFFICES ASSUME Init PROVE Sent = <<>> /\ delivered = <<>>
    BY DEF Channel!MCInit
  <2>1. frames = <<>> /\ delivered = <<>> /\ FramesOK
    BY InitKeeps, BufferFacts DEF Init
  <2>2. Len(Sent) = Messages(0) /\ Sent \in Seq(Seq(Nat))
    BY <2>1, SentIs
  <2>3. Messages(0) = 0
    BY MessagesCount
  <2> QED
    BY <2>1, <2>2, <2>3
<1>2. LPInv /\ [Next]_vars => [Channel!MCNext]_<<Sent, delivered>>
  <2> SUFFICES ASSUME LPInv, [Next]_vars
               PROVE  \/ Channel!Send \/ Channel!Deliver
                      \/ Sent' = Sent /\ delivered' = delivered
    BY DEF Channel!MCNext
  <2>1. CASE Delivers
    BY <2>1 DEF Delivers, Channel!Deliver
  <2>2. CASE Grown /\ delivered' = delivered
    BY <2>2, BufferFacts, SentGrows DEF Channel!Send
  <2> QED
    BY <2>1, <2>2, StepKeeps
<1> QED
  BY <1>1, <1>2, FramingInvariant, PTL DEF Spec, IsChannel, Channel!MCSpec
=============================================================================
