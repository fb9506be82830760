-------------------------- MODULE WebSocketProofs --------------------------
(***************************************************************************)
(* Proofs about module WebSocket.                                          *)
(*                                                                         *)
(* The codec of rfc6455.hpp first: decode_header undoes assemble_header on *)
(* any prefix of a frame, and masking undoes itself. Then the invariant.   *)
(* It claims a past: all frames that the peer has sent, with the state of  *)
(* the peer around each of them (Past). While the endpoint reads, its      *)
(* layers are in the state of the peer at one of these marks, and what is  *)
(* in the buffer and in the socket is what the peer sent after this mark   *)
(* (Present). Each step keeps the claim: the peer adds a frame to the past,*)
(* consume() goes to the next mark. A past is found only if frames can be  *)
(* cut out of the bytes again, which is where the codec comes in.          *)
(***************************************************************************)
EXTENDS WebSocket, WellFoundedInduction, SequenceTheorems, TLAPS

(* The largest 32-bit integer, in the form in which arithmetic steps use it. *)
LEMMA MaxIs == INT32_MAX \in Nat /\ INT32_MAX <= 2147483647 /\ INT32_MAX >= 2147483647
  BY DEF INT32_MAX

(* What a byte is. *)
LEMMA BytesAre == \A b : b \in Bytes <=> b \in Nat /\ b <= 255
  BY DEF Bytes

(* The four bytes of a number, the lowest first. *)
LEMMA ByteIs ==
  ASSUME NEW x \in Nat
  PROVE  /\ Byte(x, 0) = x % 256 /\ Byte(x, 1) = (x \div 256) % 256
         /\ Byte(x, 2) = (x \div 65536) % 256 /\ Byte(x, 3) = (x \div 16777216) % 256
<1>1. /\ <<1, 256, 65536, 16777216>>[0 + 1] = 1
      /\ <<1, 256, 65536, 16777216>>[1 + 1] = 256
      /\ <<1, 256, 65536, 16777216>>[2 + 1] = 65536
      /\ <<1, 256, 65536, 16777216>>[3 + 1] = 16777216
  OBVIOUS
<1>2. x \div 1 = x
  OBVIOUS
<1> QED
  BY <1>1, <1>2 DEF Byte

(* A number and its bytes. *)
IsNumber(x, a, b, c, d) == x = a + 256 * b + 65536 * c + 16777216 * d

(* A number is the weighted sum of its bytes; a 16-bit number has only two. *)
LEMMA BytesOf ==
  ASSUME NEW x \in 0 .. INT32_MAX
  PROVE  \E a, b, c, d \in Bytes :
           /\ Byte(x, 0) = a /\ Byte(x, 1) = b /\ Byte(x, 2) = c /\ Byte(x, 3) = d
           /\ d <= 127 /\ IsNumber(x, a, b, c, d)
           /\ x < 65536 => c = 0 /\ d = 0
<1>1. x \in Nat /\ x <= 2147483647
  BY MaxIs
<1>2. PICK a, b, c, d : /\ a = x % 256 /\ b = (x \div 256) % 256
                        /\ c = (x \div 65536) % 256 /\ d = (x \div 16777216) % 256
  OBVIOUS
<1>3. x = a + 256 * b + 65536 * c + 16777216 * d
  BY <1>1, <1>2
<1>4. /\ a \in Nat /\ a <= 255 /\ b \in Nat /\ b <= 255
      /\ c \in Nat /\ c <= 255 /\ d \in Nat /\ d <= 127
  BY <1>1, <1>2
<1>5. x < 65536 => c = 0 /\ d = 0
  BY <1>1, <1>3, <1>4
<1>6. Byte(x, 0) = a /\ Byte(x, 1) = b /\ Byte(x, 2) = c /\ Byte(x, 3) = d
  BY <1>1, <1>2, ByteIs
<1>7. a \in Bytes /\ b \in Bytes /\ c \in Bytes /\ d \in Bytes
  BY <1>4, BytesAre
<1>8. IsNumber(x, a, b, c, d)
  BY <1>3 DEF IsNumber
<1> QED
  BY <1>4, <1>5, <1>6, <1>7, <1>8

(* The four bits of half a byte. *)
LEMMA BitIs ==
  ASSUME NEW x \in Nat
  PROVE  /\ Bit(x, 0) = x % 2 /\ Bit(x, 1) = (x \div 2) % 2
         /\ Bit(x, 2) = (x \div 4) % 2 /\ Bit(x, 3) = (x \div 8) % 2
<1>1. /\ <<1, 2, 4, 8>>[0 + 1] = 1 /\ <<1, 2, 4, 8>>[1 + 1] = 2
      /\ <<1, 2, 4, 8>>[2 + 1] = 4 /\ <<1, 2, 4, 8>>[3 + 1] = 8
  OBVIOUS
<1>2. x \div 1 = x
  OBVIOUS
<1> QED
  BY <1>1, <1>2 DEF Bit

(* Half a byte. *)
Half == 0 .. 15

(* What half a byte is. *)
LEMMA HalfIs == \A x : x \in Half <=> x \in Nat /\ x <= 15
  BY DEF Half

(* Half a byte is the weighted sum of its bits. *)
LEMMA BitsOf ==
  ASSUME NEW x \in Half
  PROVE  \E a, b, c, d \in {0, 1} :
           /\ Bit(x, 0) = a /\ Bit(x, 1) = b /\ Bit(x, 2) = c /\ Bit(x, 3) = d
           /\ x = a + 2 * b + 4 * c + 8 * d
<1>1. x \in Nat /\ x <= 15
  BY HalfIs
<1>2. PICK a, b, c, d : a = x % 2 /\ b = (x \div 2) % 2 /\ c = (x \div 4) % 2 /\ d = (x \div 8) % 2
  OBVIOUS
<1>3. x = a + 2 * b + 4 * c + 8 * d
  BY <1>1, <1>2
<1>4. a \in {0, 1} /\ b \in {0, 1} /\ c \in {0, 1} /\ d \in {0, 1}
  BY <1>1, <1>2
<1> QED
  BY <1>1, <1>2, <1>3, <1>4, BitIs

(* Bits make half a byte that has these bits. *)
LEMMA BitsMake ==
  ASSUME NEW a \in {0, 1}, NEW b \in {0, 1}, NEW c \in {0, 1}, NEW d \in {0, 1},
         NEW x, x = a + 2 * b + 4 * c + 8 * d
  PROVE  /\ x \in Half
         /\ Bit(x, 0) = a /\ Bit(x, 1) = b /\ Bit(x, 2) = c /\ Bit(x, 3) = d
<1>1. x \in Nat /\ x <= 15
  OBVIOUS
<1>2. a = x % 2 /\ b = (x \div 2) % 2 /\ c = (x \div 4) % 2 /\ d = (x \div 8) % 2
  BY <1>1
<1> QED
  BY <1>1, <1>2, BitIs, HalfIs

(* XOR of two halves, bit by bit. *)
LEMMA Xor4Is ==
  ASSUME NEW x \in Half, NEW y \in Half
  PROVE  Xor4[x][y] = ((Bit(x, 0) + Bit(y, 0)) % 2) + 2 * ((Bit(x, 1) + Bit(y, 1)) % 2)
                      + 4 * ((Bit(x, 2) + Bit(y, 2)) % 2) + 8 * ((Bit(x, 3) + Bit(y, 3)) % 2)
<1>1. Xor4 = [u \in Half |-> [v \in Half |->
                ((Bit(u, 0) + Bit(v, 0)) % 2) + 2 * ((Bit(u, 1) + Bit(v, 1)) % 2)
                + 4 * ((Bit(u, 2) + Bit(v, 2)) % 2) + 8 * ((Bit(u, 3) + Bit(v, 3)) % 2)]]
  BY DEF Xor4, Half
<1> QED
  BY <1>1

(* XOR of halves is a half and undoes itself. *)
LEMMA Xor4Facts ==
  ASSUME NEW x \in Half, NEW y \in Half
  PROVE  Xor4[x][y] \in Half /\ Xor4[Xor4[x][y]][y] = x
<1>1. PICK a \in {0, 1}, b \in {0, 1}, c \in {0, 1}, d \in {0, 1} :
        /\ a = Bit(x, 0) /\ b = Bit(x, 1) /\ c = Bit(x, 2) /\ d = Bit(x, 3)
        /\ x = a + 2 * b + 4 * c + 8 * d
  BY BitsOf
<1>2. PICK e \in {0, 1}, f \in {0, 1}, g \in {0, 1}, h \in {0, 1} :
        e = Bit(y, 0) /\ f = Bit(y, 1) /\ g = Bit(y, 2) /\ h = Bit(y, 3)
  BY BitsOf
<1>3. PICK p \in {0, 1}, q \in {0, 1}, r \in {0, 1}, s \in {0, 1} :
        p = (a + e) % 2 /\ q = (b + f) % 2 /\ r = (c + g) % 2 /\ s = (d + h) % 2
  OBVIOUS
<1>4. PICK z : z = p + 2 * q + 4 * r + 8 * s
  OBVIOUS
<1>5. Xor4[x][y] = z
  BY <1>1, <1>2, <1>3, <1>4, Xor4Is
<1>6. z \in Half /\ Bit(z, 0) = p /\ Bit(z, 1) = q /\ Bit(z, 2) = r /\ Bit(z, 3) = s
  BY <1>4, BitsMake
<1>7. Xor4[z][y] = ((p + e) % 2) + 2 * ((q + f) % 2) + 4 * ((r + g) % 2) + 8 * ((s + h) % 2)
  BY <1>2, <1>6, Xor4Is
<1>8. (p + e) % 2 = a /\ (q + f) % 2 = b /\ (r + g) % 2 = c /\ (s + h) % 2 = d
  BY <1>3
<1> QED
  BY <1>1, <1>5, <1>6, <1>7, <1>8

(* XOR of bytes is a byte and undoes itself. *)
LEMMA XorFacts ==
  ASSUME NEW x \in Bytes, NEW y \in Bytes
  PROVE  Xor(x, y) \in Bytes /\ Xor(Xor(x, y), y) = x
<1>1. PICK a \in Half, b \in Half : a = x \div 16 /\ b = x % 16 /\ x = 16 * a + b
  <2>1. x \in Nat /\ x <= 255
    BY BytesAre
  <2>2. PICK a, b : a = x \div 16 /\ b = x % 16
    OBVIOUS
  <2>3. a \in Nat /\ a <= 15 /\ b \in Nat /\ b <= 15 /\ x = 16 * a + b
    BY <2>1, <2>2
  <2> QED
    BY <2>2, <2>3, HalfIs
<1>2. PICK c \in Half, d \in Half : c = y \div 16 /\ d = y % 16
  <2>1. y \in Nat /\ y <= 255
    BY BytesAre
  <2>2. y \div 16 \in Nat /\ y \div 16 <= 15 /\ y % 16 \in Nat /\ y % 16 <= 15
    BY <2>1
  <2> QED
    BY <2>2, HalfIs
<1>3. PICK u, v : u = Xor4[a][c] /\ v = Xor4[b][d]
  OBVIOUS
<1>4. u \in Half /\ v \in Half /\ Xor4[u][c] = a /\ Xor4[v][d] = b
  BY <1>3, Xor4Facts
<1>5. Xor(x, y) = 16 * u + v
  BY <1>1, <1>2, <1>3 DEF Xor
<1>6. PICK z : z = 16 * u + v
  OBVIOUS
<1>7. u \in Nat /\ v \in Nat /\ u <= 15 /\ v <= 15
  BY <1>4, HalfIs
<1>8. z \in Nat /\ z <= 255 /\ z \div 16 = u /\ z % 16 = v
  BY <1>6, <1>7
<1>9. Xor(z, y) = 16 * Xor4[z \div 16][y \div 16] + Xor4[z % 16][y % 16]
  BY DEF Xor
<1> QED
  BY <1>1, <1>2, <1>4, <1>5, <1>6, <1>8, <1>9, BytesAre

(* A function over 1 .. n is a sequence. *)
LEMMA FunSeq ==
  ASSUME NEW S, NEW n \in Nat, NEW f \in [1 .. n -> S]
  PROVE  f \in Seq(S) /\ Len(f) = n /\ DOMAIN f = 1 .. n
  OBVIOUS

(* What to_network_order writes. *)
LEMMA NetworkBytes ==
  ASSUME NEW x \in 0 .. INT32_MAX, NEW n \in Nat
  PROVE  /\ to_network_order(x, n) \in Seq(Bytes) /\ Len(to_network_order(x, n)) = n
         /\ \A i \in 1 .. n : to_network_order(x, n)[i] = IF n - i > 3 THEN 0 ELSE Byte(x, n - i)
<1>1. PICK a \in Bytes, b \in Bytes, c \in Bytes, d \in Bytes :
        Byte(x, 0) = a /\ Byte(x, 1) = b /\ Byte(x, 2) = c /\ Byte(x, 3) = d
  BY BytesOf
<1>2. 0 \in Bytes
  BY BytesAre
<1>3. ASSUME NEW i \in 1 .. n
      PROVE  (IF n - i > 3 THEN 0 ELSE Byte(x, n - i)) \in Bytes
  <2>1. CASE n - i > 3
    BY <1>2, <2>1
  <2>2. CASE ~(n - i > 3)
    <3>1. n - i = 0 \/ n - i = 1 \/ n - i = 2 \/ n - i = 3
      BY <2>2
    <3>2. Byte(x, n - i) \in Bytes
      BY <1>1, <3>1
    <3> QED
      BY <2>2, <3>2
  <2> QED
    BY <2>1, <2>2
<1>4. to_network_order(x, n) \in [1 .. n -> Bytes]
  BY <1>3 DEF to_network_order
<1> QED
  BY <1>4, FunSeq DEF to_network_order

(* The bytes of x in network order. *)
IsNetwork(s, x, n) ==
  /\ Len(s) = n
  /\ \A i \in 1 .. n : s[i] = IF n - i > 3 THEN 0 ELSE Byte(x, n - i)

(* The same, as one fact. *)
LEMMA NetworkIs ==
  ASSUME NEW x \in 0 .. INT32_MAX, NEW n \in Nat
  PROVE  IsNetwork(to_network_order(x, n), x, n)
  BY NetworkBytes DEF IsNetwork

(* The last n bytes of s, of which at most four count. *)
Holds(s, n, a, b, c, d) ==
  /\ n \in Nat /\ n = Len(s) /\ n >= 2
  /\ a \in Nat /\ b \in Nat /\ c \in Nat /\ d \in Nat /\ d <= 127
  /\ s[n] = a /\ s[n - 1] = b
  /\ IF n > 3 THEN s[n - 2] = c /\ s[n - 3] = d ELSE n = 2 /\ c = 0 /\ d = 0
  /\ \A i \in 1 .. (n - 4) : s[i] = 0

(* from_network_order adds up the bytes with their weights. *)
LEMMA FromNetwork ==
  ASSUME NEW s, NEW n, NEW x, NEW a, NEW b, NEW c, NEW d,
         Holds(s, n, a, b, c, d), IsNumber(x, a, b, c, d)
  PROVE  from_network_order(s) = x
<1> USE DEF Holds
<1>1. n = Len(s) /\ n >= 2
  OBVIOUS
<1> DEFINE At(k) == IF k < n THEN s[n - k] ELSE 0
<1>2. At(0) = a /\ At(1) = b /\ At(2) = c /\ At(3) = d
  <2>1. n - 0 = n
    BY <1>1
  <2>2. At(0) = a /\ At(1) = b
    BY <1>1, <2>1
  <2>3. CASE n > 3
    BY <1>1, <2>2, <2>3
  <2>4. CASE n = 2
    BY <1>1, <2>2, <2>4
  <2> QED
    BY <1>1, <2>3, <2>4
<1>3. ~(\E i \in 1 .. (n - 4) : s[i] > 0)
  BY <1>1
<1>4. ~(At(3) > 127)
  BY <1>2
<1>5. from_network_order(s) = At(0) + 256 * At(1) + 65536 * At(2) + 16777216 * At(3)
  BY <1>1, <1>3, <1>4 DEF from_network_order
<1> HIDE DEF At
<1> QED
  BY <1>2, <1>5 DEF IsNumber

(* Reading a length or a key that was written in network order returns it. *)
LEMMA NetworkInverse ==
  ASSUME NEW x \in 0 .. INT32_MAX, NEW n \in {2, 4, 8}, n = 2 => x < 65536
  PROVE  from_network_order(to_network_order(x, n)) = x
<1>1. PICK a \in Bytes, b \in Bytes, c \in Bytes, d \in Bytes :
        /\ Byte(x, 0) = a /\ Byte(x, 1) = b /\ Byte(x, 2) = c /\ Byte(x, 3) = d
        /\ d <= 127 /\ IsNumber(x, a, b, c, d)
        /\ x < 65536 => c = 0 /\ d = 0
  BY BytesOf
<1>2. PICK s : s = to_network_order(x, n)
  OBVIOUS
<1>3. /\ Len(s) = n /\ n \in Nat
      /\ \A i \in 1 .. n : s[i] = IF n - i > 3 THEN 0 ELSE Byte(x, n - i)
  <2>1. n \in Nat
    OBVIOUS
  <2>2. IsNetwork(to_network_order(x, n), x, n)
    BY <2>1, NetworkIs
  <2>3. IsNetwork(s, x, n)
    BY <1>2, <2>2
  <2> QED
    BY <2>1, <2>3 DEF IsNetwork
<1>4. a \in Nat /\ b \in Nat /\ c \in Nat /\ d \in Nat /\ x \in Nat
  BY BytesAre, MaxIs
<1>5. s[n] = a /\ s[n - 1] = b
  <2>1. n \in 1 .. n /\ n - 1 \in 1 .. n /\ n - n = 0 /\ n - (n - 1) = 1
    OBVIOUS
  <2> QED
    BY <1>1, <1>3, <2>1
<1>6. n > 3 => s[n - 2] = c /\ s[n - 3] = d
  <2>1. n > 3 => /\ n - 2 \in 1 .. n /\ n - 3 \in 1 .. n
                 /\ n - (n - 2) = 2 /\ n - (n - 3) = 3
    OBVIOUS
  <2> QED
    BY <1>1, <1>3, <2>1
<1>7. \A i \in 1 .. (n - 4) : s[i] = 0
  <2> TAKE i \in 1 .. (n - 4)
  <2>1. i \in 1 .. n /\ n - i > 3
    OBVIOUS
  <2> QED
    BY <1>3, <2>1
<1>8. n > 3 \/ n = 2
  OBVIOUS
<1>9. IF n > 3 THEN s[n - 2] = c /\ s[n - 3] = d ELSE n = 2 /\ c = 0 /\ d = 0
  BY <1>1, <1>6, <1>8
<1>10. n >= 2
  OBVIOUS
<1>11. Holds(s, n, a, b, c, d)
  BY <1>1, <1>3, <1>4, <1>5, <1>7, <1>9, <1>10 DEF Holds
<1> QED
  BY <1>1, <1>2, <1>11, FromNetwork

(* rfc6455::mask_data keeps the length, and masking twice restores the data. *)
LEMMA MaskFacts ==
  ASSUME NEW key \in 0 .. INT32_MAX, NEW data \in Seq(Bytes)
  PROVE  /\ mask_data(key, data) \in Seq(Bytes) /\ Len(mask_data(key, data)) = Len(data)
         /\ mask_data(key, mask_data(key, data)) = data
<1>1. PICK arr : arr = to_network_order(key, 4) /\ arr \in Seq(Bytes) /\ Len(arr) = 4
  BY NetworkBytes
<1>2. PICK n \in Nat : n = Len(data) /\ data \in [1 .. n -> Bytes] /\ DOMAIN data = 1 .. n
  OBVIOUS
<1> DEFINE K(i) == arr[((i - 1) % 4) + 1]
<1>3. \A i \in 1 .. n : K(i) \in Bytes
  <2> TAKE i \in 1 .. n
  <2>1. ((i - 1) % 4) + 1 \in 1 .. 4
    OBVIOUS
  <2> QED
    BY <1>1, <2>1
<1>4. PICK m : m = mask_data(key, data)
  OBVIOUS
<1>5. m = [i \in 1 .. n |-> Xor(data[i], K(i))]
  BY <1>1, <1>2, <1>4 DEF mask_data
<1> HIDE DEF K
<1>6. \A i \in 1 .. n : data[i] \in Bytes
  BY <1>2
<1>7. m \in [1 .. n -> Bytes]
  BY <1>3, <1>5, <1>6, XorFacts
<1>8. m \in Seq(Bytes) /\ Len(m) = n /\ DOMAIN m = 1 .. n
  BY <1>7, FunSeq
<1>9. mask_data(key, m) = [i \in 1 .. n |-> Xor(m[i], K(i))]
  BY <1>1, <1>8 DEF mask_data, K
<1>10. \A i \in 1 .. n : Xor(m[i], K(i)) = data[i]
  BY <1>3, <1>5, <1>6, XorFacts
<1>11. mask_data(key, m) = [i \in 1 .. n |-> data[i]]
  BY <1>9, <1>10
<1>12. data = [i \in 1 .. n |-> data[i]]
  BY <1>2
<1> QED
  BY <1>2, <1>4, <1>8, <1>11, <1>12

-----------------------------------------------------------------------------
(* Sequences *)

(* A part of a sequence. *)
LEMMA SubFacts ==
  ASSUME NEW S, NEW s \in Seq(S), NEW m \in Nat, NEW n \in Nat,
         m >= 1, n >= m - 1, n <= Len(s)
  PROVE  /\ SubSeq(s, m, n) \in Seq(S) /\ Len(SubSeq(s, m, n)) = n - m + 1
         /\ \A i \in 1 .. (n - m + 1) : SubSeq(s, m, n)[i] = s[i + m - 1]
<1>1. \A i \in 1 .. (n - m + 1) : i + m - 1 \in 1 .. Len(s)
  OBVIOUS
<1> QED
  BY <1>1

(* A sequence made of two. *)
LEMMA CatFacts ==
  ASSUME NEW S, NEW s \in Seq(S), NEW t \in Seq(S)
  PROVE  /\ s \o t \in Seq(S) /\ Len(s \o t) = Len(s) + Len(t)
         /\ \A i \in 1 .. Len(s) : (s \o t)[i] = s[i]
         /\ \A i \in 1 .. Len(t) : (s \o t)[Len(s) + i] = t[i]
  OBVIOUS

(* Concatenation is associative. *)
LEMMA CatAssociative ==
  \A r, s, t \in Seq(Nat) : (r \o s) \o t = r \o (s \o t)
  BY ConcatAssociative, SMTT(30)

(* A sequence of one element. *)
LEMMA OneFacts ==
  ASSUME NEW S, NEW x \in S
  PROVE  <<x>> \in Seq(S) /\ Len(<<x>>) = 1 /\ <<x>>[1] = x
  OBVIOUS

(* What is left of a sequence after its first n elements. *)
Drop(s, n) == SubSeq(s, n + 1, Len(s))

(* What Drop returns. *)
LEMMA DropFacts ==
  ASSUME NEW S, NEW s \in Seq(S), NEW n \in 0 .. Len(s)
  PROVE  /\ Drop(s, n) \in Seq(S) /\ Len(Drop(s, n)) = Len(s) - n
         /\ \A i \in 1 .. (Len(s) - n) : Drop(s, n)[i] = s[n + i]
<1>1. PICK l \in Nat : l = Len(s)
  OBVIOUS
<1>2. n \in Nat /\ n + 1 >= 1 /\ l >= (n + 1) - 1 /\ l - (n + 1) + 1 = l - n
  BY <1>1
<1>3. /\ SubSeq(s, n + 1, l) \in Seq(S) /\ Len(SubSeq(s, n + 1, l)) = l - (n + 1) + 1
      /\ \A i \in 1 .. (l - (n + 1) + 1) : SubSeq(s, n + 1, l)[i] = s[i + (n + 1) - 1]
  BY <1>1, <1>2, SubFacts
<1>4. \A i \in 1 .. (l - n) : i + (n + 1) - 1 = n + i
  BY <1>1, <1>2
<1> QED
  BY <1>1, <1>2, <1>3, <1>4 DEF Drop

(* Dropping nothing. *)
LEMMA DropNone ==
  ASSUME NEW S, NEW s \in Seq(S)
  PROVE  Drop(s, 0) = s
<1>1. PICK d : d = Drop(s, 0)
  OBVIOUS
<1>2. 0 \in 0 .. Len(s) /\ Len(s) - 0 = Len(s)
  OBVIOUS
<1>3. d \in Seq(S) /\ Len(d) = Len(s) - 0 /\ \A i \in 1 .. (Len(s) - 0) : d[i] = s[0 + i]
  BY <1>1, <1>2, DropFacts
<1>4. Len(d) = Len(s) /\ \A i \in 1 .. Len(d) : d[i] = s[i]
  BY <1>2, <1>3
<1> QED
  BY <1>1, <1>3, <1>4, SeqEqual

(* Dropping twice is dropping the sum. *)
LEMMA DropDrop ==
  ASSUME NEW S, NEW s \in Seq(S), NEW a \in 0 .. Len(s), NEW b \in 0 .. (Len(s) - a)
  PROVE  Drop(Drop(s, a), b) = Drop(s, a + b)
<1>1. PICK l \in Nat : l = Len(s)
  OBVIOUS
<1>2. PICK t : t = Drop(s, a)
  OBVIOUS
<1>3. t \in Seq(S) /\ Len(t) = l - a /\ \A i \in 1 .. (l - a) : t[i] = s[a + i]
  BY <1>1, <1>2, DropFacts
<1>4. /\ Drop(t, b) \in Seq(S) /\ Len(Drop(t, b)) = (l - a) - b
      /\ \A i \in 1 .. ((l - a) - b) : Drop(t, b)[i] = t[b + i]
  <2>1. b \in 0 .. Len(t)
    BY <1>1, <1>3
  <2>2. /\ Drop(t, b) \in Seq(S) /\ Len(Drop(t, b)) = Len(t) - b
        /\ \A i \in 1 .. (Len(t) - b) : Drop(t, b)[i] = t[b + i]
    <3>1. t \in Seq(S)
      BY <1>3
    <3> QED
      BY <3>1, <2>1, DropFacts
  <2> QED
    BY <1>3, <2>2
<1>5. a + b \in 0 .. l
  BY <1>1
<1>6. /\ Drop(s, a + b) \in Seq(S) /\ Len(Drop(s, a + b)) = l - (a + b)
      /\ \A i \in 1 .. (l - (a + b)) : Drop(s, a + b)[i] = s[(a + b) + i]
  BY <1>1, <1>5, DropFacts
<1>7. \A i \in 1 .. ((l - a) - b) : t[b + i] = s[(a + b) + i]
  <2> TAKE i \in 1 .. ((l - a) - b)
  <2>1. b + i \in 1 .. (l - a) /\ a + (b + i) = (a + b) + i
    BY <1>1
  <2> QED
    BY <1>3, <2>1
<1>8. (l - a) - b = l - (a + b)
  BY <1>1
<1>9. \A i \in 1 .. Len(Drop(t, b)) : Drop(t, b)[i] = Drop(s, a + b)[i]
  BY <1>4, <1>6, <1>7, <1>8
<1>10. Len(Drop(t, b)) = Len(Drop(s, a + b))
  BY <1>4, <1>6, <1>8
<1> QED
  BY <1>2, <1>4, <1>6, <1>9, <1>10, SeqEqual

(* What is dropped in front does not depend on what follows. *)
LEMMA DropCat ==
  ASSUME NEW S, NEW s \in Seq(S), NEW t \in Seq(S), NEW n \in 0 .. Len(s)
  PROVE  Drop(s \o t, n) = Drop(s, n) \o t
<1>1. PICK l \in Nat, m \in Nat : l = Len(s) /\ m = Len(t) /\ n \in 0 .. l
  OBVIOUS
<1>2. PICK st : st = s \o t
  OBVIOUS
<1>3. /\ st \in Seq(S) /\ Len(st) = l + m
      /\ \A i \in 1 .. l : st[i] = s[i]
      /\ \A i \in 1 .. m : st[l + i] = t[i]
  BY <1>1, <1>2, CatFacts
<1>4. PICK d : d = Drop(s, n)
  OBVIOUS
<1>5. d \in Seq(S) /\ Len(d) = l - n /\ \A i \in 1 .. (l - n) : d[i] = s[n + i]
  BY <1>1, <1>4, DropFacts
<1>6. PICK k \in Nat : k = l - n
  <2>1. l - n \in Nat
    BY <1>1
  <2> QED
    BY <2>1
<1>7. /\ d \o t \in Seq(S) /\ Len(d \o t) = k + m
      /\ \A i \in 1 .. k : (d \o t)[i] = d[i]
      /\ \A i \in 1 .. m : (d \o t)[k + i] = t[i]
  <2>1. Len(d) = k
    BY <1>5, <1>6
  <2>2. d \in Seq(S) /\ m = Len(t)
    BY <1>1, <1>5
  <2>3. /\ d \o t \in Seq(S) /\ Len(d \o t) = Len(d) + Len(t)
        /\ \A i \in 1 .. Len(d) : (d \o t)[i] = d[i]
        /\ \A i \in 1 .. Len(t) : (d \o t)[Len(d) + i] = t[i]
    BY <2>2, CatFacts
  <2> QED
    BY <2>1, <2>2, <2>3
<1>8. n \in 0 .. (l + m)
  BY <1>1
<1>9. /\ Drop(st, n) \in Seq(S) /\ Len(Drop(st, n)) = (l + m) - n
      /\ \A i \in 1 .. ((l + m) - n) : Drop(st, n)[i] = st[n + i]
  <2>1. n \in 0 .. Len(st)
    BY <1>3, <1>8
  <2>2. /\ Drop(st, n) \in Seq(S) /\ Len(Drop(st, n)) = Len(st) - n
        /\ \A i \in 1 .. (Len(st) - n) : Drop(st, n)[i] = st[n + i]
    <3>1. st \in Seq(S)
      BY <1>3
    <3> QED
      BY <3>1, <2>1, DropFacts
  <2> QED
    BY <1>3, <2>2
<1>10. (l + m) - n = k + m
  BY <1>1, <1>6
<1>11. ASSUME NEW i \in 1 .. (k + m) PROVE Drop(st, n)[i] = (d \o t)[i]
  <2>1. Drop(st, n)[i] = st[n + i]
    BY <1>9, <1>10
  <2>2. CASE i <= k
    <3>1. n + i \in 1 .. l /\ i \in 1 .. k
      BY <1>1, <1>6, <2>2
    <3> QED
      BY <1>3, <1>5, <1>6, <1>7, <2>1, <3>1
  <2>3. CASE i > k
    <3>1. PICK j \in 1 .. m : i = k + j /\ n + i = l + j
      <4>1. i - k \in 1 .. m /\ i = k + (i - k) /\ n + i = l + (i - k)
        BY <1>1, <1>6, <2>3
      <4> QED
        BY <4>1
    <3> QED
      BY <1>3, <1>7, <2>1, <3>1
  <2>4. i <= k \/ i > k
    OBVIOUS
  <2> QED
    BY <2>2, <2>3, <2>4
<1>12. Len(Drop(st, n)) = Len(d \o t) /\ Len(d \o t) = k + m
  BY <1>7, <1>9, <1>10
<1>13. \A i \in 1 .. Len(Drop(st, n)) : Drop(st, n)[i] = (d \o t)[i]
  BY <1>11, <1>12
<1> QED
  BY <1>2, <1>4, <1>7, <1>9, <1>12, <1>13, SeqEqual

-----------------------------------------------------------------------------
(* Headers of frames *)

KeySize(key) == IF key = 0 THEN 0 ELSE 4
SizeSize(size) == IF size < 126 THEN 0 ELSE IF size < 65535 THEN 2 ELSE 8
SizeField(size) == IF size < 126 THEN size ELSE IF size < 65535 THEN 126 ELSE 127
MaskBit(key) == IF key = 0 THEN 0 ELSE 128

(* A field of size zero has no bytes. *)
LEMMA NoBytes ==
  ASSUME NEW x \in 0 .. INT32_MAX
  PROVE  to_network_order(x, 0) = <<>>
<1>1. to_network_order(x, 0) \in Seq(Bytes) /\ Len(to_network_order(x, 0)) = 0
  BY NetworkBytes
<1> QED
  BY <1>1

(* The bytes of a header. *)
IsHeader(h, b, key, size) ==
  /\ h \in Seq(Bytes) /\ Len(h) = 2 + SizeSize(size) + KeySize(key)
  /\ h[1] = b /\ h[2] = MaskBit(key) + SizeField(size)
  /\ SubSeq(h, 3, 2 + SizeSize(size)) = to_network_order(size, SizeSize(size))
  /\ SubSeq(h, 2 + SizeSize(size) + 1, 2 + SizeSize(size) + KeySize(key))
       = to_network_order(key, KeySize(key))

(* Where the fields of a header are. *)
LEMMA Layout ==
  ASSUME NEW b \in Bytes, NEW y \in Bytes, NEW L \in Seq(Bytes), NEW K \in Seq(Bytes),
         NEW h, h = (<<b>> \o (<<y>> \o L)) \o K
  PROVE  /\ h \in Seq(Bytes) /\ Len(h) = 2 + Len(L) + Len(K) /\ h[1] = b /\ h[2] = y
         /\ SubSeq(h, 3, 2 + Len(L)) = L
         /\ SubSeq(h, 2 + Len(L) + 1, 2 + Len(L) + Len(K)) = K
<1>1. PICK n \in Nat, m \in Nat : n = Len(L) /\ m = Len(K)
  OBVIOUS
<1>2. PICK g : g = <<y>> \o L
  OBVIOUS
<1>3. /\ g \in Seq(Bytes) /\ Len(g) = 1 + n /\ g[1] = y
      /\ \A i \in 1 .. n : g[1 + i] = L[i]
  <2>1. <<y>> \in Seq(Bytes) /\ Len(<<y>>) = 1 /\ <<y>>[1] = y
    OBVIOUS
  <2> QED
    BY <1>1, <1>2, <2>1, CatFacts
<1>4. PICK f : f = <<b>> \o g
  OBVIOUS
<1>5. /\ f \in Seq(Bytes) /\ Len(f) = 2 + n /\ f[1] = b /\ f[2] = y
      /\ \A i \in 1 .. n : f[2 + i] = L[i]
  <2>1. <<b>> \in Seq(Bytes) /\ Len(<<b>>) = 1 /\ <<b>>[1] = b
    OBVIOUS
  <2>2. /\ f \in Seq(Bytes) /\ Len(f) = 1 + (1 + n) /\ f[1] = b
        /\ \A i \in 1 .. (1 + n) : f[1 + i] = g[i]
    BY <1>3, <1>4, <2>1, CatFacts
  <2>3. f[1 + 1] = g[1]
    BY <2>2
  <2>4. \A i \in 1 .. n : f[2 + i] = L[i]
    <3> TAKE i \in 1 .. n
    <3>1. 1 + i \in 1 .. (1 + n) /\ 1 + (1 + i) = 2 + i
      OBVIOUS
    <3> QED
      BY <1>3, <2>2, <3>1
  <2> QED
    BY <1>3, <2>2, <2>3, <2>4
<1>6. h = f \o K
  BY <1>2, <1>4
<1>7. /\ h \in Seq(Bytes) /\ Len(h) = (2 + n) + m
      /\ \A i \in 1 .. (2 + n) : h[i] = f[i]
      /\ \A i \in 1 .. m : h[(2 + n) + i] = K[i]
  <2>1. /\ f \o K \in Seq(Bytes) /\ Len(f \o K) = Len(f) + Len(K)
        /\ \A i \in 1 .. Len(f) : (f \o K)[i] = f[i]
        /\ \A i \in 1 .. Len(K) : (f \o K)[Len(f) + i] = K[i]
    <3>1. f \in Seq(Bytes)
      BY <1>5
    <3> QED
      BY <3>1, CatFacts
  <2>2. Len(f) = 2 + n /\ Len(K) = m
    BY <1>1, <1>5
  <2> QED
    BY <1>6, <2>1, <2>2
<1>8. h[1] = b /\ h[2] = y
  <2>1. 1 \in 1 .. (2 + n) /\ 2 \in 1 .. (2 + n)
    OBVIOUS
  <2> QED
    BY <1>5, <1>7, <2>1
<1>9. SubSeq(h, 3, 2 + n) = L
  <2>1. 3 \in Nat /\ 2 + n \in Nat /\ 2 + n >= 3 - 1 /\ 2 + n <= (2 + n) + m /\ (2 + n) - 3 + 1 = n
    OBVIOUS
  <2>2. /\ SubSeq(h, 3, 2 + n) \in Seq(Bytes) /\ Len(SubSeq(h, 3, 2 + n)) = n
        /\ \A i \in 1 .. n : SubSeq(h, 3, 2 + n)[i] = h[i + 3 - 1]
    BY <1>7, <2>1, SubFacts
  <2>3. \A i \in 1 .. n : h[i + 3 - 1] = L[i]
    <3> TAKE i \in 1 .. n
    <3>1. i + 3 - 1 = 2 + i /\ 2 + i \in 1 .. (2 + n)
      OBVIOUS
    <3> QED
      BY <1>5, <1>7, <3>1
  <2> QED
    BY <1>1, <2>2, <2>3, SeqEqual
<1>10. SubSeq(h, 2 + n + 1, 2 + n + m) = K
  <2>1. /\ 2 + n + 1 \in Nat /\ 2 + n + m \in Nat /\ 2 + n + 1 >= 1
        /\ 2 + n + m >= (2 + n + 1) - 1
        /\ 2 + n + m <= (2 + n) + m /\ (2 + n + m) - (2 + n + 1) + 1 = m
    OBVIOUS
  <2>2. PICK k : k = SubSeq(h, 2 + n + 1, 2 + n + m)
    OBVIOUS
  <2>3. k \in Seq(Bytes) /\ Len(k) = m /\ \A i \in 1 .. m : k[i] = h[i + (2 + n + 1) - 1]
    BY <1>7, <2>1, <2>2, SubFacts
  <2>4. \A i \in 1 .. m : h[i + (2 + n + 1) - 1] = K[i]
    <3> TAKE i \in 1 .. m
    <3>1. i + (2 + n + 1) - 1 = (2 + n) + i
      OBVIOUS
    <3> QED
      BY <1>7, <3>1
  <2> QED
    BY <1>1, <2>2, <2>3, <2>4, SeqEqual
<1> QED
  BY <1>1, <1>7, <1>8, <1>9, <1>10

(* What rfc6455::assemble_header writes. *)
LEMMA HeaderIs ==
  ASSUME NEW key \in 0 .. INT32_MAX, NEW size \in 0 .. INT32_MAX,
         NEW opcode, NEW flags, flags + opcode \in Bytes
  PROVE  IsHeader(assemble_header(opcode, key, size, flags), flags + opcode, key, size)
<1>y. PICK y : y = MaskBit(key) + SizeField(size)
  OBVIOUS
<1>1. PICK b \in Bytes : b = flags + opcode /\ y = MaskBit(key) + SizeField(size)
  BY <1>y
<1>2. size \in Nat /\ key \in Nat
  BY MaxIs
<1>3. y \in Bytes
  <2>1. SizeField(size) \in Nat /\ SizeField(size) <= 127
    BY <1>2 DEF SizeField
  <2> QED
    BY <1>1, <2>1, BytesAre DEF MaskBit
<1>4. PICK L, K : L = to_network_order(size, SizeSize(size)) /\ K = to_network_order(key, KeySize(key))
  OBVIOUS
<1>5. /\ L \in Seq(Bytes) /\ Len(L) = SizeSize(size)
      /\ K \in Seq(Bytes) /\ Len(K) = KeySize(key)
  <2>1. SizeSize(size) \in Nat /\ KeySize(key) \in Nat
    BY DEF SizeSize, KeySize
  <2> QED
    BY <1>4, <2>1, NetworkBytes
<1>6. LengthBytes(MaskBit(key), size) = <<y>> \o L
  <2>1. CASE size < 126
    <3>1. L = <<>>
      BY <1>4, <2>1, NoBytes DEF SizeSize
    <3>2. LengthBytes(MaskBit(key), size) = <<y>>
      BY <1>1, <2>1 DEF LengthBytes, SizeField
    <3> QED
      BY <3>1, <3>2
  <2>2. CASE ~(size < 126) /\ size < 65535
    BY <1>1, <1>4, <2>2 DEF LengthBytes, SizeField, SizeSize
  <2>3. CASE ~(size < 126) /\ ~(size < 65535)
    BY <1>1, <1>4, <2>3 DEF LengthBytes, SizeField, SizeSize
  <2> QED
    BY <2>1, <2>2, <2>3
<1>7. (IF key = 0 THEN <<>> ELSE to_network_order(key, 4)) = K
  BY <1>4, NoBytes DEF KeySize
<1>8. assemble_header(opcode, key, size, flags) = (<<b>> \o (<<y>> \o L)) \o K
  BY <1>1, <1>6, <1>7 DEF assemble_header, MaskBit
<1>9. PICK h : h = assemble_header(opcode, key, size, flags)
  OBVIOUS
<1>10. /\ h \in Seq(Bytes) /\ Len(h) = 2 + Len(L) + Len(K) /\ h[1] = b /\ h[2] = y
       /\ SubSeq(h, 3, 2 + Len(L)) = L
       /\ SubSeq(h, 2 + Len(L) + 1, 2 + Len(L) + Len(K)) = K
  <2>1. h = (<<b>> \o (<<y>> \o L)) \o K
    BY <1>8, <1>9
  <2>2. L \in Seq(Bytes) /\ K \in Seq(Bytes)
    BY <1>5
  <2> QED
    BY <1>3, <2>1, <2>2, Layout
<1> QED
  <2>1. Len(L) = SizeSize(size) /\ Len(K) = KeySize(key)
    BY <1>5
  <2>2. IsHeader(h, b, key, size)
    BY <1>1, <1>4, <1>10, <2>1 DEF IsHeader
  <2> QED
    BY <1>1, <1>9, <2>2

-----------------------------------------------------------------------------
(* Decoding *)

(* The second byte of a header determines the sizes of the other fields. *)
LEMMA FieldFacts ==
  ASSUME NEW key \in 0 .. INT32_MAX, NEW size \in 0 .. INT32_MAX, NEW y,
         y = MaskBit(key) + SizeField(size)
  PROVE  /\ y >= 128 <=> key # 0
         /\ y % 128 = SizeField(size)
         /\ LengthSize(SizeField(size)) = SizeSize(size)
         /\ SizeSize(size) \in {0, 2, 8} /\ KeySize(key) \in {0, 4}
         /\ SizeField(size) < 126 <=> size < 126
         /\ size < 126 => SizeField(size) = size
<1>1. size \in Nat /\ key \in Nat
  BY MaxIs
<1>2. SizeField(size) \in Nat /\ SizeField(size) <= 127
  BY <1>1 DEF SizeField
<1>3. MaskBit(key) = 0 \/ MaskBit(key) = 128
  BY DEF MaskBit
<1>4. y % 128 = SizeField(size)
  BY <1>2, <1>3
<1>5. y >= 128 <=> key # 0
  BY <1>2 DEF MaskBit
<1>6. LengthSize(SizeField(size)) = SizeSize(size)
  BY <1>1 DEF LengthSize, SizeField, SizeSize
<1>7. SizeSize(size) \in {0, 2, 8} /\ KeySize(key) \in {0, 4}
  BY DEF SizeSize, KeySize
<1>8. (SizeField(size) < 126 <=> size < 126) /\ (size < 126 => SizeField(size) = size)
  BY <1>1 DEF SizeField
<1> QED
  BY <1>4, <1>5, <1>6, <1>7, <1>8

(* Sequences that agree have the same parts. *)
LEMMA SameSub ==
  ASSUME NEW S, NEW s \in Seq(S), NEW t \in Seq(S), NEW m \in Nat, NEW n \in Nat,
         m >= 1, n >= m - 1, n <= Len(s), n <= Len(t), \A i \in m .. n : s[i] = t[i]
  PROVE  SubSeq(s, m, n) = SubSeq(t, m, n)
<1>1. PICK a, b : a = SubSeq(s, m, n) /\ b = SubSeq(t, m, n)
  OBVIOUS
<1>2. a \in Seq(S) /\ Len(a) = n - m + 1 /\ \A i \in 1 .. (n - m + 1) : a[i] = s[i + m - 1]
  BY <1>1, SubFacts
<1>3. b \in Seq(S) /\ Len(b) = n - m + 1 /\ \A i \in 1 .. (n - m + 1) : b[i] = t[i + m - 1]
  BY <1>1, SubFacts
<1>4. \A i \in 1 .. (n - m + 1) : a[i] = b[i]
  <2> TAKE i \in 1 .. (n - m + 1)
  <2>1. i + m - 1 \in m .. n
    OBVIOUS
  <2> QED
    BY <1>2, <1>3, <2>1
<1> QED
  BY <1>1, <1>2, <1>3, <1>4, SeqEqual

(* rfc6455::decode_header asks for more only if it sees fewer than 14 bytes. *)
LEMMA DecodeShort ==
  ASSUME NEW data, Len(data) \in Nat, decode_header(data).bytes = 0
  PROVE  Len(data) < 14
<1>1. PICK l \in Nat : l = Len(data)
  OBVIOUS
<1>2. SUFFICES ASSUME l >= 14 PROVE FALSE
  BY <1>1
<1> DEFINE len_end == 2 + LengthSize(data[2] % 128)
           header_length == len_end + (IF data[2] >= 128 THEN 4 ELSE 0)
<1>3. header_length \in Nat /\ header_length >= 2 /\ header_length <= 14
  BY DEF LengthSize
<1> HIDE DEF header_length
<1>4. ~(l < 2 \/ l < header_length)
  BY <1>2, <1>3
<1>5. decode_header(data).bytes \in {-1, header_length}
  BY <1>1, <1>4 DEF decode_header, NoHeader, header_length
<1> QED
  BY <1>3, <1>5

(* The data agree with the header h as far as they go. *)
Begins(data, h) ==
  /\ data \in Seq(Bytes) /\ h \in Seq(Bytes)
  /\ \A i \in 1 .. Len(h) : i <= Len(data) => data[i] = h[i]

(* The masking key that decode_header finds is the one written. *)
LEMMA KeyIs ==
  ASSUME NEW h, NEW b, NEW key \in 0 .. INT32_MAX, NEW size \in 0 .. INT32_MAX, NEW data,
         IsHeader(h, b, key, size), Begins(data, h), Len(data) >= Len(h), key # 0
  PROVE  from_network_order(SubSeq(data, 2 + SizeSize(size) + 1, 2 + SizeSize(size) + 4)) = key
<1>1. SizeSize(size) \in Nat /\ KeySize(key) = 4
  BY DEF SizeSize, KeySize
<1>2. PICK n \in Nat : n = 2 + SizeSize(size)
  BY <1>1
<1>3. h \in Seq(Bytes) /\ data \in Seq(Bytes) /\ Len(h) = n + 4 /\ Len(data) \in Nat
  BY <1>1, <1>2 DEF IsHeader, Begins
<1>4. SubSeq(h, n + 1, n + 4) = to_network_order(key, 4)
  BY <1>1, <1>2 DEF IsHeader
<1>5. \A i \in (n + 1) .. (n + 4) : data[i] = h[i]
  <2>1. \A i \in (n + 1) .. (n + 4) : i \in 1 .. Len(h) /\ i <= Len(data)
    BY <1>3
  <2> QED
    BY <2>1 DEF Begins
<1>6. n + 1 >= 1 /\ n + 4 >= (n + 1) - 1 /\ n + 4 <= Len(data) /\ n + 4 <= Len(h)
  BY <1>3
<1>7. n + 1 \in Nat /\ n + 4 \in Nat
  OBVIOUS
<1>8. SubSeq(data, n + 1, n + 4) = SubSeq(h, n + 1, n + 4)
  <2>1. h \in Seq(Bytes) /\ data \in Seq(Bytes)
    BY <1>3
  <2> QED
    BY <1>5, <1>6, <1>7, <2>1, SameSub
<1>9. from_network_order(to_network_order(key, 4)) = key
  BY NetworkInverse
<1> QED
  BY <1>2, <1>4, <1>8, <1>9

(* The extended payload length that decode_header finds is the one written. *)
LEMMA SizeIs ==
  ASSUME NEW h, NEW b, NEW key \in 0 .. INT32_MAX, NEW size \in 0 .. INT32_MAX, NEW data,
         IsHeader(h, b, key, size), Begins(data, h), Len(data) >= Len(h), ~(size < 126)
  PROVE  from_network_order(SubSeq(data, 3, 2 + SizeSize(size))) = size
<1>1. SizeSize(size) \in {2, 8} /\ KeySize(key) \in {0, 4}
  BY DEF SizeSize, KeySize
<1>2. PICK n \in {2, 8}, m \in Nat : n = SizeSize(size) /\ m = KeySize(key)
  BY <1>1
<1>3. h \in Seq(Bytes) /\ data \in Seq(Bytes) /\ Len(h) = 2 + n + m /\ Len(data) \in Nat
  BY <1>2 DEF IsHeader, Begins
<1>4. SubSeq(h, 3, 2 + n) = to_network_order(size, n)
  BY <1>2 DEF IsHeader
<1>5. \A i \in 3 .. (2 + n) : data[i] = h[i]
  <2>1. \A i \in 3 .. (2 + n) : i \in 1 .. Len(h) /\ i <= Len(data)
    BY <1>3
  <2> QED
    BY <2>1 DEF Begins
<1>6. 3 \in Nat /\ 2 + n \in Nat /\ 3 >= 1 /\ 2 + n >= 3 - 1 /\ 2 + n <= Len(data) /\ 2 + n <= Len(h)
  BY <1>3
<1>7. SubSeq(data, 3, 2 + n) = SubSeq(h, 3, 2 + n)
  <2>1. h \in Seq(Bytes) /\ data \in Seq(Bytes)
    BY <1>3
  <2> QED
    BY <1>5, <1>6, <2>1, SameSub
<1>8. from_network_order(to_network_order(size, n)) = size
  <2>1. size \in Nat
    BY MaxIs
  <2>2. n = 2 => size < 65536
    BY <1>2, <2>1 DEF SizeSize
  <2>3. n \in {2, 4, 8}
    OBVIOUS
  <2> QED
    BY <2>2, <2>3, NetworkInverse
<1> QED
  BY <1>2, <1>4, <1>7, <1>8

(* decode_header undoes assemble_header, however much of the frame has come. *)
LEMMA Decode ==
  ASSUME NEW h, NEW b, NEW key \in 0 .. INT32_MAX, NEW size \in 0 .. INT32_MAX, NEW data,
         IsHeader(h, b, key, size), Begins(data, h)
  PROVE  decode_header(data) =
           IF Len(data) < Len(h) THEN NoHeader(0)
           ELSE IF (b \div 16) % 8 # 0 \/ b % 16 \notin opcodes THEN NoHeader(-1)
           ELSE [bytes |-> Len(h), fin |-> b >= 128, opcode |-> b % 16,
                 mask_key |-> key, payload_len |-> size]
<1>y. PICK y : y = MaskBit(key) + SizeField(size)
  OBVIOUS
<1>1. PICK l \in Nat, n \in Nat, f \in Nat, m \in Nat :
        /\ l = Len(data) /\ n = SizeSize(size) /\ f = SizeField(size) /\ m = KeySize(key)
        /\ y = MaskBit(key) + SizeField(size)
  <2>1. size \in Nat
    BY MaxIs
  <2>2. SizeSize(size) \in Nat /\ SizeField(size) \in Nat /\ KeySize(key) \in Nat
    BY <2>1 DEF SizeSize, SizeField, KeySize
  <2>3. Len(data) \in Nat
    BY DEF Begins
  <2> QED
    BY <1>y, <2>2, <2>3
<1>2. PICK k \in Nat : k = Len(h) /\ k = 2 + n + m
  BY <1>1 DEF IsHeader
<1>two. k >= 2
  BY <1>2
<1>len. Len(data) = l /\ Len(h) = k
  BY <1>1, <1>2
<1>3. CASE l < 2
  <2>1. Len(data) < 2 /\ Len(data) < Len(h)
    BY <1>two, <1>len, <1>3
  <2> QED
    BY <2>1 DEF decode_header
<1>4. CASE l >= 2
  <2>1. data[1] = b /\ data[2] = y
    <3>1. 1 \in 1 .. Len(h) /\ 2 \in 1 .. Len(h) /\ 1 <= Len(data) /\ 2 <= Len(data)
      BY <1>two, <1>len, <1>4
    <3> QED
      BY <1>1, <3>1 DEF IsHeader, Begins
  <2>2. /\ y >= 128 <=> key # 0
        /\ y % 128 = f /\ LengthSize(f) = n
        /\ f < 126 <=> size < 126
        /\ size < 126 => f = size
    BY <1>1, FieldFacts
  <2>3. (2 + n) + (IF y >= 128 THEN 4 ELSE 0) = Len(h)
    BY <1>1, <1>2, <2>2 DEF KeySize
  <2>4. CASE l < Len(h)
    BY <1>1, <1>4, <2>1, <2>2, <2>3, <2>4 DEF decode_header
  <2>5. CASE l >= Len(h)
    <3>1. key # 0 => from_network_order(SubSeq(data, (2 + n) + 1, (2 + n) + 4)) = key
      BY <1>1, <2>5, KeyIs
    <3>2. ~(size < 126) => from_network_order(SubSeq(data, 3, 2 + n)) = size
      BY <1>1, <2>5, SizeIs
    <3>3. ~(l < 2 \/ l < Len(h))
      BY <1>2, <1>4, <2>5
    <3>4. PICK mk, pl : /\ mk = IF y >= 128 THEN from_network_order(SubSeq(data, (2 + n) + 1, (2 + n) + 4)) ELSE 0
                        /\ pl = IF f < 126 THEN f ELSE from_network_order(SubSeq(data, 3, 2 + n))
      OBVIOUS
    <3>5. decode_header(data) =
            IF (b \div 16) % 8 # 0 \/ b % 16 \notin opcodes THEN NoHeader(-1)
            ELSE [bytes |-> Len(h), fin |-> b >= 128, opcode |-> b % 16,
                  mask_key |-> mk, payload_len |-> pl]
      <4>1. 2 + LengthSize(data[2] % 128) = 2 + n
        BY <2>1, <2>2
      <4>2. (2 + n) + (IF data[2] >= 128 THEN 4 ELSE 0) = Len(h)
        BY <2>1, <2>3
      <4>3. ~(Len(data) < 2 \/ Len(data) < Len(h))
        BY <1>len, <3>3
      <4>4. PICK z : z = data[2] % 128
        OBVIOUS
      <4>5. z = f /\ LengthSize(z) = n
        BY <2>1, <2>2, <4>4
      <4>6. decode_header(data) =
              IF Len(data) < 2 \/ Len(data) < 2 + LengthSize(z) + (IF data[2] >= 128 THEN 4 ELSE 0)
              THEN NoHeader(0)
              ELSE IF (data[1] \div 16) % 8 # 0 \/ data[1] % 16 \notin opcodes THEN NoHeader(-1)
              ELSE [bytes |-> 2 + LengthSize(z) + (IF data[2] >= 128 THEN 4 ELSE 0),
                    fin |-> data[1] >= 128, opcode |-> data[1] % 16,
                    mask_key |-> IF data[2] >= 128
                                 THEN from_network_order(SubSeq(data, 2 + LengthSize(z) + 1, 2 + LengthSize(z) + 4))
                                 ELSE 0,
                    payload_len |-> IF z < 126 THEN z
                                    ELSE from_network_order(SubSeq(data, 3, 2 + LengthSize(z)))]
        BY <4>4, Zenon DEF decode_header
      <4>7. /\ 2 + LengthSize(z) + (IF data[2] >= 128 THEN 4 ELSE 0) = Len(h)
            /\ (IF data[2] >= 128 THEN from_network_order(SubSeq(data, 2 + LengthSize(z) + 1, 2 + LengthSize(z) + 4))
                ELSE 0) = mk
            /\ (IF z < 126 THEN z ELSE from_network_order(SubSeq(data, 3, 2 + LengthSize(z)))) = pl
        BY <2>1, <3>4, <4>2, <4>5
      <4>8. decode_header(data) =
              IF (data[1] \div 16) % 8 # 0 \/ data[1] % 16 \notin opcodes THEN NoHeader(-1)
              ELSE [bytes |-> Len(h),
                    fin |-> data[1] >= 128, opcode |-> data[1] % 16,
                    mask_key |-> mk, payload_len |-> pl]
        BY <4>3, <4>6, <4>7, ZenonT(60)
      <4> QED
        BY <2>1, <4>8, Zenon
    <3>6. mk = key /\ pl = size
      BY <2>2, <3>1, <3>2, <3>4
    <3> QED
      BY <1>1, <3>3, <3>5, <3>6
  <2>6. l < Len(h) \/ l >= Len(h)
    BY <1>len
  <2> QED
    BY <2>4, <2>5, <2>6
<1> QED
  BY <1>1, <1>3, <1>4

-----------------------------------------------------------------------------
(* Frames *)

HeadOf(key, k) == assemble_header(k.opcode, key, k.len, k.flags)

(* The first byte of a frame of the peer holds its flags and its opcode. *)
LEMMA KindFacts ==
  ASSUME NEW k \in FrameKinds
  PROVE  /\ k.len \in 0 .. INT32_MAX /\ k.len \in Nat /\ k.opcode \in Nat /\ k.opcode <= 15 /\ k.flags \in Nat
         /\ k.flags + k.opcode \in Bytes
         /\ (k.flags + k.opcode) % 16 = k.opcode
         /\ ((k.flags + k.opcode) \div 16) % 8 = 0 <=> k.flags \in {0, fin_flag}
         /\ k.flags + k.opcode >= 128 <=> k.flags >= 128
<1>1. k \in [flags : {16 * i : i \in 0 .. 15}, opcode : 0 .. 15, len : 0 .. INT32_MAX]
  BY WSAssumption
<1>2. PICK i \in 0 .. 15, o \in Nat : k.flags = 16 * i /\ k.opcode = o /\ o <= 15
  BY <1>1
<1>3. PICK b \in Nat : b = 16 * i + o
  OBVIOUS
<1>4. b <= 255 /\ b % 16 = o /\ b \div 16 = i
  BY <1>2, <1>3
<1>5. i % 8 = 0 <=> 16 * i \in {0, 128}
  OBVIOUS
<1>6. b >= 128 <=> 16 * i >= 128
  BY <1>2, <1>3
<1>7. b \in Bytes
  BY <1>4, BytesAre
<1>8. k.flags + k.opcode = b
  BY <1>2, <1>3
<1>9. k.len \in 0 .. INT32_MAX
  BY <1>1
<1>10. k.len \in Nat
  BY <1>9, MaxIs
<1> QED
  BY <1>2, <1>4, <1>5, <1>6, <1>7, <1>8, <1>9, <1>10 DEF fin_flag

(* The header of a frame of the peer has from 2 to 14 bytes. *)
LEMMA HeadFacts ==
  ASSUME NEW k \in FrameKinds, NEW key \in 0 .. INT32_MAX
  PROVE  /\ IsHeader(HeadOf(key, k), k.flags + k.opcode, key, k.len)
         /\ HeadOf(key, k) \in Seq(Bytes)
         /\ Len(HeadOf(key, k)) \in Nat /\ Len(HeadOf(key, k)) >= 2 /\ Len(HeadOf(key, k)) <= 14
<1>1. IsHeader(HeadOf(key, k), k.flags + k.opcode, key, k.len)
  <2>1. k.flags + k.opcode \in Bytes /\ k.len \in 0 .. INT32_MAX
    BY KindFacts
  <2> QED
    BY <2>1, HeaderIs DEF HeadOf
<1>2. SizeSize(k.len) \in {0, 2, 8} /\ KeySize(key) \in {0, 4}
  BY DEF SizeSize, KeySize
<1>3. HeadOf(key, k) \in Seq(Bytes) /\ Len(HeadOf(key, k)) = 2 + SizeSize(k.len) + KeySize(key)
  BY <1>1 DEF IsHeader
<1> QED
  BY <1>1, <1>2, <1>3

(* What decode_header makes of a frame of the peer. *)
LEMMA DecodeKind ==
  ASSUME NEW k \in FrameKinds, NEW key \in 0 .. INT32_MAX, NEW data,
         Begins(data, HeadOf(key, k))
  PROVE  decode_header(data) =
           IF Len(data) < Len(HeadOf(key, k)) THEN NoHeader(0)
           ELSE IF k.flags \notin {0, fin_flag} \/ k.opcode \notin opcodes THEN NoHeader(-1)
           ELSE [bytes |-> Len(HeadOf(key, k)), fin |-> k.flags >= 128, opcode |-> k.opcode,
                 mask_key |-> key, payload_len |-> k.len]
<1>1. PICK b, size : b = k.flags + k.opcode /\ size = k.len
  OBVIOUS
<1>2. /\ size \in 0 .. INT32_MAX
      /\ b % 16 = k.opcode /\ ((b \div 16) % 8 = 0 <=> k.flags \in {0, fin_flag})
      /\ (b >= 128) = (k.flags >= 128)
  <2>1. k.flags \in Nat /\ b \in Nat
    BY <1>1, KindFacts
  <2> QED
    BY <1>1, <2>1, KindFacts
<1>3. PICK h : h = HeadOf(key, k)
  OBVIOUS
<1>4. IsHeader(h, b, key, size) /\ Begins(data, h)
  BY <1>1, <1>3, HeadFacts
<1>5. decode_header(data) =
        IF Len(data) < Len(h) THEN NoHeader(0)
        ELSE IF (b \div 16) % 8 # 0 \/ b % 16 \notin opcodes THEN NoHeader(-1)
        ELSE [bytes |-> Len(h), fin |-> b >= 128, opcode |-> b % 16,
              mask_key |-> key, payload_len |-> size]
  BY <1>2, <1>4, Decode
<1> QED
  BY <1>1, <1>2, <1>3, <1>5, Zenon

(* A pong that ship_pong assembles decodes to the payload of the ping. *)
LEMMA PongIs ==
  ASSUME NEW key \in 0 .. INT32_MAX, NEW payload \in Seq(Bytes), Len(payload) <= INT32_MAX
  PROVE  /\ IsPong(FrameUnit(pong, key, payload), payload)
         /\ FrameUnit(pong, key, payload) \in Unit
         /\ IsFrame(FrameUnit(pong, key, payload))
<1>1. PICK size, h, d : /\ size = Len(payload) /\ h = assemble_header(pong, key, size, fin_flag)
                        /\ d = mask_data(key, payload)
  OBVIOUS
<1>2. size \in 0 .. INT32_MAX
  BY <1>1, MaxIs
<1>3. PICK b : b = fin_flag + pong /\ b = 138 /\ b \in Bytes
  BY BytesAre DEF fin_flag, pong
<1>4. IsHeader(h, b, key, size)
  BY <1>1, <1>2, <1>3, HeaderIs
<1>5. h \in Seq(Bytes)
  BY <1>4 DEF IsHeader
<1>6. Begins(h, h)
  BY <1>5 DEF Begins
<1>7. (b \div 16) % 8 = 0 /\ b % 16 = pong /\ b % 16 \in opcodes /\ b >= 128
  BY <1>3 DEF opcodes, pong
<1>8. decode_header(h) = [bytes |-> Len(h), fin |-> b >= 128, opcode |-> b % 16,
                          mask_key |-> key, payload_len |-> size]
  <2>1. ~(Len(h) < Len(h))
    BY <1>5
  <2>2. decode_header(h) =
          IF Len(h) < Len(h) THEN NoHeader(0)
          ELSE IF (b \div 16) % 8 # 0 \/ b % 16 \notin opcodes THEN NoHeader(-1)
          ELSE [bytes |-> Len(h), fin |-> b >= 128, opcode |-> b % 16,
                mask_key |-> key, payload_len |-> size]
    BY <1>2, <1>4, <1>6, Decode
  <2> QED
    BY <1>7, <2>1, <2>2, Zenon
<1>9. d \in Seq(Bytes) /\ Len(d) = size /\ mask_data(key, d) = payload
  BY <1>1, MaskFacts
<1>10. FrameUnit(pong, key, payload) = [hdr |-> h, data |-> d]
  BY <1>1 DEF FrameUnit
<1>11. PICK u : u = [hdr |-> h, data |-> d]
  OBVIOUS
<1>12. u.hdr = h /\ u.data = d /\ u \in [hdr : Seq(Bytes), data : Seq(Bytes)] /\ "hdr" \in DOMAIN u
  BY <1>5, <1>9, <1>11
<1>13. PICK hdr : hdr = decode_header(h)
  OBVIOUS
<1>14. /\ hdr.bytes = Len(h) /\ hdr.fin /\ hdr.opcode = pong /\ hdr.payload_len = size
       /\ hdr.mask_key = key
  <2>1. /\ hdr.bytes = Len(h) /\ hdr.fin = (b >= 128) /\ hdr.opcode = b % 16
        /\ hdr.payload_len = size /\ hdr.mask_key = key
    BY <1>8, <1>13
  <2> QED
    BY <1>7, <2>1, Zenon
<1>15. IsPong(u, payload)
  BY <1>9, <1>12, <1>13, <1>14, Zenon DEF IsPong
<1> QED
  BY <1>10, <1>11, <1>12, <1>15 DEF Unit, IsFrame

-----------------------------------------------------------------------------
(* The past of a connection: all that the peer sent, frame by frame, and   *)
(* the state of the peer before and after each frame.                      *)

(* A frame of the peer and the data that it sends with it. *)
FrameRec ==
  {f \in [kind : FrameKinds, data : Seq(Bytes)] :
     f.kind.len <= MaxPayload => Len(f.data) = f.kind.len}

(* An unfinished message, or none. *)
Opens ==
  {o \in [opcode : {nil_code, text_frame, binary_frame}, payload : Seq(Bytes)] :
     o.opcode = nil_code => o.payload = <<>>}

(* A state of the peer and its position in what it has sent. *)
Mark == [at : Nat, open : Opens, sent : Seq(Message), pings : Seq(Seq(Bytes))]

(* A frame on the wire. *)
FrameBytes(key, f) == HeadOf(key, f.kind) \o mask_data(key, f.data)

(* Judge for a peer with the unfinished message o. *)
Proper(key, o, k) ==
  /\ k.flags \in {0, fin_flag} /\ k.opcode \in opcodes \ {connection_close}
  /\ k.len < max_frame_size - Len(HeadOf(key, k))
  /\ IF k.opcode \in {ping, pong} THEN k.flags = fin_flag /\ o.opcode = nil_code
     ELSE /\ o.opcode # nil_code <=> k.opcode = continuation_frame
          /\ Len(o.payload) + k.len <= max_frame_size

(* The unfinished message with one more frame. *)
Joined(o, f) ==
  [opcode |-> IF o.opcode # nil_code THEN o.opcode ELSE f.kind.opcode,
   payload |-> o.payload \o f.data]

(* A peer in state m sends the proper frame f and is in state n. *)
Follows(m, f, n) ==
  /\ n.pings = IF f.kind.opcode = ping THEN Append(m.pings, f.data) ELSE m.pings
  /\ n.open = IF f.kind.opcode \in {ping, pong} THEN m.open
              ELSE IF f.kind.flags = fin_flag THEN NoMessage ELSE Joined(m.open, f)
  /\ n.sent = IF f.kind.opcode \notin {ping, pong} /\ f.kind.flags = fin_flag
              THEN Append(m.sent, Joined(m.open, f)) ELSE m.sent

(* s stands in S behind the first a elements. *)
Stands(S, a, s) == a + Len(s) <= Len(S) /\ \A j \in 1 .. Len(s) : S[a + j] = s[j]

(* s is a prefix of t. *)
IsPre(s, t) == Len(s) <= Len(t) /\ s = SubSeq(t, 1, Len(s))

(* The frame f of the past; only the last one may be improper. *)
Link(key, p, S, m, f, n, last) ==
  /\ n.at = m.at + Len(FrameBytes(key, f)) /\ Stands(S, m.at, FrameBytes(key, f))
  /\ \/ Proper(key, m.open, f.kind) /\ Follows(m, f, n)
     \/ ~Proper(key, m.open, f.kind) /\ p.conduct # "proper" /\ last

(* The peer before the first and after the last frame. *)
StartMark == [at |-> 0, open |-> NoMessage, sent |-> <<>>, pings |-> <<>>]
EndMark(p, S) == [at |-> Len(S), open |-> p.open, sent |-> p.sent, pings |-> p.pings]

(* The peer p sent the bytes S: the frames fs, with the marks ms around them. *)
Past(key, p, S, fs, ms) ==
  /\ S \in Seq(Bytes) /\ fs \in Seq(FrameRec) /\ ms \in Seq(Mark)
  /\ Len(ms) = Len(fs) + 1 /\ ms[1] = StartMark /\ ms[Len(fs) + 1] = EndMark(p, S)
  /\ \A i \in 1 .. Len(fs) : Link(key, p, S, ms[i], fs[i], ms[i + 1], i = Len(fs))
  /\ \A i \in 1 .. (Len(fs) + 1) : IsPre(ms[i].sent, p.sent) /\ IsPre(ms[i].pings, p.pings)
  /\ p.http = NoHttp => S = <<>>

(* The layers have handled what the peer sent up to the mark m. *)
Synced(l, m) ==
  /\ l.opcode = m.open.opcode /\ l.payload_buf = m.open.payload
  /\ l.delivered = m.sent /\ l.units = 1 + Len(m.pings)

(* An HTTP header on the wire. *)
HttpBytes(h) == [i \in 1 .. h.size |-> IF i = h.size THEN EndOfHeader ELSE HttpByte]

(* The input still to be consumed begins at mark c. *)
Present(p, l, in, S, fs, ms, c) ==
  /\ c \in 1 .. (Len(fs) + 1)
  /\ \/ /\ l.hc /\ p.http # NoHttp /\ in = Drop(S, ms[c].at)
        /\ Synced(l, ms[c]) \/ (c = Len(fs) + 1 /\ p.conduct # "proper")
     \/ ~l.hc /\ c = 1 /\ in = HttpBytes(p.http) \o S

(* There is a past with the layers at one of its marks and the rest as input. *)
Tracks(key, p, l, in) ==
  \E S, fs, ms, c : Past(key, p, S, fs, ms) /\ Present(p, l, in, S, fs, ms, c)

(* The bytes of a frame: first the header, then the masked data. *)
LEMMA FrameFacts ==
  ASSUME NEW key \in 0 .. INT32_MAX, NEW f \in FrameRec
  PROVE  /\ FrameBytes(key, f) \in Seq(Bytes)
         /\ Len(FrameBytes(key, f)) = Len(HeadOf(key, f.kind)) + Len(f.data)
         /\ Len(FrameBytes(key, f)) \in Nat
         /\ \A i \in 1 .. Len(HeadOf(key, f.kind)) : FrameBytes(key, f)[i] = HeadOf(key, f.kind)[i]
         /\ \A i \in 1 .. Len(f.data) :
              FrameBytes(key, f)[Len(HeadOf(key, f.kind)) + i] = mask_data(key, f.data)[i]
<1>1. PICK h, d : h = HeadOf(key, f.kind) /\ d = mask_data(key, f.data)
  OBVIOUS
<1>2. f.kind \in FrameKinds /\ f.data \in Seq(Bytes)
  BY DEF FrameRec
<1>3. h \in Seq(Bytes) /\ Len(h) \in Nat /\ d \in Seq(Bytes) /\ Len(d) = Len(f.data)
  BY <1>1, <1>2, HeadFacts, MaskFacts
<1>4. h \in Seq(Bytes) /\ d \in Seq(Bytes)
  BY <1>3
<1>5. /\ h \o d \in Seq(Bytes) /\ Len(h \o d) = Len(h) + Len(d)
      /\ \A i \in 1 .. Len(h) : (h \o d)[i] = h[i]
      /\ \A i \in 1 .. Len(d) : (h \o d)[Len(h) + i] = d[i]
  BY <1>4, CatFacts
<1>6. Len(f.data) \in Nat
  BY <1>2
<1>7. FrameBytes(key, f) = h \o d
  BY <1>1 DEF FrameBytes
<1>8. Len(h) + Len(d) \in Nat
  BY <1>3, <1>6
<1> QED
  BY <1>1, <1>3, <1>5, <1>7, <1>8

(* What stands in a sequence still does when the sequence grows. *)
LEMMA StandsCat ==
  ASSUME NEW S, NEW s \in Seq(S), NEW t \in Seq(S), NEW a \in Nat, NEW u, Len(u) \in Nat,
         Stands(s, a, u)
  PROVE  Stands(s \o t, a, u)
<1>1. /\ Len(s \o t) = Len(s) + Len(t) /\ Len(t) \in Nat /\ Len(s) \in Nat
      /\ \A i \in 1 .. Len(s) : (s \o t)[i] = s[i]
  BY CatFacts
<1>2. \A j \in 1 .. Len(u) : a + j \in 1 .. Len(s)
  BY <1>1 DEF Stands
<1> QED
  BY <1>1, <1>2 DEF Stands

(* What is appended stands at the end. *)
LEMMA StandsEnd ==
  ASSUME NEW S, NEW s \in Seq(S), NEW t \in Seq(S)
  PROVE  Stands(s \o t, Len(s), t)
<1>1. /\ Len(s \o t) = Len(s) + Len(t) /\ Len(t) \in Nat /\ Len(s) \in Nat
      /\ \A i \in 1 .. Len(t) : (s \o t)[Len(s) + i] = t[i]
  BY CatFacts
<1> QED
  BY <1>1 DEF Stands

(* A sequence is a prefix of itself. *)
LEMMA PreSelf ==
  ASSUME NEW S, NEW s \in Seq(S)
  PROVE  IsPre(s, s)
<1>1. PICK n \in Nat : n = Len(s)
  OBVIOUS
<1>2. /\ SubSeq(s, 1, n) \in Seq(S) /\ Len(SubSeq(s, 1, n)) = n
      /\ \A i \in 1 .. n : SubSeq(s, 1, n)[i] = s[i]
  <2>1. 1 \in Nat /\ 1 >= 1 /\ n >= 1 - 1 /\ n - 1 + 1 = n /\ n <= Len(s)
    BY <1>1
  <2>2. /\ SubSeq(s, 1, n) \in Seq(S) /\ Len(SubSeq(s, 1, n)) = n - 1 + 1
        /\ \A i \in 1 .. (n - 1 + 1) : SubSeq(s, 1, n)[i] = s[i + 1 - 1]
    BY <2>1, SubFacts
  <2> QED
    BY <2>1, <2>2
<1>3. SubSeq(s, 1, n) = s
  BY <1>1, <1>2, SeqEqual
<1> QED
  BY <1>1, <1>3 DEF IsPre

(* A prefix stays one when the sequence grows. *)
LEMMA PreAppend ==
  ASSUME NEW S, NEW s \in Seq(S), NEW t \in Seq(S), NEW e \in S, IsPre(s, t)
  PROVE  IsPre(s, Append(t, e))
<1>1. PICK m \in Nat, n \in Nat : m = Len(s) /\ n = Len(t)
  OBVIOUS
<1>2. m <= n /\ s = SubSeq(t, 1, m)
  BY <1>1 DEF IsPre
<1>3. PICK u : u = Append(t, e)
  OBVIOUS
<1>4. u \in Seq(S) /\ Len(u) = n + 1 /\ \A i \in 1 .. n : u[i] = t[i]
  BY <1>1, <1>3
<1>5. SubSeq(t, 1, m) = SubSeq(u, 1, m)
  <2>1. /\ 1 \in Nat /\ 1 >= 1 /\ m >= 1 - 1 /\ m <= Len(t) /\ m <= Len(u)
        /\ \A i \in 1 .. m : t[i] = u[i]
    BY <1>1, <1>2, <1>4
  <2>2. u \in Seq(S)
    BY <1>4
  <2> QED
    BY <2>1, <2>2, SameSub
<1> QED
  BY <1>1, <1>2, <1>3, <1>4, <1>5 DEF IsPre

-----------------------------------------------------------------------------
(* What the peer does to the past *)

(* A peer in state p sends the frame f and is in state q. *)
SendsFrame(key, p, f, q) ==
  /\ f \in FrameRec /\ key \in 0 .. INT32_MAX
  /\ p.http # NoHttp /\ p.conduct = "proper" /\ q.http = p.http
  /\ q.open \in Opens
  /\ p.sent \in Seq(Message) /\ \/ q.sent = p.sent
                                \/ \E e \in Message : q.sent = Append(p.sent, e)
  /\ p.pings \in Seq(Seq(Bytes)) /\ \/ q.pings = p.pings
                                    \/ \E e \in Seq(Bytes) : q.pings = Append(p.pings, e)
  /\ \/ Proper(key, p.open, f.kind) /\ Follows(p, f, q)
     \/ ~Proper(key, p.open, f.kind) /\ q.conduct # "proper"

(* The type of a longer sequence. *)
LEMMA AppendIn ==
  ASSUME NEW S, NEW s \in Seq(S), NEW e \in S
  PROVE  Append(s, e) \in Seq(S)
  OBVIOUS

(* Sending a frame adds one link to the past. *)
LEMMA PastSend ==
  ASSUME NEW key, NEW p, NEW f, NEW q, SendsFrame(key, p, f, q),
         NEW S, NEW fs, NEW ms, Past(key, p, S, fs, ms), NEW b, b = FrameBytes(key, f)
  PROVE  /\ b \in Seq(Bytes)
         /\ Past(key, q, S \o b, Append(fs, f), Append(ms, EndMark(q, S \o b)))
<1>T. PICK T, gs, ns : T = S \o b /\ gs = Append(fs, f) /\ ns = Append(ms, EndMark(q, T))
  BY Zenon
<1>1. PICK n \in Nat : /\ n = Len(fs) /\ T = S \o b /\ gs = Append(fs, f)
                       /\ ns = Append(ms, EndMark(q, T))
  <2>1. Len(fs) \in Nat
    BY DEF Past
  <2> QED
    BY <1>T, <2>1, Zenon
<1>2. b \in Seq(Bytes) /\ Len(b) \in Nat
  BY FrameFacts DEF SendsFrame
<1>3. S \in Seq(Bytes) /\ Len(S) \in Nat /\ fs \in Seq(FrameRec) /\ ms \in Seq(Mark) /\ Len(ms) = n + 1
  BY <1>1 DEF Past
<1>4. T \in Seq(Bytes) /\ Len(T) = Len(S) + Len(b) /\ Len(T) \in Nat
  <2>1. S \in Seq(Bytes) /\ b \in Seq(Bytes)
    BY <1>2, <1>3
  <2>2. S \o b \in Seq(Bytes) /\ Len(S \o b) = Len(S) + Len(b)
    BY <2>1, CatFacts
  <2> QED
    BY <1>1, <1>2, <1>3, <2>2
<1>5. /\ gs \in Seq(FrameRec) /\ Len(gs) = n + 1 /\ gs[n + 1] = f
      /\ \A i \in 1 .. n : gs[i] = fs[i]
  <2>1. f \in FrameRec /\ fs \in Seq(FrameRec) /\ Len(fs) = n
    BY <1>1, <1>3 DEF SendsFrame
  <2> QED
    BY <1>1, <2>1
<1>6. q.sent \in Seq(Message) /\ q.pings \in Seq(Seq(Bytes))
  <2>1. \A e \in Message : Append(p.sent, e) \in Seq(Message)
    BY AppendIn DEF SendsFrame
  <2>2. \A e \in Seq(Bytes) : Append(p.pings, e) \in Seq(Seq(Bytes))
    BY AppendIn DEF SendsFrame
  <2> QED
    BY <2>1, <2>2, Zenon DEF SendsFrame
<1>7. EndMark(q, T) \in Mark
  BY <1>4, <1>6 DEF EndMark, Mark, SendsFrame
<1>8. /\ ns \in Seq(Mark) /\ Len(ns) = n + 1 + 1 /\ ns[n + 1 + 1] = EndMark(q, T)
      /\ \A i \in 1 .. (n + 1) : ns[i] = ms[i]
  BY <1>1, <1>3, <1>7
<1>9. /\ \A i \in 1 .. n : Link(key, p, S, ms[i], fs[i], ms[i + 1], i = n)
      /\ ms[n + 1] = EndMark(p, S) /\ ms[1] = StartMark
  BY <1>1 DEF Past
<1>10. ASSUME NEW i \in 1 .. n
       PROVE  Link(key, q, T, ns[i], gs[i], ns[i + 1], i = n + 1)
  <2>1. Link(key, p, S, ms[i], fs[i], ms[i + 1], i = n)
    BY <1>9
  <2>2. ns[i] = ms[i] /\ ns[i + 1] = ms[i + 1] /\ gs[i] = fs[i]
    <3>1. i \in 1 .. (n + 1) /\ i + 1 \in 1 .. (n + 1)
      OBVIOUS
    <3> QED
      BY <1>5, <1>8, <3>1
  <2>3. Proper(key, ms[i].open, fs[i].kind) /\ Follows(ms[i], fs[i], ms[i + 1])
    BY <2>1 DEF Link, SendsFrame
  <2>4. ms[i].at \in Nat /\ fs[i] \in FrameRec /\ key \in 0 .. INT32_MAX
    <3>1. ms[i] \in Mark /\ fs[i] \in FrameRec
      BY <1>1, <1>3
    <3> QED
      BY <3>1 DEF Mark, SendsFrame
  <2>5. Stands(S \o b, ms[i].at, FrameBytes(key, fs[i]))
    <3>1. Stands(S, ms[i].at, FrameBytes(key, fs[i]))
      BY <2>1 DEF Link
    <3>2. Len(FrameBytes(key, fs[i])) \in Nat
      BY <2>4, FrameFacts
    <3>3. S \in Seq(Bytes) /\ b \in Seq(Bytes)
      BY <1>2, <1>3
    <3> QED
      BY <2>4, <3>1, <3>2, <3>3, StandsCat
  <2>6. ms[i + 1].at = ms[i].at + Len(FrameBytes(key, fs[i]))
    BY <2>1 DEF Link
  <2> QED
    BY <1>1, <2>2, <2>3, <2>5, <2>6 DEF Link
<1>11. Link(key, q, T, ns[n + 1], gs[n + 1], ns[n + 1 + 1], n + 1 = n + 1)
  <2>1. PICK m, e : m = EndMark(p, S) /\ e = EndMark(q, T)
    OBVIOUS
  <2>2. n + 1 \in 1 .. (n + 1)
    OBVIOUS
  <2>3. ns[n + 1] = m /\ ns[n + 1 + 1] = e /\ gs[n + 1] = f
    BY <1>5, <1>8, <1>9, <2>1, <2>2
  <2>4. /\ m.at = Len(S) /\ m.open = p.open /\ m.sent = p.sent /\ m.pings = p.pings
        /\ e.at = Len(T) /\ e.open = q.open /\ e.sent = q.sent /\ e.pings = q.pings
    BY <2>1 DEF EndMark
  <2>5. Follows(p, f, q) => Follows(m, f, e)
    BY <2>4 DEF Follows
  <2>6. Stands(T, m.at, b)
    <3>1. S \in Seq(Bytes) /\ b \in Seq(Bytes)
      BY <1>2, <1>3
    <3>2. Stands(S \o b, Len(S), b)
      BY <3>1, StandsEnd
    <3> QED
      BY <1>1, <2>4, <3>2
  <2>7. e.at = m.at + Len(b)
    BY <1>4, <2>4
  <2>8. Link(key, q, T, m, f, e, TRUE)
    BY <2>4, <2>5, <2>6, <2>7 DEF Link, SendsFrame
  <2> QED
    BY <2>3, <2>8
<1>12. \A i \in 1 .. (n + 1) : Link(key, q, T, ns[i], gs[i], ns[i + 1], i = n + 1)
  <2> TAKE i \in 1 .. (n + 1)
  <2>1. i \in 1 .. n \/ i = n + 1
    OBVIOUS
  <2> QED
    BY <1>10, <1>11, <2>1
<1>13. \A i \in 1 .. (n + 1 + 1) : IsPre(ns[i].sent, q.sent) /\ IsPre(ns[i].pings, q.pings)
  <2> TAKE i \in 1 .. (n + 1 + 1)
  <2>1. CASE i \in 1 .. (n + 1)
    <3>1. PICK m \in Mark : m = ms[i] /\ ns[i] = m
      BY <1>3, <1>8, <2>1
    <3>2. IsPre(m.sent, p.sent) /\ IsPre(m.pings, p.pings)
      BY <1>1, <2>1, <3>1 DEF Past
    <3>3. m.sent \in Seq(Message) /\ m.pings \in Seq(Seq(Bytes))
      BY DEF Mark
    <3>4. p.sent \in Seq(Message) /\ p.pings \in Seq(Seq(Bytes))
      BY DEF SendsFrame
    <3>5. IsPre(m.sent, q.sent)
      BY <3>2, <3>3, <3>4, PreAppend DEF SendsFrame
    <3>6. IsPre(m.pings, q.pings)
      BY <3>2, <3>3, <3>4, PreAppend DEF SendsFrame
    <3> QED
      BY <3>1, <3>5, <3>6
  <2>2. CASE i = n + 1 + 1
    <3>1. PICK e : e = EndMark(q, T)
      OBVIOUS
    <3>2. ns[i] = e /\ e.sent = q.sent /\ e.pings = q.pings
      BY <1>8, <2>2, <3>1 DEF EndMark
    <3>3. IsPre(q.sent, q.sent) /\ IsPre(q.pings, q.pings)
      BY <1>6, PreSelf
    <3> QED
      BY <3>2, <3>3
  <2>3. i \in 1 .. (n + 1) \/ i = n + 1 + 1
    OBVIOUS
  <2> QED
    BY <2>1, <2>2, <2>3
<1>14. ns[1] = StartMark
  <2>1. 1 \in 1 .. (n + 1)
    OBVIOUS
  <2> QED
    BY <1>8, <1>9, <2>1
<1>15. q.http # NoHttp
  BY DEF SendsFrame
<1>16. Past(key, q, T, gs, ns)
  BY <1>4, <1>5, <1>8, <1>12, <1>13, <1>14, <1>15 DEF Past
<1> QED
  BY <1>1, <1>2, <1>16

http_ok(p) == p.http.size \in Nat

(* The bytes of an HTTP header: only the last one ends it. *)
LEMMA HttpSeq ==
  ASSUME NEW h, h.size \in Nat
  PROVE  /\ HttpBytes(h) \in Seq(Nat) /\ Len(HttpBytes(h)) = h.size
         /\ \A i \in 1 .. h.size : HttpBytes(h)[i] = IF i = h.size THEN EndOfHeader ELSE HttpByte
<1>1. HttpBytes(h) \in [1 .. h.size -> Nat]
  BY DEF HttpBytes, EndOfHeader, HttpByte
<1> QED
  BY <1>1, FunSeq DEF HttpBytes

(* A sequence over a set is one over each larger set. *)
LEMMA WiderSeq ==
  ASSUME NEW T, NEW s \in Seq(T), NEW U, \A x \in T : x \in U
  PROVE  s \in Seq(U)
<1>1. PICK n \in Nat : s \in [1 .. n -> T]
  OBVIOUS
<1>2. s \in [1 .. n -> U]
  BY <1>1
<1> QED
  BY <1>2, FunSeq

(* Bytes are numbers. *)
LEMMA BytesSeq ==
  ASSUME NEW s \in Seq(Bytes)
  PROVE  s \in Seq(Nat)
<1>1. \A b \in Bytes : b \in Nat
  BY BytesAre
<1>2. PICK n \in Nat : s \in [1 .. n -> Bytes]
  OBVIOUS
<1>3. s \in [1 .. n -> Nat]
  BY <1>1, <1>2
<1> QED
  BY <1>3, FunSeq

(* Marks are positions in what was sent. *)
LEMMA MarkInside ==
  ASSUME NEW key, NEW p, NEW S, NEW fs, NEW ms, Past(key, p, S, fs, ms),
         NEW c \in 1 .. (Len(fs) + 1), key \in 0 .. INT32_MAX
  PROVE  ms[c].at \in 0 .. Len(S) /\ ms[c] \in Mark
<1>1. PICK n \in Nat : n = Len(fs) /\ Len(ms) = n + 1
  BY DEF Past
<1>2. ms[c] \in Mark
  <2>1. ms \in Seq(Mark) /\ c \in 1 .. Len(ms)
    BY <1>1 DEF Past
  <2> QED
    BY <2>1
<1>3. ms[c].at \in Nat /\ Len(S) \in Nat
  BY <1>2 DEF Past, Mark
<1>4. CASE c = n + 1
  <2>1. ms[c] = EndMark(p, S)
    BY <1>1, <1>4 DEF Past
  <2>2. ms[c].at = Len(S)
    BY <2>1 DEF EndMark
  <2> QED
    BY <1>2, <1>3, <2>2
<1>5. CASE c \in 1 .. n
  <2>1. Link(key, p, S, ms[c], fs[c], ms[c + 1], c = n)
    BY <1>1, <1>5 DEF Past
  <2>2. ms[c].at + Len(FrameBytes(key, fs[c])) <= Len(S)
    BY <2>1 DEF Link, Stands
  <2>3. fs[c] \in FrameRec
    <3>1. fs \in Seq(FrameRec) /\ c \in 1 .. Len(fs)
      BY <1>1, <1>5 DEF Past
    <3> QED
      BY <3>1
  <2>4. Len(FrameBytes(key, fs[c])) \in Nat
    BY <2>3, FrameFacts
  <2> QED
    BY <1>2, <1>3, <2>2, <2>4
<1>6. c = n + 1 \/ c \in 1 .. n
  BY <1>1
<1> QED
  BY <1>4, <1>5, <1>6

(* A frame of the peer extends the input and the past alike. *)
LEMMA TracksSend ==
  ASSUME NEW key, NEW p, NEW f, NEW q, SendsFrame(key, p, f, q),
         NEW l, NEW in, Tracks(key, p, l, in), http_ok(p)
  PROVE  Tracks(key, q, l, in \o FrameBytes(key, f))
<1>1. PICK S, fs, ms, c : Past(key, p, S, fs, ms) /\ Present(p, l, in, S, fs, ms, c)
  BY DEF Tracks
<1>2. PICK b, T, gs, ns : /\ b = FrameBytes(key, f) /\ T = S \o b /\ gs = Append(fs, f)
                          /\ ns = Append(ms, EndMark(q, T))
  OBVIOUS
<1>3. b \in Seq(Bytes) /\ Past(key, q, T, gs, ns)
  BY <1>1, <1>2, PastSend
<1>4. PICK n \in Nat : n = Len(fs)
  BY <1>1 DEF Past
<1>5. S \in Seq(Bytes) /\ ms \in Seq(Mark) /\ Len(ms) = n + 1 /\ fs \in Seq(FrameRec)
  BY <1>1, <1>4 DEF Past
<1>6. Len(gs) = n + 1
  BY <1>2, <1>4, <1>5
<1>7. c \in 1 .. (n + 1) /\ c \in 1 .. (n + 1 + 1)
  BY <1>1, <1>4 DEF Present
<1>8. ns[c] = ms[c]
  BY <1>2, <1>5, <1>7
<1>9. CASE l.hc
  <2>1. in = Drop(S, ms[c].at) /\ Synced(l, ms[c]) /\ q.http # NoHttp
    BY <1>1, <1>9 DEF Present, SendsFrame
  <2>2. ms[c].at \in 0 .. Len(S)
    <3>1. c \in 1 .. (Len(fs) + 1) /\ key \in 0 .. INT32_MAX
      BY <1>4, <1>7 DEF SendsFrame
    <3> QED
      BY <1>1, <3>1, MarkInside
  <2>3. Drop(S \o b, ms[c].at) = Drop(S, ms[c].at) \o b
    BY <1>3, <1>5, <2>2, DropCat
  <2>4. in \o b = Drop(T, ns[c].at) /\ Synced(l, ns[c])
    BY <1>2, <1>8, <2>1, <2>3
  <2>5. Present(q, l, in \o b, T, gs, ns, c)
    BY <1>6, <1>7, <1>9, <2>1, <2>4 DEF Present
  <2> QED
    BY <1>2, <1>3, <2>5 DEF Tracks
<1>10. CASE ~l.hc
  <2>1. c = 1 /\ in = HttpBytes(p.http) \o S
    BY <1>1, <1>10 DEF Present
  <2>2. HttpBytes(p.http) \in Seq(Nat) /\ S \in Seq(Nat) /\ b \in Seq(Nat)
    BY <1>3, <1>5, HttpSeq, BytesSeq DEF http_ok
  <2>3. (HttpBytes(p.http) \o S) \o b = HttpBytes(p.http) \o (S \o b)
    BY <2>2, CatAssociative
  <2>4. in \o b = HttpBytes(q.http) \o T
    BY <1>2, <2>1, <2>3 DEF SendsFrame
  <2>5. Present(q, l, in \o b, T, gs, ns, c)
    BY <1>6, <1>7, <1>10, <2>1, <2>4 DEF Present
  <2> QED
    BY <1>2, <1>3, <2>5 DEF Tracks
<1> QED
  BY <1>9, <1>10

(* So does the HTTP header of the peer. *)
LEMMA TracksHttp ==
  ASSUME NEW key, NEW p, NEW q, NEW l, NEW in, Tracks(key, p, l, in),
         p.http = NoHttp, http_ok(q),
         q.conduct = p.conduct /\ q.open = p.open /\ q.sent = p.sent /\ q.pings = p.pings
  PROVE  Tracks(key, q, l, in \o HttpBytes(q.http))
<1>1. PICK S, fs, ms, c : Past(key, p, S, fs, ms) /\ Present(p, l, in, S, fs, ms, c)
  BY DEF Tracks
<1>2. S = <<>> /\ c = 1 /\ in = HttpBytes(p.http) \o S
  BY <1>1 DEF Past, Present
<1>3. PICK h : h = HttpBytes(q.http) /\ h \in Seq(Nat)
  BY HttpSeq DEF http_ok
<1>4. HttpBytes(p.http) = <<>>
  <2>1. HttpBytes(p.http) \in [1 .. 0 -> Nat]
    BY DEF HttpBytes, NoHttp
  <2> QED
    BY <2>1
<1>5. in \o h = h \o S
  <2>1. in = <<>>
    BY <1>2, <1>4
  <2> QED
    BY <1>2, <1>3, <2>1
<1>6. Past(key, q, S, fs, ms)
  <2>1. EndMark(q, S) = EndMark(p, S)
    BY DEF EndMark
  <2>2. \A m, f, n, last : Link(key, p, S, m, f, n, last) => Link(key, q, S, m, f, n, last)
    BY DEF Link
  <2> QED
    BY <1>1, <1>2, <2>1, <2>2, Zenon DEF Past
<1>7. Present(q, l, in \o h, S, fs, ms, c)
  BY <1>1, <1>2, <1>3, <1>5 DEF Present
<1> QED
  BY <1>3, <1>6, <1>7 DEF Tracks

-----------------------------------------------------------------------------
(* What is in front of the layers *)

(* The layers are at mark m and the input begins with the frame f. *)
Front(key, p, l, in, f, m) ==
  /\ f \in FrameRec /\ m \in Mark /\ Synced(l, m) /\ Stands(in, 0, FrameBytes(key, f))
  /\ \/ /\ Proper(key, m.open, f.kind)
        /\ \E n \in Mark :
             /\ Follows(m, f, n) /\ IsPre(n.sent, p.sent) /\ IsPre(n.pings, p.pings)
             /\ \A k : k.hc /\ Synced(k, n) =>
                  Tracks(key, p, k, Drop(in, Len(FrameBytes(key, f))))
     \/ /\ ~Proper(key, m.open, f.kind) /\ p.conduct # "proper"
        /\ \A k : k.hc => Tracks(key, p, k, Drop(in, Len(FrameBytes(key, f))))

(* If there is input after the handshake, a frame of the past is in front. *)
LEMMA TracksFront ==
  ASSUME NEW key \in 0 .. INT32_MAX, NEW p, NEW l, NEW in, Tracks(key, p, l, in), l.hc
  PROVE  in \in Seq(Bytes) /\ (in # <<>> => \E f, m : Front(key, p, l, in, f, m))
<1>1. PICK S, fs, ms, c : Past(key, p, S, fs, ms) /\ Present(p, l, in, S, fs, ms, c)
  BY DEF Tracks
<1>2. PICK n \in Nat : n = Len(fs) /\ Len(ms) = n + 1
  BY <1>1 DEF Past
<1>3. c \in 1 .. (Len(fs) + 1)
  BY <1>1 DEF Present
<1>4. ms[c].at \in 0 .. Len(S) /\ ms[c] \in Mark
  BY <1>1, <1>3, MarkInside
<1>5. S \in Seq(Bytes) /\ Len(S) \in Nat
  BY <1>1 DEF Past
<1>6. PICK a \in 0 .. Len(S) : a = ms[c].at
  BY <1>4
<1>7. in = Drop(S, a) /\ (Synced(l, ms[c]) \/ c = n + 1)
  BY <1>1, <1>2, <1>6 DEF Present
<1>8. in \in Seq(Bytes) /\ Len(in) = Len(S) - a /\ \A i \in 1 .. (Len(S) - a) : in[i] = S[a + i]
  <2>1. /\ Drop(S, a) \in Seq(Bytes) /\ Len(Drop(S, a)) = Len(S) - a
        /\ \A i \in 1 .. (Len(S) - a) : Drop(S, a)[i] = S[a + i]
    <3>1. S \in Seq(Bytes)
      BY <1>5
    <3> QED
      BY <3>1, DropFacts
  <2> QED
    BY <1>7, <2>1
<1>9. SUFFICES ASSUME in # <<>> PROVE \E f, m : Front(key, p, l, in, f, m)
  BY <1>8
<1>10. c \in 1 .. n
  <2>1. c = n + 1 => a = Len(S)
    <3>1. ms[n + 1] = EndMark(p, S)
      BY <1>1, <1>2 DEF Past
    <3>2. ms[n + 1].at = Len(S)
      BY <3>1 DEF EndMark
    <3> QED
      BY <1>6, <3>2
  <2>2. a # Len(S)
    <3>1. Len(in) # 0
      BY <1>8, <1>9
    <3> QED
      BY <1>5, <1>8, <3>1
  <2> QED
    BY <1>2, <1>3, <2>1, <2>2
<1>11. PICK f, m, e : f = fs[c] /\ m = ms[c] /\ e = ms[c + 1]
  OBVIOUS
<1>12. f \in FrameRec /\ m \in Mark /\ e \in Mark
  <2>1. fs \in Seq(FrameRec) /\ c \in 1 .. Len(fs) /\ ms \in Seq(Mark)
        /\ c \in 1 .. Len(ms) /\ c + 1 \in 1 .. Len(ms)
    BY <1>1, <1>2, <1>10 DEF Past
  <2> QED
    BY <1>11, <2>1
<1>13. Link(key, p, S, m, f, e, c = n)
  BY <1>1, <1>2, <1>10, <1>11 DEF Past
<1>14. PICK z \in Nat : z = Len(FrameBytes(key, f))
  BY <1>12, FrameFacts
<1>15. a + z <= Len(S) /\ e.at = a + z /\ m.at = a
  BY <1>6, <1>11, <1>13, <1>14 DEF Link, Stands
<1>16. Stands(in, 0, FrameBytes(key, f))
  <2>1. 0 + z <= Len(in)
    BY <1>5, <1>8, <1>15
  <2>2. \A j \in 1 .. z : S[a + j] = FrameBytes(key, f)[j]
    BY <1>13, <1>14, <1>15 DEF Link, Stands
  <2>3. \A j \in 1 .. z : in[0 + j] = FrameBytes(key, f)[j]
    <3> TAKE j \in 1 .. z
    <3>1. j \in 1 .. (Len(S) - a) /\ 0 + j = j
      BY <1>5, <1>15
    <3> QED
      BY <1>8, <2>2, <3>1
  <2> QED
    BY <1>14, <2>1, <2>3 DEF Stands
<1>17. PICK rest : rest = Drop(in, Len(FrameBytes(key, f)))
  OBVIOUS
<1>18. rest = Drop(S, e.at)
  <2>1. z \in 0 .. (Len(S) - a)
    BY <1>5, <1>15
  <2>2. Drop(Drop(S, a), z) = Drop(S, a + z)
    BY <1>5, <2>1, DropDrop
  <2> QED
    BY <1>7, <1>14, <1>15, <1>17, <2>2
<1>19. Synced(l, m)
  BY <1>7, <1>10, <1>11
<1>20. c + 1 \in 1 .. (Len(fs) + 1) /\ p.http # NoHttp
  <2>1. p.http # NoHttp
    BY <1>1 DEF Present
  <2> QED
    BY <1>2, <1>10, <2>1
<1>21. ASSUME NEW k, k.hc, Synced(k, e) PROVE Tracks(key, p, k, rest)
  <2>1. Present(p, k, rest, S, fs, ms, c + 1)
    BY <1>11, <1>18, <1>20, <1>21 DEF Present
  <2> QED
    BY <1>1, <2>1 DEF Tracks
<1>22. CASE Proper(key, m.open, f.kind)
  <2>1. Follows(m, f, e)
    BY <1>13, <1>22 DEF Link
  <2>2. IsPre(e.sent, p.sent) /\ IsPre(e.pings, p.pings)
    BY <1>1, <1>11, <1>20 DEF Past
  <2>3. Front(key, p, l, in, f, m)
    BY <1>12, <1>16, <1>17, <1>19, <1>21, <1>22, <2>1, <2>2 DEF Front
  <2> QED
    BY <2>3
<1>23. CASE ~Proper(key, m.open, f.kind)
  <2>1. p.conduct # "proper" /\ c = n
    BY <1>13, <1>23 DEF Link
  <2>2. ASSUME NEW k, k.hc PROVE Tracks(key, p, k, rest)
    <3>1. c + 1 = Len(fs) + 1
      BY <1>2, <2>1
    <3>2. Present(p, k, rest, S, fs, ms, c + 1)
      BY <1>11, <1>18, <1>20, <2>1, <2>2, <3>1 DEF Present
    <3> QED
      BY <1>1, <3>2 DEF Tracks
  <2>3. Front(key, p, l, in, f, m)
    BY <1>12, <1>16, <1>17, <1>19, <1>23, <2>1, <2>2 DEF Front
  <2> QED
    BY <2>3
<1> QED
  BY <1>22, <1>23

(* Before the handshake, the HTTP header of the peer is in front. *)
LEMMA TracksHeader ==
  ASSUME NEW key, NEW p, NEW l, NEW in, Tracks(key, p, l, in), ~l.hc, http_ok(p)
  PROVE  /\ in \in Seq(Nat) /\ p.http.size <= Len(in)
         /\ p.http = NoHttp => in = <<>>
         /\ p.http.size > 0 => in[p.http.size] = EndOfHeader
         /\ \A i \in 1 .. Len(in) : in[i] = EndOfHeader => i = p.http.size
         /\ p.http # NoHttp =>
              \A k : k.hc /\ Synced(k, StartMark) => Tracks(key, p, k, Drop(in, p.http.size))
<1>1. PICK S, fs, ms, c : Past(key, p, S, fs, ms) /\ Present(p, l, in, S, fs, ms, c)
  BY DEF Tracks
<1>h. PICK h : h = HttpBytes(p.http)
  OBVIOUS
<1>2. PICK z \in Nat : z = p.http.size /\ h = HttpBytes(p.http)
  BY <1>h DEF http_ok
<1>3. c = 1 /\ in = h \o S
  BY <1>1, <1>2 DEF Present
<1>4. S \in Seq(Bytes) /\ S \in Seq(Nat) /\ Len(S) \in Nat
  BY <1>1, BytesSeq DEF Past
<1>5. h \in Seq(Nat) /\ Len(h) = z /\ \A i \in 1 .. z : h[i] = IF i = z THEN EndOfHeader ELSE HttpByte
  BY <1>2, HttpSeq
<1>6. /\ in \in Seq(Nat) /\ Len(in) = z + Len(S)
      /\ \A i \in 1 .. z : in[i] = h[i]
      /\ \A i \in 1 .. Len(S) : in[z + i] = S[i]
  <2>1. h \in Seq(Nat) /\ S \in Seq(Nat)
    BY <1>4, <1>5
  <2>2. /\ h \o S \in Seq(Nat) /\ Len(h \o S) = Len(h) + Len(S)
        /\ \A i \in 1 .. Len(h) : (h \o S)[i] = h[i]
        /\ \A i \in 1 .. Len(S) : (h \o S)[Len(h) + i] = S[i]
    BY <2>1, CatFacts
  <2> QED
    BY <1>3, <1>5, <2>2
<1>7. z <= Len(in)
  BY <1>4, <1>6
<1>8. p.http = NoHttp => in = <<>>
  <2>1. SUFFICES ASSUME p.http = NoHttp PROVE in = <<>>
    OBVIOUS
  <2>2. S = <<>> /\ z = 0
    BY <1>1, <1>2, <2>1 DEF Past, NoHttp
  <2>3. Len(in) = 0
    BY <1>6, <2>2
  <2> QED
    BY <1>6, <2>3
<1>9. z > 0 => in[z] = EndOfHeader
  <2>1. z > 0 => z \in 1 .. z
    OBVIOUS
  <2> QED
    BY <1>5, <1>6, <2>1
<1>10. ASSUME NEW i \in 1 .. Len(in), in[i] = EndOfHeader PROVE i = z
  <2>1. CASE i <= z
    <3>1. i \in 1 .. z
      BY <1>6, <2>1
    <3>2. EndOfHeader # HttpByte
      BY DEF EndOfHeader, HttpByte
    <3> QED
      BY <1>5, <1>6, <1>10, <3>1, <3>2
  <2>2. CASE i > z
    <3>1. PICK j \in 1 .. Len(S) : i = z + j
      <4>1. i - z \in 1 .. Len(S) /\ i = z + (i - z)
        BY <1>4, <1>6, <2>2
      <4> QED
        BY <4>1
    <3>2. S[j] \in Bytes
      BY <1>4
    <3>3. S[j] \in Nat /\ S[j] <= 255
      BY <3>2, BytesAre
    <3>4. S[j] = EndOfHeader
      BY <1>6, <1>10, <3>1
    <3> QED
      BY <3>3, <3>4 DEF EndOfHeader
  <2>3. i <= z \/ i > z
    BY <1>6
  <2> QED
    BY <2>1, <2>2, <2>3
<1>11. Drop(in, z) = S
  <2>1. PICK d : d = Drop(in, z)
    OBVIOUS
  <2>2. z \in 0 .. Len(in) /\ in \in Seq(Nat)
    BY <1>6, <1>7
  <2>3. d \in Seq(Nat) /\ Len(d) = Len(in) - z /\ \A i \in 1 .. (Len(in) - z) : d[i] = in[z + i]
    BY <2>1, <2>2, DropFacts
  <2>4. Len(in) - z = Len(S)
    BY <1>4, <1>6
  <2>5. Len(d) = Len(S) /\ \A i \in 1 .. Len(d) : d[i] = S[i]
    BY <1>6, <2>3, <2>4
  <2> QED
    BY <1>4, <2>1, <2>3, <2>5, SeqEqual
<1>12. Drop(S, 0) = S
  BY <1>4, DropNone
<1>13. ASSUME p.http # NoHttp, NEW k, k.hc, Synced(k, StartMark) PROVE Tracks(key, p, k, Drop(in, z))
  <2>1. ms[1] = StartMark /\ 1 \in 1 .. (Len(fs) + 1)
    BY <1>1 DEF Past
  <2>2. ms[1].at = 0
    BY <2>1 DEF StartMark
  <2>3. Present(p, k, Drop(in, z), S, fs, ms, 1)
    BY <1>11, <1>12, <1>13, <2>1, <2>2 DEF Present
  <2> QED
    BY <1>1, <2>3 DEF Tracks
<1> QED
  BY <1>2, <1>6, <1>7, <1>8, <1>9, <1>10, <1>13

-----------------------------------------------------------------------------
(* The invariant *)

(* What the endpoint has written answers the pings in the same order. *)
Answers(out, png) ==
  \A i \in DOMAIN out :
    IsFrame(out[i]) => i - 1 \in DOMAIN png /\ IsPong(out[i], png[i - 1])

(* The output has got beyond the handshake. *)
HasFrame(out) == \E i \in DOMAIN out : IsFrame(out[i])

(* The endpoint's part of the handshake. *)
FirstUnit(r) == [http |-> IF r = "server" THEN "101" ELSE "request"]

(* The application has been initialized. *)
Attached(w) == w.app \in {"up", "aborted"}

(* The layers, whether or not reading goes on. *)
LayersOK(r, w, out, snt, png) ==
  /\ w \in Layers /\ out \in Seq(Unit)
  /\ ~w.handshake_complete =>
       /\ w.app = "none" /\ w.messages = FALSE /\ w.delivered = <<>>
       /\ w.opcode = nil_code /\ w.payload_buf = <<>>
  /\ w.handshake_complete /\ ~Attached(w) => r = "client"
  /\ w.handshake_complete => out # <<>> /\ out[1] = FirstUnit(r)
  /\ HasFrame(out) \/ w.delivered # <<>> => Attached(w)
  /\ Answers(out, png) /\ IsPre(w.delivered, snt)

(* The layers while reading goes on. *)
Live(r, w, out) ==
  /\ w.handshake_complete => Attached(w)
  /\ ~w.handshake_complete => out = IF r = "server" THEN <<>> ELSE client_init

(* What matters of the layers, and what matters of the peer. *)
LayerOf(w, out) ==
  [hc |-> w.handshake_complete, opcode |-> w.opcode, payload_buf |-> w.payload_buf,
   delivered |-> w.delivered, units |-> Len(out)]

PeerNow == [http |-> http, conduct |-> conduct, open |-> open, sent |-> sent, pings |-> pings]

(* What reaches the layers next. *)
Input == Drop(rx.buf, consumed) \o wire

(* The peer. *)
PeerOK ==
  /\ role \in {"server", "client"}
  /\ http.size \in HttpSizes \cup {0} /\ http.passes \subseteq Checks(role)
  /\ http = NoHttp \/ http.size \in HttpSizes
  /\ frames \in 0 .. MaxFrames /\ open \in Opens
  /\ conduct \in {"proper", "interleaved", "closed", "improper"}
  /\ sent \in Seq(Message) /\ pings \in Seq(Seq(Bytes))
  /\ wire \in Seq(0 .. EndOfHeader)

(* The flags of the socket manager and of the model. *)
FlagsOK ==
  /\ in_event \in BOOLEAN /\ writing \in BOOLEAN /\ pollout \in BOOLEAN /\ consuming \in BOOLEAN
  /\ failed \in {"no", "socket", "application", "protocol"}
  /\ failed # "no" => in_event = FALSE /\ consuming = FALSE

(* The buffer and the receive policy. *)
RxOK ==
  /\ rx \in RxState /\ reads \in 0 .. max_consecutive_reads /\ consumed \in 0 .. Len(rx.buf)
  /\ rx.max_read_size = 0 \/ rx.min_read_size <= rx.max_read_size
  /\ failed = "no" /\ ~consuming => rx.max_read_size = 0 \/ Len(rx.buf) < rx.max_read_size
  /\ in_event => rx.max_read_size <= rx.size
  /\ ~consuming => consumed = 0
  /\ failed = "no" /\ ~ws.handshake_complete => rx.max_read_size = max_http_size /\ consumed = 0
  /\ consuming /\ ~ws.handshake_complete => rx.buf # <<>>

(* Layers and input, in the current state. *)
TracksNow == Tracks(PeerKey, PeerNow, LayerOf(ws, Output), Input)

(* The inductive invariant. *)
WSInv ==
  /\ PeerOK /\ FlagsOK /\ RxOK /\ got \in Seq(Unit)
  /\ LayersOK(role, ws, Output, sent, pings)
  /\ failed = "no" => Live(role, ws, Output) /\ TracksNow
  /\ OnlyBadPeersFail

-----------------------------------------------------------------------------
(* Constants and keys *)

(* What WSAssumption says of the constants. *)
LEMMA ConstantsAre ==
  /\ max_http_size \in Nat /\ receive_size \in Nat /\ receive_size >= 14
  /\ max_frame_size \in Nat /\ max_frame_size >= 14 /\ max_frame_size <= INT32_MAX
  /\ MaskKeys \subseteq 0 .. INT32_MAX /\ MaskKeys # {} /\ HttpSizes \subseteq Nat \ {0}
  /\ MaxFrames \in Nat /\ MaxPayload \in Nat /\ MaxPayload >= max_frame_size
  /\ max_consecutive_reads \in Nat
  BY WSAssumption, TransportAssumption, MaxIs

(* A set of naturals has a least element. *)
LEMMA LeastNat ==
  ASSUME NEW T, T \subseteq Nat, T # {}
  PROVE  \E x \in T : \A y \in T : x <= y
<1>1. PICK x \in T : \A y \in T : ~(<<y, x>> \in OpToRel(<, Nat))
  BY NatLessThanWellFounded, WFMin
<1>2. \A y \in T : ~(y < x)
  BY <1>1 DEF OpToRel
<1> QED
  BY <1>2

(* A bounded set of naturals has a maximum. *)
LEMMA MaxIn ==
  ASSUME NEW T, T \subseteq Nat, T # {}, NEW n \in Nat, \A y \in T : y <= n
  PROVE  Max(T) \in T
<1> DEFINE U == {z \in Nat : \E y \in T : z = n - y}
<1>1. PICK y \in T : TRUE
  OBVIOUS
<1>2. n - y \in U
  BY <1>1
<1>3. PICK x \in U : \A z \in U : x <= z
  <2>1. U \subseteq Nat /\ U # {}
    BY <1>2
  <2> HIDE DEF U
  <2> QED
    BY <2>1, LeastNat
<1>4. PICK m \in T : x = n - m
  BY <1>3
<1>5. \A z \in T : n - z \in U
  OBVIOUS
<1>6. \A z \in T : m >= z
  <2> TAKE z \in T
  <2>1. n - m <= n - z /\ z \in Nat /\ m \in Nat
    BY <1>3, <1>4, <1>5
  <2> QED
    BY <2>1
<1> QED
  BY <1>6 DEF Max

(* Masking keys are 32-bit numbers. *)
LEMMA KeysAre == PeerKey \in 0 .. INT32_MAX /\ OutKeys \subseteq 0 .. INT32_MAX
<1>1. MaskKeys \subseteq Nat /\ MaskKeys # {} /\ INT32_MAX \in Nat /\ \A y \in MaskKeys : y <= INT32_MAX
  BY ConstantsAre, MaxIs
<1>2. Max(MaskKeys) \in MaskKeys
  BY <1>1, MaxIn
<1>3. 0 \in 0 .. INT32_MAX /\ MaskKeys \subseteq 0 .. INT32_MAX
  BY MaxIs, ConstantsAre
<1>4. PeerKey = IF role = "server" THEN Max(MaskKeys) ELSE 0
  BY DEF PeerKey
<1> HIDE DEF PeerKey
<1> QED
  BY <1>2, <1>3, <1>4 DEF OutKeys

-----------------------------------------------------------------------------
(* The transport *)

(* What remains in the buffer when handle_read_event goes on, and its policy. *)
LEMMA ReturnIs ==
  ASSUME NEW r \in RxState, NEW n \in 0 .. Len(r.buf), NEW min \in Nat, NEW max \in Nat,
         max = 0 \/ Len(r.buf) - n < max,
         NEW q, q = Resize(Shift(configure_read(r, between(min, max)), n))
  PROVE  /\ q \in RxState /\ q.buf = Drop(r.buf, n)
         /\ q.min_read_size = min /\ q.max_read_size = max /\ q.max_read_size <= q.size
<1>1. PICK b \in Seq(Nat), s \in Nat, d \in Nat : b = r.buf /\ s = r.size /\ d = r.delta_offset
  BY DEF RxState
<1>2. PICK l \in Nat : l = Len(b)
  OBVIOUS
<1>3. PICK c : c = configure_read(r, between(min, max))
  OBVIOUS
<1>4. c = [buf |-> b, size |-> s, delta_offset |-> d, min_read_size |-> min, max_read_size |-> max]
  <2>1. PICK y : y = between(min, max) /\ y.min = min /\ y.max = max
    BY DEF between
  <2>2. c = [r EXCEPT !.min_read_size = y.min, !.max_read_size = y.max]
    BY <1>3, <2>1 DEF configure_read
  <2> QED
    BY <1>1, <2>1, <2>2 DEF RxState
<1>5. PICK t, e : /\ e \in Nat /\ t = Drop(b, n) /\ t \in Seq(Nat) /\ Len(t) = l - n
                          /\ Shift(c, n) = [buf |-> t, size |-> s, delta_offset |-> e,
                                            min_read_size |-> min, max_read_size |-> max]
  <2>1. n \in 0 .. Len(b) /\ n \in Nat /\ l - n \in Nat
    BY <1>1, <1>2
  <2>2. Drop(b, n) \in Seq(Nat) /\ Len(Drop(b, n)) = l - n
    BY <1>2, <2>1, DropFacts
  <2>3. CASE n = 0
    <3>1. Drop(b, n) = b
      BY <2>3 DEF Drop
    <3>2. Shift(c, n) = c
      BY <2>3 DEF Shift
    <3> QED
      BY <1>4, <2>2, <3>1, <3>2
  <2>4. CASE n # 0
    <3>1. Shift(c, n) = [c EXCEPT !.buf = SubSeq(@, n + 1, Len(@)), !.delta_offset = Len(c.buf) - n]
      BY <2>4 DEF Shift, Offset
    <3>2. Shift(c, n) = [buf |-> Drop(b, n), size |-> s, delta_offset |-> l - n,
                         min_read_size |-> min, max_read_size |-> max]
      BY <1>2, <1>4, <3>1 DEF Drop
    <3>3. l - n \in Nat
      BY <2>1
    <3> QED
      BY <2>2, <3>2, <3>3
  <2> QED
    BY <2>3, <2>4
<1>6. PICK v : v = Shift(c, n)
  OBVIOUS
<1>10. v = [buf |-> t, size |-> s, delta_offset |-> e, min_read_size |-> min, max_read_size |-> max]
  BY <1>5, <1>6
<1>7. q = IF s # max /\ Len(t) < max THEN [v EXCEPT !.size = max] ELSE v
  <2>1. v.size = s /\ v.max_read_size = max /\ v.buf = t
    BY <1>10
  <2>2. q = Resize(v)
    BY <1>3, <1>6
  <2> QED
    BY <2>1, <2>2 DEF Resize, Offset
<1>8. max = 0 \/ Len(t) < max
  BY <1>1, <1>2, <1>5
<1>9. PICK z \in Nat : /\ q = [buf |-> t, size |-> z, delta_offset |-> e,
                               min_read_size |-> min, max_read_size |-> max]
                       /\ max <= z
  <2>1. CASE s # max /\ Len(t) < max
    <3>1. q = [v EXCEPT !.size = max]
      BY <1>7, <2>1
    <3>2. q = [buf |-> t, size |-> max, delta_offset |-> e, min_read_size |-> min, max_read_size |-> max]
      BY <1>10, <3>1
    <3> QED
      BY <3>2
  <2>2. CASE ~(s # max /\ Len(t) < max)
    <3>1. max <= s
      BY <1>8, <2>2
    <3> QED
      BY <1>5, <1>6, <1>7, <2>2, <3>1
  <2> QED
    BY <2>1, <2>2
<1> QED
  BY <1>1, <1>5, <1>9 DEF RxState

(* Preparing a read makes room for max_read_size bytes. *)
LEMMA PrepareIs ==
  ASSUME NEW r \in RxState
  PROVE  /\ Prepare(r) \in RxState /\ Prepare(r).buf = r.buf
         /\ Prepare(r).min_read_size = r.min_read_size
         /\ Prepare(r).max_read_size = r.max_read_size
         /\ Prepare(r).max_read_size <= Prepare(r).size
<1>1. r.size \in Nat /\ r.max_read_size \in Nat
  BY DEF RxState
<1>2. CASE r.size < r.max_read_size
  <2>1. PICK q : q = [r EXCEPT !.size = r.max_read_size]
    OBVIOUS
  <2>2. /\ q \in RxState /\ q.buf = r.buf /\ q.min_read_size = r.min_read_size
        /\ q.max_read_size = r.max_read_size /\ q.size = r.max_read_size
    BY <1>1, <2>1 DEF RxState
  <2>3. Prepare(r) = q
    BY <1>2, <2>1 DEF Prepare
  <2> QED
    BY <1>1, <2>2, <2>3
<1>3. CASE ~(r.size < r.max_read_size)
  BY <1>1, <1>3 DEF Prepare
<1> QED
  BY <1>2, <1>3

-----------------------------------------------------------------------------
(* The layers *)

(* abort() changes only the state of the application. *)
LEMMA AbortIs ==
  ASSUME NEW w \in Layers
  PROVE  /\ abort(w) \in Layers
         /\ abort(w).handshake_complete = w.handshake_complete
         /\ abort(w).opcode = w.opcode /\ abort(w).payload_buf = w.payload_buf
         /\ abort(w).write_buf = w.write_buf /\ abort(w).messages = w.messages
         /\ abort(w).delivered = w.delivered
         /\ ~w.handshake_complete => abort(w) = w
         /\ w.handshake_complete => (Attached(abort(w)) <=> Attached(w))
<1>1. CASE ~w.handshake_complete
  <2>1. abort(w) = w
    BY <1>1 DEF abort
  <2> QED
    BY <1>1, <2>1
<1>2. CASE w.handshake_complete
  <2>1. PICK a : a = IF w.app \in {"up", "aborted"} THEN "aborted" ELSE "aborted_uninitialized"
    OBVIOUS
  <2>2. PICK u : u = [w EXCEPT !.app = a]
    OBVIOUS
  <2>3. abort(w) = u
    BY <1>2, <2>1, <2>2 DEF abort
  <2>4. a \in {"none", "up", "aborted", "aborted_uninitialized"}
    BY <2>1
  <2>5. /\ u \in Layers /\ u.handshake_complete = w.handshake_complete
        /\ u.opcode = w.opcode /\ u.payload_buf = w.payload_buf
        /\ u.write_buf = w.write_buf /\ u.messages = w.messages
        /\ u.delivered = w.delivered /\ u.app = a
    BY <2>2, <2>4 DEF Layers
  <2>6. Attached(u) <=> Attached(w)
    BY <2>1, <2>5 DEF Attached
  <2> QED
    BY <1>2, <2>3, <2>5, <2>6
<1> QED
  BY <1>1, <1>2

(* abort() keeps what is known of the layers. *)
LEMMA AbortKeeps ==
  ASSUME NEW r, NEW w, NEW out, NEW snt, NEW png, LayersOK(r, w, out, snt, png)
  PROVE  /\ LayersOK(r, abort(w), out, snt, png)
         /\ Live(r, w, out) => Live(r, abort(w), out)
         /\ LayerOf(abort(w), out) = LayerOf(w, out)
         /\ abort(w).write_buf = w.write_buf
<1>1. w \in Layers
  BY DEF LayersOK
<1>2. PICK u : u = abort(w)
  OBVIOUS
<1>3. /\ u \in Layers /\ u.handshake_complete = w.handshake_complete
      /\ u.opcode = w.opcode /\ u.payload_buf = w.payload_buf
      /\ u.write_buf = w.write_buf /\ u.messages = w.messages
      /\ u.delivered = w.delivered
      /\ ~w.handshake_complete => u = w
      /\ w.handshake_complete => (Attached(u) <=> Attached(w))
  BY <1>1, <1>2, AbortIs
<1>4. CASE ~w.handshake_complete
  BY <1>2, <1>3, <1>4
<1>5. CASE w.handshake_complete
  <2>1. LayersOK(r, u, out, snt, png)
    BY <1>3, <1>5, Zenon DEF LayersOK
  <2>2. Live(r, w, out) => Live(r, u, out)
    BY <1>3, <1>5, Zenon DEF Live
  <2>3. LayerOf(u, out) = LayerOf(w, out)
    BY <1>3 DEF LayerOf
  <2> QED
    BY <1>2, <1>3, <2>1, <2>2, <2>3
<1> QED
  BY <1>4, <1>5

(* Bytes that are consumed leave the front of the input. *)
LEMMA InputIs ==
  ASSUME PeerOK, RxOK
  PROVE  /\ rx.buf \in Seq(Nat) /\ wire \in Seq(Nat) /\ Len(rx.buf) \in Nat /\ consumed \in Nat
         /\ consumed <= Len(rx.buf)
         /\ \A n \in consumed .. Len(rx.buf) : Drop(rx.buf, n) \o wire = Drop(Input, n - consumed)
<1>1. rx.buf \in Seq(Nat) /\ Len(rx.buf) \in Nat /\ consumed \in Nat /\ consumed <= Len(rx.buf)
  BY DEF RxOK, RxState
<1>2. wire \in Seq(Nat)
  <2>1. PICK T : wire \in Seq(T) /\ T = 0 .. EndOfHeader
    BY DEF PeerOK
  <2>2. \A x \in T : x \in Nat
    BY <2>1 DEF EndOfHeader
  <2>3. wire \in Seq(T)
    BY <2>1
  <2> QED
    BY <2>2, <2>3, WiderSeq
<1>3. ASSUME NEW n \in consumed .. Len(rx.buf)
      PROVE  Drop(rx.buf, n) \o wire = Drop(Input, n - consumed)
  <2>1. PICK b, a, m : b = rx.buf /\ a = consumed /\ m = n - consumed
    OBVIOUS
  <2>2. /\ b \in Seq(Nat) /\ a \in 0 .. Len(b) /\ m \in 0 .. (Len(b) - a) /\ a + m = n
        /\ Len(b) \in Nat
    BY <1>1, <2>1
  <2>3. Drop(Drop(b, a), m) = Drop(b, a + m)
    BY <2>2, DropDrop
  <2>4. Drop(b, a) \in Seq(Nat) /\ Len(Drop(b, a)) = Len(b) - a
    <3>1. b \in Seq(Nat) /\ a \in 0 .. Len(b)
      BY <2>2
    <3> QED
      BY <3>1, DropFacts
  <2>5. m \in 0 .. Len(Drop(b, a))
    BY <2>2, <2>4
  <2>6. Drop(Drop(b, a) \o wire, m) = Drop(Drop(b, a), m) \o wire
    BY <1>2, <2>4, <2>5, DropCat
  <2> QED
    BY <2>1, <2>2, <2>3, <2>6 DEF Input
<1> QED
  BY <1>1, <1>2, <1>3

(* One iteration of consume() leaves the layers in state w. *)
Stays(w) ==
  /\ LayersOK(role, w, got \o w.write_buf, sent, pings) /\ UNCHANGED Outside

(* What an iteration of consume() leaves alone. *)
LEMMA OutsideKeeps ==
  ASSUME WSInv, NEW w, Stays(w)
  PROVE  /\ PeerOK' /\ got' \in Seq(Unit) /\ PeerNow' = PeerNow /\ PeerKey' = PeerKey
         /\ reads' = reads /\ pollout' = pollout /\ wire' = wire
         /\ (ws' = w \/ ws' = abort(w)) => LayersOK(role, ws, Output, sent, pings)'
         /\ ws' = w => Output' = got \o w.write_buf
<1>1. /\ role' = role /\ http' = http /\ frames' = frames /\ open' = open /\ conduct' = conduct
      /\ sent' = sent /\ pings' = pings /\ wire' = wire /\ reads' = reads
      /\ pollout' = pollout /\ got' = got
  BY DEF Stays, Outside, peerVars
<1>2. PeerOK'
  BY <1>1 DEF WSInv, PeerOK
<1>3. got' \in Seq(Unit)
  BY <1>1 DEF WSInv
<1>4. PeerNow' = PeerNow /\ PeerKey' = PeerKey
  BY <1>1 DEF PeerNow, PeerKey
<1>5. LayersOK(role, w, got \o w.write_buf, sent, pings)
  BY DEF Stays
<1>6. /\ LayersOK(role, abort(w), got \o w.write_buf, sent, pings)
      /\ abort(w).write_buf = w.write_buf
  BY <1>5, AbortKeeps
<1>7. Output' = got \o ws'.write_buf
  BY <1>1 DEF Output
<1>8. ws' = w => LayersOK(role, ws, Output, sent, pings)'
  BY <1>1, <1>5, <1>7
<1>9. ws' = abort(w) => LayersOK(role, ws, Output, sent, pings)'
  BY <1>1, <1>6, <1>7
<1> QED
  BY <1>1, <1>2, <1>3, <1>4, <1>7, <1>8, <1>9

(* Giving up keeps the invariant, if a protocol error has a cause. *)
LEMMA FailKeeps ==
  ASSUME WSInv, NEW w, Stays(w), NEW reason \in {"socket", "application", "protocol"},
         Fail(reason, w),
         reason = "protocol" => \/ conduct # "proper" \/ http.size > max_http_size
                                \/ http.passes # Checks(role)
  PROVE  WSInv'
<1>1. /\ failed' = reason /\ in_event' = FALSE /\ consumed' = 0 /\ consuming' = FALSE
      /\ writing' = pollout /\ ws' = abort(w) /\ rx' = rx
  BY DEF Fail
<1>2. /\ PeerOK' /\ got' \in Seq(Unit) /\ reads' = reads /\ pollout' = pollout
      /\ LayersOK(role, ws, Output, sent, pings)'
  BY <1>1, OutsideKeeps
<1>3. FlagsOK'
  BY <1>1, <1>2 DEF WSInv, FlagsOK
<1>4. RxOK'
  <2>1. Len(rx.buf) \in Nat
    BY DEF WSInv, RxOK, RxState
  <2> QED
    BY <1>1, <1>2, <2>1 DEF WSInv, RxOK
<1>5. failed' # "no"
  BY <1>1
<1>6. OnlyBadPeersFail'
  BY <1>1 DEF OnlyBadPeersFail, Stays, Outside, peerVars
<1> QED
  BY <1>2, <1>3, <1>4, <1>5, <1>6 DEF WSInv

(* Reading goes on after n bytes of the buffer, in state w of the layers. *)
Proceeds(n, w) ==
  /\ Stays(w) /\ Live(role, w, got \o w.write_buf) /\ failed = "no"
  /\ n \in consumed .. Len(rx.buf)
  /\ Tracks(PeerKey, PeerNow, LayerOf(w, got \o w.write_buf), Drop(Input, n - consumed))

(* Going on keeps the invariant, if layers and input still track the past. *)
LEMMA ProceedKeeps ==
  ASSUME WSInv, NEW n, NEW w, Proceeds(n, w), failed' = failed, ws' = w, FlagsOK', RxOK',
         Input' = Drop(rx.buf, n) \o wire
  PROVE  WSInv'
<1>1. /\ PeerOK' /\ got' \in Seq(Unit) /\ PeerNow' = PeerNow /\ PeerKey' = PeerKey
      /\ LayersOK(role, ws, Output, sent, pings)' /\ Output' = got \o w.write_buf
      /\ role' = role
  BY OutsideKeeps DEF Proceeds, Stays, Outside
<1>2. Drop(rx.buf, n) \o wire = Drop(Input, n - consumed)
  BY InputIs DEF WSInv, Proceeds
<1>3. TracksNow'
  <2>1. TracksNow' = Tracks(PeerKey', PeerNow', LayerOf(ws', Output'), Input')
    BY DEF TracksNow
  <2> QED
    BY <1>1, <1>2, <2>1 DEF Proceeds
<1>4. Live(role, ws, Output)'
  BY <1>1 DEF Proceeds
<1>5. failed' = "no"
  BY DEF Proceeds
<1>6. OnlyBadPeersFail'
  BY <1>5 DEF OnlyBadPeersFail
<1> QED
  BY <1>1, <1>3, <1>4, <1>6 DEF WSInv

(* The type of writing after a step. *)
LEMMA WritingIs ==
  ASSUME WSInv, NEW w, writing' = (writing \/ w.write_buf # ws.write_buf)
  PROVE  writing' \in BOOLEAN
  BY Zenon DEF WSInv, FlagsOK

(* consume() returns to the transport with a new receive policy. *)
LEMMA ReturnKeeps ==
  ASSUME WSInv, NEW n, NEW w, Proceeds(n, w), NEW min \in Nat, NEW max \in Nat, min <= max \/ max = 0,
         max = 0 \/ Len(rx.buf) - n < max, ~w.handshake_complete => max = max_http_size,
         Return(n, between(min, max), w)
  PROVE  WSInv'
<1>1. /\ rx' = Resize(Shift(configure_read(rx, between(min, max)), n))
      /\ consumed' = 0 /\ consuming' = FALSE /\ ws' = w
      /\ writing' = (writing \/ w.write_buf # ws.write_buf)
      /\ failed' = failed /\ in_event' = in_event
  BY DEF Return
<1>2. /\ rx \in RxState /\ rx.buf \in Seq(Nat) /\ Len(rx.buf) \in Nat /\ consumed \in Nat
      /\ n \in 0 .. Len(rx.buf) /\ failed = "no"
  BY InputIs DEF WSInv, RxOK, Proceeds
<1>3. /\ rx' \in RxState /\ rx'.buf = Drop(rx.buf, n)
      /\ rx'.min_read_size = min /\ rx'.max_read_size = max /\ rx'.max_read_size <= rx'.size
  <2>q. PICK q : q = rx'
    OBVIOUS
  <2>1. PICK r \in RxState : r = rx /\ q = rx'
    BY <1>2, <2>q
  <2>2. q = Resize(Shift(configure_read(r, between(min, max)), n))
    BY <1>1, <2>1
  <2>3. n \in 0 .. Len(r.buf) /\ (max = 0 \/ Len(r.buf) - n < max)
    BY <1>2, <2>1
  <2>4. /\ q \in RxState /\ q.buf = Drop(r.buf, n)
        /\ q.min_read_size = min /\ q.max_read_size = max /\ q.max_read_size <= q.size
    BY <2>2, <2>3, ReturnIs
  <2> QED
    BY <2>1, <2>4
<1>4. Drop(rx.buf, n) \in Seq(Nat) /\ Len(Drop(rx.buf, n)) = Len(rx.buf) - n
  <2>1. PICK b : b = rx.buf
    OBVIOUS
  <2>2. b \in Seq(Nat) /\ n \in 0 .. Len(b)
    BY <1>2, <2>1
  <2>3. Drop(b, n) \in Seq(Nat) /\ Len(Drop(b, n)) = Len(b) - n
    BY <2>2, DropFacts
  <2> QED
    BY <2>1, <2>3
<1>5. FlagsOK'
  <2>1. writing' \in BOOLEAN /\ pollout' = pollout
    BY <1>1, WritingIs DEF Proceeds, Stays, Outside
  <2> QED
    BY <1>1, <1>2, <2>1 DEF WSInv, FlagsOK
<1>6. RxOK'
  <2>1. reads' \in 0 .. max_consecutive_reads
    BY DEF WSInv, RxOK, Proceeds, Stays, Outside
  <2>2. rx'.max_read_size = 0 \/ rx'.min_read_size <= rx'.max_read_size
    BY <1>3
  <2>3. rx'.max_read_size = 0 \/ Len(rx'.buf) < rx'.max_read_size
    BY <1>3, <1>4
  <2>4. ~ws'.handshake_complete => rx'.max_read_size = max_http_size
    BY <1>1, <1>3
  <2>5. consumed' \in 0 .. Len(rx'.buf)
    <3>1. Len(rx'.buf) \in Nat
      BY <1>3, <1>4
    <3> QED
      BY <1>1, <3>1
  <2> QED
    BY <1>1, <1>3, <2>1, <2>2, <2>3, <2>4, <2>5 DEF RxOK
<1>7. Input' = Drop(rx.buf, n) \o wire
  <2>1. PICK d : d = Drop(rx.buf, n)
    OBVIOUS
  <2>2. d \in Seq(Nat) /\ rx'.buf = d
    BY <1>3, <1>4, <2>1
  <2>3. Drop(d, 0) = d
    BY <2>2, DropNone
  <2>4. wire' = wire
    BY DEF Proceeds, Stays, Outside
  <2> QED
    BY <1>1, <2>1, <2>2, <2>3, <2>4 DEF Input
<1> QED
  BY <1>1, <1>5, <1>6, <1>7, ProceedKeeps

(* consume() goes on with the next frame in the buffer. *)
LEMMA GoOnKeeps ==
  ASSUME WSInv, consuming, NEW n, NEW w, Proceeds(n, w), w.handshake_complete, GoOn(n, w)
  PROVE  WSInv'
<1>1. /\ rx' = rx /\ consumed' = n /\ consuming' = consuming /\ ws' = w
      /\ writing' = (writing \/ w.write_buf # ws.write_buf)
      /\ failed' = failed /\ in_event' = in_event
  BY DEF GoOn
<1>2. /\ rx \in RxState /\ Len(rx.buf) \in Nat /\ consumed \in Nat
      /\ n \in 0 .. Len(rx.buf) /\ failed = "no"
  BY InputIs DEF WSInv, RxOK, Proceeds
<1>3. FlagsOK'
  <2>1. writing' \in BOOLEAN /\ pollout' = pollout
    BY <1>1, WritingIs DEF Proceeds, Stays, Outside
  <2> QED
    BY <1>1, <1>2, <2>1 DEF WSInv, FlagsOK
<1>4. RxOK'
  <2>1. reads' \in 0 .. max_consecutive_reads
    BY DEF WSInv, RxOK, Proceeds, Stays, Outside
  <2> QED
    BY <1>1, <1>2, <2>1 DEF WSInv, RxOK
<1>5. Input' = Drop(rx.buf, n) \o wire
  BY <1>1 DEF Input, Proceeds, Stays, Outside
<1> QED
  BY <1>1, <1>3, <1>4, <1>5, ProceedKeeps

-----------------------------------------------------------------------------
(* What consume() sees *)

(* A header has at least two bytes. *)
LEMMA DecodeTwo ==
  ASSUME NEW data, Len(data) < 2
  PROVE  decode_header(data) = NoHeader(0)
  BY DEF decode_header

(* What matters of the layers now. *)
LayerNow == LayerOf(ws, Output)

(* The buffer is the beginning of the input, and a frame of the past is in front. *)
LEMMA BufferIs ==
  ASSUME WSInv, consuming_frames
  PROVE  /\ failed = "no" /\ Live(role, ws, Output) /\ LayerNow.hc
         /\ Tracks(PeerKey, PeerNow, LayerNow, Input)
         /\ buffer \in Seq(Bytes) /\ Input \in Seq(Bytes)
         /\ Len(buffer) = Len(rx.buf) - consumed /\ Len(buffer) <= Len(Input)
         /\ \A i \in 1 .. Len(buffer) : Input[i] = buffer[i]
         /\ buffer # <<>> => \E f, m : Front(PeerKey, PeerNow, LayerNow, Input, f, m)
<1>1. failed = "no" /\ ws.handshake_complete
  BY DEF WSInv, FlagsOK, consuming_frames
<1>2. Live(role, ws, Output) /\ Tracks(PeerKey, PeerNow, LayerNow, Input)
  BY <1>1 DEF WSInv, TracksNow, LayerNow
<1>3. LayerNow.hc
  BY <1>1 DEF LayerNow, LayerOf
<1>4. PICK b, a, w : b = rx.buf /\ a = consumed /\ w = wire
  OBVIOUS
<1>5. b \in Seq(Nat) /\ w \in Seq(Nat) /\ a \in 0 .. Len(b) /\ Len(b) \in Nat
  BY <1>4, InputIs DEF WSInv
<1>6. PICK d : d = Drop(b, a)
  OBVIOUS
<1>7. d \in Seq(Nat) /\ Len(d) = Len(b) - a
  <2>1. b \in Seq(Nat) /\ a \in 0 .. Len(b)
    BY <1>5
  <2> QED
    BY <1>6, <2>1, DropFacts
<1>8. buffer = d /\ Input = d \o w
  BY <1>4, <1>6 DEF buffer, Offset, Drop, Input
<1>9. PICK in : in = Input
  OBVIOUS
<1>10. in \in Seq(Nat) /\ Len(in) = Len(d) + Len(w) /\ \A i \in 1 .. Len(d) : in[i] = d[i]
  <2>1. d \in Seq(Nat) /\ w \in Seq(Nat)
    BY <1>5, <1>7
  <2>2. /\ d \o w \in Seq(Nat) /\ Len(d \o w) = Len(d) + Len(w)
        /\ \A i \in 1 .. Len(d) : (d \o w)[i] = d[i]
    BY <2>1, CatFacts
  <2> QED
    BY <1>8, <1>9, <2>2
<1>11. Input \in Seq(Bytes) /\ (Input # <<>> => \E f, m : Front(PeerKey, PeerNow, LayerNow, Input, f, m))
  BY <1>2, <1>3, KeysAre, TracksFront
<1>12. PICK n \in Nat, k \in Nat : n = Len(d) /\ k = Len(w)
  <2>1. d \in Seq(Nat) /\ w \in Seq(Nat)
    BY <1>5, <1>7
  <2> QED
    BY <2>1
<1>13. in \in Seq(Bytes) /\ Len(in) = n + k
  <2>1. in \in Seq(Bytes)
    BY <1>9, <1>11
  <2>2. Len(in) = n + k
    BY <1>10, <1>12
  <2> QED
    BY <2>1, <2>2
<1>14. d \in [1 .. n -> Bytes]
  <2>1. d \in [1 .. n -> Nat]
    BY <1>7, <1>12
  <2>2. \A i \in 1 .. n : in[i] \in Bytes
    <3> TAKE i \in 1 .. n
    <3>1. i \in 1 .. Len(in)
      BY <1>13
    <3> QED
      BY <1>13, <3>1
  <2>3. \A i \in 1 .. n : d[i] \in Bytes
    BY <1>10, <1>12, <2>2
  <2> QED
    BY <2>1, <2>3
<1>15. d \in Seq(Bytes)
  BY <1>14, FunSeq
<1>16. Len(d) <= Len(in)
  BY <1>12, <1>13
<1>17. d # <<>> => Input # <<>>
  <2>1. d # <<>> => Len(d) # 0
    BY <1>7
  <2>2. d # <<>> => Len(in) # 0
    BY <1>12, <1>13, <2>1
  <2> QED
    BY <1>9, <2>2
<1>18. Len(d) = Len(rx.buf) - consumed
  BY <1>4, <1>7
<1> QED
  BY <1>1, <1>2, <1>3, <1>8, <1>9, <1>10, <1>11, <1>15, <1>16, <1>17, <1>18

(* The header of the frame f, as decode_header returns it. *)
Decoded(key, f) ==
  [bytes |-> Len(HeadOf(key, f.kind)), fin |-> f.kind.flags >= 128, opcode |-> f.kind.opcode,
   mask_key |-> key, payload_len |-> f.kind.len]

(* consume() sees the header of f. *)
Sees(f, m) ==
  /\ Front(PeerKey, PeerNow, LayerNow, Input, f, m)
  /\ Len(HeadOf(PeerKey, f.kind)) <= Len(buffer)
  /\ \/ /\ decode_header(buffer).bytes = -1
        /\ f.kind.flags \notin {0, fin_flag} \/ f.kind.opcode \notin opcodes
     \/ /\ decode_header(buffer) = Decoded(PeerKey, f)
        /\ f.kind.flags \in {0, fin_flag} /\ f.kind.opcode \in opcodes

(* A header that decode_header accepts or rejects is the one that the peer wrote. *)
LEMMA SeesHeader ==
  ASSUME WSInv, consuming_frames, decode_header(buffer).bytes # 0
  PROVE  \E f, m : Sees(f, m)
<1>1. PICK b, in, key : b = buffer /\ in = Input /\ key = PeerKey
  OBVIOUS
<1>2. /\ b \in Seq(Bytes) /\ in \in Seq(Bytes) /\ Len(b) \in Nat /\ Len(in) \in Nat
      /\ Len(b) <= Len(in) /\ \A i \in 1 .. Len(b) : in[i] = b[i]
  BY <1>1, BufferIs
<1>3. b # <<>>
  <2>1. ~(Len(b) < 2)
    <3>1. NoHeader(0).bytes = 0
      BY DEF NoHeader
    <3>2. decode_header(b).bytes # 0
      BY <1>1
    <3> QED
      BY <3>1, <3>2, DecodeTwo
  <2> QED
    BY <2>1
<1>4. PICK f, m : Front(PeerKey, PeerNow, LayerNow, Input, f, m)
  BY <1>1, <1>3, BufferIs
<1>5. f \in FrameRec /\ f.kind \in FrameKinds /\ key \in 0 .. INT32_MAX
  BY <1>1, <1>4, KeysAre DEF Front, FrameRec
<1>6. PICK h : h = HeadOf(key, f.kind) /\ h \in Seq(Bytes) /\ Len(h) \in Nat
  BY <1>5, HeadFacts
<1>7. \A i \in 1 .. Len(h) : in[i] = h[i]
  <2>1. PICK u : u = FrameBytes(key, f)
    OBVIOUS
  <2>2. Len(u) = Len(h) + Len(f.data) /\ \A i \in 1 .. Len(h) : u[i] = h[i]
    BY <1>5, <1>6, <2>1, FrameFacts
  <2>3. \A j \in 1 .. Len(u) : in[0 + j] = u[j]
    BY <1>1, <1>4, <2>1 DEF Front, Stands
  <2>4. Len(f.data) \in Nat
    BY <1>5 DEF FrameRec
  <2> TAKE i \in 1 .. Len(h)
  <2>5. PICK x \in Nat, y \in Nat : x = Len(h) /\ y = Len(f.data) /\ Len(u) = x + y
    BY <1>6, <2>2, <2>4
  <2>6. i \in 1 .. (x + y) /\ 0 + i = i
    BY <2>5
  <2> QED
    BY <2>2, <2>3, <2>5, <2>6
<1>8. Begins(b, h)
  <2>1. \A i \in 1 .. Len(h) : i <= Len(b) => b[i] = h[i]
    <3> TAKE i \in 1 .. Len(h)
    <3>1. i <= Len(b) => i \in 1 .. Len(b)
      BY <1>2
    <3> QED
      BY <1>2, <1>7, <3>1
  <2> QED
    BY <1>2, <1>6, <2>1 DEF Begins
<1>9. decode_header(b) =
        IF Len(b) < Len(h) THEN NoHeader(0)
        ELSE IF f.kind.flags \notin {0, fin_flag} \/ f.kind.opcode \notin opcodes THEN NoHeader(-1)
        ELSE Decoded(key, f)
  BY <1>5, <1>6, <1>8, DecodeKind DEF Decoded
<1>10. NoHeader(0).bytes = 0 /\ NoHeader(-1).bytes = -1
  BY DEF NoHeader
<1>11. Len(h) <= Len(b)
  <2>1. ~(Len(b) < Len(h))
    BY <1>1, <1>9, <1>10
  <2> QED
    BY <1>2, <1>6, <2>1
<1>12. ~(Len(b) < Len(h))
  BY <1>2, <1>6, <1>11
<1>13. Sees(f, m)
  BY <1>1, <1>4, <1>6, <1>9, <1>10, <1>11, <1>12, Zenon DEF Sees
<1> QED
  BY <1>13

(* Only a peer that broke the rules sends an improper frame. *)
LEMMA ImproperFront ==
  ASSUME NEW f, NEW m, Front(PeerKey, PeerNow, LayerNow, Input, f, m),
         ~Proper(PeerKey, m.open, f.kind)
  PROVE  conduct # "proper"
<1>1. PeerNow.conduct # "proper"
  BY DEF Front
<1> QED
  BY <1>1 DEF PeerNow

(* Nothing was consumed. *)
LEMMA Unmoved ==
  ASSUME WSInv, consuming_frames, UNCHANGED Outside
  PROVE  Stays(ws) /\ Proceeds(consumed, ws) /\ consumed \in Nat
         /\ got \o ws.write_buf = Output
<1>1. Output = got \o ws.write_buf
  BY DEF Output
<1>2. Stays(ws)
  BY <1>1 DEF WSInv, Stays
<1>3. consumed \in consumed .. Len(rx.buf) /\ consumed - consumed = 0 /\ consumed \in Nat
  BY InputIs DEF WSInv
<1>4. Drop(Input, 0) = Input
  BY BufferIs, DropNone
<1>5. Proceeds(consumed, ws)
  BY <1>1, <1>2, <1>3, <1>4, BufferIs DEF Proceeds, LayerNow
<1> QED
  BY <1>1, <1>2, <1>3, <1>5

(* consume() without a complete frame: more bytes, or a protocol error. *)
LEMMA ConsumeNoFrameKeeps ==
  ASSUME WSInv, ConsumeNoFrame
  PROVE  WSInv'
<1>1. PICK hdr : hdr = decode_header(buffer)
  OBVIOUS
<1>2. /\ consuming_frames /\ UNCHANGED Outside
      /\ \/ hdr.bytes < 0 /\ Fail("protocol", ws)
         \/ hdr.bytes = 0 /\ Return(consumed, up_to(receive_size), ws)
         \/ hdr.bytes > 0 /\ Exceeds(hdr) /\ Fail("protocol", ws)
         \/ /\ hdr.bytes > 0 /\ ~Exceeds(hdr) /\ IsIncomplete(hdr)
            /\ Return(consumed, Needed(hdr), ws)
  BY <1>1 DEF ConsumeNoFrame
<1>3. /\ Stays(ws) /\ Proceeds(consumed, ws) /\ consumed \in Nat /\ ws.handshake_complete
  BY <1>2, Unmoved DEF consuming_frames
<1>4. PICK l \in Nat : l = Len(buffer) /\ l = Len(rx.buf) - consumed
  BY <1>2, BufferIs
<1>5. CASE hdr.bytes < 0 /\ Fail("protocol", ws)
  <2>1. PICK f, m : Sees(f, m)
    BY <1>1, <1>2, <1>5, SeesHeader
  <2>2. f.kind \in FrameKinds /\ PeerKey \in 0 .. INT32_MAX
    BY <2>1, KeysAre DEF Sees, Front, FrameRec
  <2>3. hdr # Decoded(PeerKey, f)
    <3>1. Len(HeadOf(PeerKey, f.kind)) \in Nat
      BY <2>2, HeadFacts
    <3>2. Decoded(PeerKey, f).bytes = Len(HeadOf(PeerKey, f.kind))
      BY DEF Decoded
    <3> QED
      BY <1>5, <3>1, <3>2
  <2>4. ~Proper(PeerKey, m.open, f.kind)
    BY <1>1, <2>1, <2>3 DEF Sees, Proper
  <2>5. conduct # "proper"
    BY <2>1, <2>4, ImproperFront DEF Sees
  <2> QED
    BY <1>3, <1>5, <2>5, FailKeeps
<1>6. CASE hdr.bytes = 0 /\ Return(consumed, up_to(receive_size), ws)
  <2>1. l < 14
    BY <1>1, <1>4, <1>6, DecodeShort
  <2>2. Len(rx.buf) - consumed < receive_size /\ 1 <= receive_size /\ receive_size \in Nat
    BY <1>4, <2>1, ConstantsAre
  <2>3. Return(consumed, between(1, receive_size), ws)
    BY <1>6 DEF up_to
  <2>4. 1 \in Nat
    OBVIOUS
  <2> QED
    BY <1>3, <2>2, <2>3, <2>4, ReturnKeeps
<1>7. ASSUME hdr.bytes > 0
      PROVE  \E f, m, n, k :
               /\ Front(PeerKey, PeerNow, LayerNow, Input, f, m)
               /\ n \in Nat /\ n = Len(HeadOf(PeerKey, f.kind)) /\ k \in Nat /\ k = f.kind.len
               /\ hdr.bytes = n /\ hdr.payload_len = k
  <2>1. PICK f, m : Sees(f, m)
    BY <1>1, <1>2, <1>7, SeesHeader
  <2>2. f.kind \in FrameKinds /\ PeerKey \in 0 .. INT32_MAX
    BY <2>1, KeysAre DEF Sees, Front, FrameRec
  <2>3. hdr = Decoded(PeerKey, f)
    BY <1>1, <1>7, <2>1 DEF Sees
  <2>4. Len(HeadOf(PeerKey, f.kind)) \in Nat /\ f.kind.len \in Nat
    BY <2>2, HeadFacts, KindFacts, MaxIs
  <2>5. hdr.bytes = Len(HeadOf(PeerKey, f.kind)) /\ hdr.payload_len = f.kind.len
    BY <2>3 DEF Decoded
  <2> QED
    BY <2>1, <2>4, <2>5 DEF Sees
<1>8. CASE hdr.bytes > 0 /\ Exceeds(hdr) /\ Fail("protocol", ws)
  <2>1. PICK f, m, n, k :
          /\ Front(PeerKey, PeerNow, LayerNow, Input, f, m)
          /\ n \in Nat /\ n = Len(HeadOf(PeerKey, f.kind)) /\ k \in Nat /\ k = f.kind.len
          /\ hdr.bytes = n /\ hdr.payload_len = k
    BY <1>7, <1>8
  <2>0. hdr.bytes = n /\ hdr.payload_len = k
    BY <2>1
  <2>2. k >= max_frame_size - n
    BY <1>8, <2>0 DEF Exceeds
  <2>3. ~(k < max_frame_size - n)
    BY <2>1, <2>2, ConstantsAre
  <2>4. ~Proper(PeerKey, m.open, f.kind)
    BY <2>1, <2>3 DEF Proper
  <2>5. conduct # "proper"
    BY <2>1, <2>4, ImproperFront
  <2> QED
    BY <1>3, <1>8, <2>5, FailKeeps
<1>9. CASE /\ hdr.bytes > 0 /\ ~Exceeds(hdr) /\ IsIncomplete(hdr)
           /\ Return(consumed, Needed(hdr), ws)
  <2>1. PICK n \in Nat, k \in Nat : hdr.bytes = n /\ hdr.payload_len = k
    BY <1>7, <1>9
  <2>2. l < n + k
    BY <1>4, <1>9, <2>1 DEF IsIncomplete
  <2>3. Return(consumed, between(n + k, n + k), ws) /\ n + k \in Nat
    BY <1>9, <2>1 DEF Needed, exactly
  <2>4. Len(rx.buf) - consumed < n + k /\ n + k <= n + k
    BY <1>4, <2>2, <2>3
  <2> QED
    BY <1>3, <2>3, <2>4, ReturnKeeps
<1> QED
  BY <1>2, <1>5, <1>6, <1>8, <1>9

-----------------------------------------------------------------------------
(* A complete frame *)

(* The frame f can be read and is complete. *)
Ahead(f, m) ==
  /\ Front(PeerKey, PeerNow, LayerNow, Input, f, m)
  /\ f.kind.flags \in {0, fin_flag} /\ f.kind.opcode \in opcodes
  /\ f.kind.len < max_frame_size - Len(HeadOf(PeerKey, f.kind))
  /\ Len(f.data) = f.kind.len
  /\ Len(FrameBytes(PeerKey, f)) \in Nat /\ Len(FrameBytes(PeerKey, f)) <= Len(buffer)

(* The checks of consume() before it joins a fragment. *)
FragmentOK(f) ==
  /\ (ws.opcode = nil_code) # (f.kind.opcode = continuation_frame)
  /\ ws.opcode = nil_code \/ Len(ws.payload_buf \o f.data) <= max_frame_size

(* The branches of ConsumeFrame for the frame f. *)
HandlesMessage(f, accept, key) ==
  /\ f.kind.flags = fin_flag /\ ws.opcode = nil_code
  /\ handle(f.kind.opcode, f.data, Len(FrameBytes(PeerKey, f)), ws, accept, key)

HandlesLast(f, accept, key) ==
  /\ f.kind.flags = fin_flag /\ ws.opcode # nil_code /\ FragmentOK(f)
  /\ handle(ws.opcode, ws.payload_buf \o f.data, Len(FrameBytes(PeerKey, f)), Reset(ws), accept, key)

HandlesFragment(f) ==
  /\ f.kind.flags # fin_flag /\ FragmentOK(f)
  /\ Advance(Len(FrameBytes(PeerKey, f)),
             [ws EXCEPT !.opcode = IF ws.opcode = nil_code THEN f.kind.opcode ELSE @,
                        !.payload_buf = ws.payload_buf \o f.data])

HandlesBad(f) ==
  /\ ~(f.kind.flags = fin_flag /\ ws.opcode = nil_code) /\ ~FragmentOK(f)
  /\ Fail("protocol", ws) /\ UNCHANGED Outside

(* consume() with a complete frame sees a frame of the past, unmasked. *)
LEMMA FrameSeen ==
  ASSUME WSInv, NEW accept, NEW key, ConsumeFrame(accept, key)
  PROVE  \E f, m :
           /\ Ahead(f, m)
           /\ \/ HandlesMessage(f, accept, key) \/ HandlesLast(f, accept, key)
              \/ HandlesFragment(f) \/ HandlesBad(f)
<1>1. PICK hdr : hdr = decode_header(buffer)
  OBVIOUS
<1>2. consuming_frames /\ hdr.bytes > 0 /\ ~Exceeds(hdr) /\ ~IsIncomplete(hdr)
  BY <1>1 DEF ConsumeFrame
<1>3. PICK f, m : Sees(f, m)
  BY <1>1, <1>2, SeesHeader
<1>4. f \in FrameRec /\ f.kind \in FrameKinds /\ f.data \in Seq(Bytes) /\ PeerKey \in 0 .. INT32_MAX
  BY <1>3, KeysAre DEF Sees, Front, FrameRec
<1>5. hdr = Decoded(PeerKey, f) /\ f.kind.flags \in {0, fin_flag} /\ f.kind.opcode \in opcodes
  BY <1>1, <1>2, <1>3 DEF Sees
<1>6. PICK h, n, k, d : /\ h = HeadOf(PeerKey, f.kind) /\ n = Len(h) /\ k = f.kind.len /\ d = f.data
  OBVIOUS
<1>7. n \in Nat /\ k \in Nat /\ h \in Seq(Bytes) /\ d \in Seq(Bytes)
  BY <1>4, <1>6, HeadFacts, KindFacts, MaxIs
<1>8. /\ hdr.bytes = n /\ hdr.payload_len = k /\ hdr.fin = (f.kind.flags >= 128)
      /\ hdr.opcode = f.kind.opcode /\ hdr.mask_key = PeerKey
  BY <1>5, <1>6 DEF Decoded
<1>9. k < max_frame_size - n
  BY <1>2, <1>7, <1>8, ConstantsAre DEF Exceeds
<1>10. Len(d) = k
  <2>1. k <= MaxPayload
    BY <1>7, <1>9, ConstantsAre
  <2> QED
    BY <1>4, <1>6, <2>1 DEF FrameRec
<1>11. PICK b, l : b = buffer /\ l = Len(buffer) /\ l \in Nat
  <2>1. Len(buffer) \in Nat
    BY <1>2, BufferIs
  <2> QED
    BY <2>1
<1>12. n + k <= l
  BY <1>2, <1>7, <1>8, <1>11 DEF IsIncomplete
<1>13. PICK u : u = FrameBytes(PeerKey, f)
  OBVIOUS
<1>14. Len(u) = n + k /\ u \in Seq(Bytes) /\ \A i \in 1 .. k : u[n + i] = mask_data(PeerKey, d)[i]
  BY <1>4, <1>6, <1>10, <1>13, FrameFacts
<1>15. Ahead(f, m)
  <2>1. Len(u) \in Nat /\ Len(u) <= Len(buffer)
    BY <1>7, <1>11, <1>12, <1>14
  <2> QED
    BY <1>3, <1>5, <1>6, <1>9, <1>10, <1>13, <2>1 DEF Ahead, Sees
<1>16. mask_data(PeerKey, SubSeq(buffer, n + 1, n + k)) = d
  <2>1. PICK x : x = mask_data(PeerKey, d)
    OBVIOUS
  <2>2. x \in Seq(Bytes) /\ Len(x) = k /\ mask_data(PeerKey, x) = d
    <3>1. x \in Seq(Bytes) /\ Len(x) = Len(d) /\ mask_data(PeerKey, x) = d
      BY <1>4, <1>7, <2>1, MaskFacts
    <3> QED
      BY <1>10, <3>1
  <2>3. b \in Seq(Bytes) /\ Len(b) = l
    BY <1>2, <1>11, BufferIs
  <2>4. PICK y : y = SubSeq(b, n + 1, n + k)
    OBVIOUS
  <2>5. y \in Seq(Bytes) /\ Len(y) = k /\ \A i \in 1 .. k : y[i] = b[n + i]
    <3>1. /\ n + 1 \in Nat /\ n + k \in Nat /\ n + 1 >= 1 /\ n + k >= (n + 1) - 1 /\ n + k <= Len(b)
          /\ (n + k) - (n + 1) + 1 = k
      BY <1>7, <1>12, <2>3
    <3>2. b \in Seq(Bytes)
      BY <2>3
    <3>3. /\ y \in Seq(Bytes) /\ Len(y) = (n + k) - (n + 1) + 1
          /\ \A i \in 1 .. ((n + k) - (n + 1) + 1) : y[i] = b[i + (n + 1) - 1]
      BY <2>4, <3>1, <3>2, SubFacts
    <3>4. \A i \in 1 .. k : i + (n + 1) - 1 = n + i
      BY <1>7
    <3> QED
      BY <3>1, <3>3, <3>4
  <2>6. \A i \in 1 .. k : b[n + i] = x[i]
    <3> TAKE i \in 1 .. k
    <3>1. n + i \in 1 .. (n + k) /\ n + i \in 1 .. l
      <4>1. l \in Nat
        BY <1>11
      <4> QED
        BY <1>7, <1>12, <4>1
    <3>2. Input[n + i] = b[n + i]
      BY <1>2, <1>11, <3>1, BufferIs
    <3>3. \A j \in 1 .. Len(u) : Input[0 + j] = u[j]
      BY <1>3, <1>13 DEF Sees, Front, Stands
    <3>4. 0 + (n + i) = n + i
      BY <1>7
    <3>5. Input[n + i] = u[n + i]
      <4>1. PICK j : j = n + i
        OBVIOUS
      <4>2. j \in 1 .. Len(u) /\ 0 + j = j
        BY <1>14, <3>1, <3>4, <4>1
      <4> QED
        BY <3>3, <4>1, <4>2
    <3> QED
      BY <1>14, <2>1, <3>2, <3>5
  <2>7. x = y
    BY <2>2, <2>5, <2>6, SeqEqual
  <2> QED
    BY <1>11, <2>2, <2>4, <2>7
<1>17. hdr.fin <=> f.kind.flags = fin_flag
  <2>1. f.kind.flags >= 128 <=> f.kind.flags = fin_flag
    BY <1>5 DEF fin_flag
  <2> QED
    BY <1>8, <2>1, Zenon
<1>18. mask_data(hdr.mask_key, SubSeq(buffer, hdr.bytes + 1, hdr.bytes + hdr.payload_len)) = f.data
  BY <1>6, <1>8, <1>16
<1>19. hdr.bytes + hdr.payload_len = Len(FrameBytes(PeerKey, f))
  BY <1>8, <1>13, <1>14
<1>20. PICK size : size = Len(FrameBytes(PeerKey, f))
  OBVIOUS
<1>21. PICK payload : payload = f.data
  OBVIOUS
<1>22. \/ hdr.fin /\ ws.opcode = nil_code /\ handle(hdr.opcode, payload, size, ws, accept, key)
       \/ hdr.fin /\ ~(ws.opcode = nil_code) /\ FragmentOK(f)
            /\ handle(ws.opcode, ws.payload_buf \o payload, size, Reset(ws), accept, key)
       \/ ~hdr.fin /\ FragmentOK(f)
            /\ Advance(size, [ws EXCEPT !.opcode = IF ws.opcode = nil_code THEN hdr.opcode ELSE @,
                                        !.payload_buf = ws.payload_buf \o payload])
       \/ ~(hdr.fin /\ ws.opcode = nil_code) /\ ~FragmentOK(f)
            /\ Fail("protocol", ws) /\ UNCHANGED Outside
  BY <1>1, <1>8, <1>18, <1>19, <1>20, <1>21, Zenon DEF ConsumeFrame, FragmentOK
<1>23. \/ HandlesMessage(f, accept, key) \/ HandlesLast(f, accept, key)
       \/ HandlesFragment(f) \/ HandlesBad(f)
  BY <1>8, <1>17, <1>20, <1>21, <1>22, Zenon DEF HandlesMessage, HandlesLast, HandlesFragment, HandlesBad
<1> QED
  BY <1>15, <1>23

(* The layers once the application is attached. *)
LEMMA AttachedOK ==
  ASSUME NEW r, NEW u \in Layers, NEW out \in Seq(Unit), NEW snt, NEW png,
         u.handshake_complete, Attached(u), out # <<>>, out[1] = FirstUnit(r),
         Answers(out, png), IsPre(u.delivered, snt)
  PROVE  LayersOK(r, u, out, snt, png) /\ Live(r, u, out)
  BY Zenon DEF LayersOK, Live

(* The layers while consume() looks for frames. *)
LEMMA NowFacts ==
  ASSUME WSInv, consuming_frames
  PROVE  /\ ws \in Layers /\ ws.handshake_complete /\ Attached(ws)
         /\ Output \in Seq(Unit) /\ Output # <<>> /\ Output[1] = FirstUnit(role)
         /\ Answers(Output, pings) /\ IsPre(ws.delivered, sent)
         /\ Output = got \o ws.write_buf /\ got \in Seq(Unit) /\ ws.write_buf \in Seq(Unit)
         /\ ws.delivered \in Seq(Message) /\ ws.payload_buf \in Seq(Bytes)
<1>1. Live(role, ws, Output) /\ ws.handshake_complete
  BY BufferIs DEF consuming_frames
<1>2. Attached(ws)
  BY <1>1, Zenon DEF Live
<1>3. LayersOK(role, ws, Output, sent, pings) /\ got \in Seq(Unit)
  BY DEF WSInv
<1>4. /\ ws \in Layers /\ Output \in Seq(Unit) /\ Output # <<>> /\ Output[1] = FirstUnit(role)
      /\ Answers(Output, pings) /\ IsPre(ws.delivered, sent)
  BY <1>1, <1>3, Zenon DEF LayersOK
<1>5. ws.write_buf \in Seq(Unit) /\ ws.delivered \in Seq(Message) /\ ws.payload_buf \in Seq(Bytes)
  BY <1>4 DEF Layers
<1> QED
  BY <1>1, <1>2, <1>3, <1>4, <1>5 DEF Output

(* The layers are where the peer was before the frame in front. *)
LEMMA SyncedNow ==
  ASSUME NEW f, NEW m, Front(PeerKey, PeerNow, LayerNow, Input, f, m)
  PROVE  /\ m \in Mark /\ m.open \in Opens /\ m.sent \in Seq(Message) /\ m.pings \in Seq(Seq(Bytes))
         /\ f.kind \in FrameKinds /\ f.data \in Seq(Bytes)
         /\ ws.opcode = m.open.opcode /\ ws.payload_buf = m.open.payload
         /\ ws.delivered = m.sent /\ Len(Output) = 1 + Len(m.pings)
<1>1. m \in Mark /\ f \in FrameRec /\ Synced(LayerNow, m)
  BY DEF Front
<1>2. /\ LayerNow.opcode = ws.opcode /\ LayerNow.payload_buf = ws.payload_buf
      /\ LayerNow.delivered = ws.delivered /\ LayerNow.units = Len(Output)
  BY DEF LayerNow, LayerOf
<1>3. m.open \in Opens /\ m.sent \in Seq(Message) /\ m.pings \in Seq(Seq(Bytes))
  BY <1>1 DEF Mark
<1>4. f.kind \in FrameKinds /\ f.data \in Seq(Bytes)
  BY <1>1 DEF FrameRec
<1> QED
  BY <1>1, <1>2, <1>3, <1>4 DEF Synced

(* The state of the peer after f, and where the input goes on. *)
After(f, m, n) ==
  /\ n \in Mark /\ Follows(m, f, n) /\ IsPre(n.sent, sent) /\ IsPre(n.pings, pings)
  /\ \A k : k.hc /\ Synced(k, n) =>
       Tracks(PeerKey, PeerNow, k, Drop(Input, Len(FrameBytes(PeerKey, f))))

(* Behind a proper frame the layers can follow the peer. *)
LEMMA ProperFront ==
  ASSUME NEW f, NEW m, Front(PeerKey, PeerNow, LayerNow, Input, f, m),
         Proper(PeerKey, m.open, f.kind)
  PROVE  \E n : After(f, m, n)
<1>1. PICK n \in Mark :
        /\ Follows(m, f, n) /\ IsPre(n.sent, PeerNow.sent) /\ IsPre(n.pings, PeerNow.pings)
        /\ \A k : k.hc /\ Synced(k, n) =>
             Tracks(PeerKey, PeerNow, k, Drop(Input, Len(FrameBytes(PeerKey, f))))
  BY Zenon DEF Front
<1>2. PeerNow.sent = sent /\ PeerNow.pings = pings
  BY DEF PeerNow
<1>3. After(f, m, n)
  BY <1>1, <1>2, Zenon DEF After
<1> QED
  BY <1>3

(* Going on behind a frame keeps the invariant. *)
LEMMA AdvanceKeeps ==
  ASSUME WSInv, consuming_frames, NEW f, NEW m, Ahead(f, m), NEW w \in Layers, NEW out,
         out = got \o w.write_buf, w.handshake_complete, Attached(w),
         LayersOK(role, w, out, sent, pings),
         Tracks(PeerKey, PeerNow, LayerOf(w, out), Drop(Input, Len(FrameBytes(PeerKey, f)))),
         Advance(Len(FrameBytes(PeerKey, f)), w)
  PROVE  WSInv'
<1>1. PICK z \in Nat : z = Len(FrameBytes(PeerKey, f)) /\ z <= Len(buffer)
  BY DEF Ahead
<1>2. PICK a, l : a = consumed /\ l = Len(rx.buf)
  OBVIOUS
<1>3. a \in Nat /\ l \in Nat /\ Len(buffer) = l - a /\ failed = "no" /\ consuming
  BY <1>2, BufferIs, InputIs DEF WSInv, consuming_frames
<1>4. a + z \in a .. l /\ (a + z) - a = z
  BY <1>1, <1>3
<1>5. Stays(w)
  BY DEF Stays, Advance
<1>6. Live(role, w, out)
  BY Zenon DEF Live
<1>7. Proceeds(consumed + z, w)
  <2>1. consumed + z \in consumed .. Len(rx.buf) /\ (consumed + z) - consumed = z
    BY <1>2, <1>4
  <2> QED
    BY <1>1, <1>3, <1>5, <1>6, <2>1 DEF Proceeds
<1>8. IF z = Len(buffer) THEN Return(consumed + z, up_to(receive_size), w) ELSE GoOn(consumed + z, w)
  BY <1>1 DEF Advance
<1>9. CASE z = Len(buffer)
  <2>1. Return(consumed + z, between(1, receive_size), w)
    BY <1>8, <1>9 DEF up_to
  <2>2. 1 \in Nat /\ receive_size \in Nat /\ 1 <= receive_size
    BY ConstantsAre
  <2>3. l - (a + z) < receive_size
    BY <1>1, <1>3, <1>9, ConstantsAre
  <2>4. Len(rx.buf) - (consumed + z) < receive_size
    BY <1>2, <2>3
  <2> QED
    BY <1>7, <2>1, <2>2, <2>4, ReturnKeeps
<1>10. CASE z # Len(buffer)
  <2>1. GoOn(consumed + z, w)
    BY <1>8, <1>10
  <2> QED
    BY <1>3, <1>7, <2>1, GoOnKeeps
<1> QED
  BY <1>9, <1>10

(* Layers that follow the peer track the past behind the frame. *)
LEMMA LayerTracks ==
  ASSUME NEW f, NEW m, NEW n, After(f, m, n), NEW w, NEW out, w.handshake_complete,
         w.opcode = n.open.opcode, w.payload_buf = n.open.payload, w.delivered = n.sent,
         Len(out) = 1 + Len(n.pings)
  PROVE  Tracks(PeerKey, PeerNow, LayerOf(w, out), Drop(Input, Len(FrameBytes(PeerKey, f))))
<1>1. PICK k : k = LayerOf(w, out)
  OBVIOUS
<1>2. /\ k.hc = w.handshake_complete /\ k.opcode = w.opcode /\ k.payload_buf = w.payload_buf
      /\ k.delivered = w.delivered /\ k.units = Len(out)
  BY <1>1 DEF LayerOf
<1>3. k.hc /\ Synced(k, n)
  BY <1>2 DEF Synced
<1> QED
  BY <1>1, <1>3, Zenon DEF After

(* The frame f completes the message e; u is the state of the layers but   *)
(* for the delivery.                                                       *)
Completes(f, m, n, u, e) ==
  /\ Ahead(f, m) /\ After(f, m, n)
  /\ u \in Layers /\ u.handshake_complete /\ u.app = ws.app /\ u.write_buf = ws.write_buf
  /\ u.opcode = n.open.opcode /\ u.payload_buf = n.open.payload /\ u.delivered = ws.delivered
  /\ e \in Message /\ n.sent = Append(ws.delivered, e) /\ n.pings = m.pings

(* A complete message is the next one that the peer sent. *)
LEMMA DeliverKeeps ==
  ASSUME WSInv, consuming_frames, NEW f, NEW m, NEW n, NEW u, NEW e, Completes(f, m, n, u, e),
         NEW w, w = [u EXCEPT !.delivered = Append(@, e)],
         \/ Advance(Len(FrameBytes(PeerKey, f)), w)
         \/ Fail("application", w) /\ UNCHANGED Outside
  PROVE  WSInv'
<1>0. /\ Ahead(f, m) /\ After(f, m, n)
      /\ u \in Layers /\ u.handshake_complete /\ u.app = ws.app /\ u.write_buf = ws.write_buf
      /\ u.opcode = n.open.opcode /\ u.payload_buf = n.open.payload /\ u.delivered = ws.delivered
      /\ e \in Message /\ n.sent = Append(ws.delivered, e) /\ n.pings = m.pings
  BY DEF Completes
<1>1. /\ w \in Layers /\ w.handshake_complete /\ w.app = ws.app /\ w.write_buf = ws.write_buf
      /\ w.opcode = n.open.opcode /\ w.payload_buf = n.open.payload /\ w.delivered = n.sent
  <2>1. Append(u.delivered, e) \in Seq(Message)
    <3>1. u.delivered \in Seq(Message)
      BY <1>0 DEF Layers
    <3> QED
      BY <1>0, <3>1, AppendIn
  <2>2. w.handshake_complete = u.handshake_complete /\ w.delivered = Append(u.delivered, e)
    BY <1>0 DEF Layers
  <2>3. w \in Layers
    BY <1>0, <2>1 DEF Layers
  <2>4. w.app = u.app /\ w.write_buf = u.write_buf /\ w.opcode = u.opcode /\ w.payload_buf = u.payload_buf
    BY <1>0 DEF Layers
  <2> QED
    BY <1>0, <2>2, <2>3, <2>4
<1>2. Attached(w)
  BY <1>1, NowFacts DEF Attached
<1>3. Output = got \o w.write_buf
  BY <1>1, NowFacts
<1>4. LayersOK(role, w, Output, sent, pings)
  <2>1. IsPre(w.delivered, sent)
    BY <1>0, <1>1 DEF After
  <2> QED
    BY <1>1, <1>2, <2>1, NowFacts, AttachedOK
<1>5. Tracks(PeerKey, PeerNow, LayerOf(w, Output), Drop(Input, Len(FrameBytes(PeerKey, f))))
  <2>1. Len(Output) = 1 + Len(n.pings)
    BY <1>0, SyncedNow DEF Ahead
  <2> QED
    BY <1>0, <1>1, <2>1, LayerTracks
<1>6. CASE Advance(Len(FrameBytes(PeerKey, f)), w)
  BY <1>0, <1>1, <1>2, <1>3, <1>4, <1>5, <1>6, AdvanceKeeps
<1>7. CASE Fail("application", w) /\ UNCHANGED Outside
  <2>1. Stays(w)
    BY <1>3, <1>4, <1>7 DEF Stays
  <2> QED
    BY <1>7, <2>1, FailKeeps
<1> QED
  BY <1>6, <1>7

(* The opcodes and the flag, as numbers. *)
LEMMA Codes ==
  /\ continuation_frame = 0 /\ text_frame = 1 /\ binary_frame = 2 /\ connection_close = 8
  /\ ping = 9 /\ pong = 10 /\ nil_code = 255 /\ fin_flag = 128
  /\ opcodes = {0, 1, 2, 8, 9, 10}
  BY DEF continuation_frame, text_frame, binary_frame, connection_close, ping, pong,
         nil_code, fin_flag, opcodes

(* A message in one frame. *)
LEMMA MessageKeeps ==
  ASSUME WSInv, consuming_frames, NEW f, NEW m, Ahead(f, m), NEW accept \in BOOLEAN,
         f.kind.flags = fin_flag, ws.opcode = nil_code, f.kind.opcode \in {text_frame, binary_frame},
         NEW w, w = [ws EXCEPT !.delivered = Append(@, [opcode |-> f.kind.opcode, payload |-> f.data])],
         IF accept THEN Advance(Len(FrameBytes(PeerKey, f)), w)
         ELSE Fail("application", w) /\ UNCHANGED Outside
  PROVE  WSInv'
<1>1. /\ m.open \in Opens /\ m.open.opcode = nil_code /\ f.data \in Seq(Bytes) /\ f.kind \in FrameKinds
      /\ ws.payload_buf = m.open.payload /\ ws.delivered = m.sent
  BY SyncedNow DEF Ahead
<1>2. m.open.payload = <<>>
  BY <1>1 DEF Opens
<1>3. Proper(PeerKey, m.open, f.kind)
  <2>1. f.kind.len < max_frame_size - Len(HeadOf(PeerKey, f.kind))
    BY DEF Ahead
  <2>2. f.kind.len \in Nat /\ Len(HeadOf(PeerKey, f.kind)) \in Nat
    BY <1>1, KeysAre, HeadFacts, KindFacts
  <2>3. Len(m.open.payload) + f.kind.len <= max_frame_size
    BY <1>2, <2>1, <2>2, ConstantsAre
  <2> QED
    BY <1>1, <2>1, <2>3, Codes DEF Proper
<1>4. PICK n : After(f, m, n)
  BY <1>3, ProperFront DEF Ahead
<1>5. PICK e : e = [opcode |-> f.kind.opcode, payload |-> f.data]
  OBVIOUS
<1>6. e \in Message
  BY <1>1, <1>5, Codes DEF Message
<1>7. Joined(m.open, f) = e
  <2>1. m.open.payload \o f.data = f.data
    BY <1>1, <1>2
  <2> QED
    BY <1>1, <1>5, <2>1 DEF Joined
<1>8. n.pings = m.pings /\ n.open = NoMessage /\ n.sent = Append(m.sent, e)
  BY <1>4, <1>7, Codes DEF After, Follows
<1>9. n.open.opcode = ws.opcode /\ n.open.payload = ws.payload_buf
  BY <1>1, <1>2, <1>8 DEF NoMessage
<1>10. \/ Advance(Len(FrameBytes(PeerKey, f)), w)
       \/ Fail("application", w) /\ UNCHANGED Outside
  BY Zenon
<1>11. w = [ws EXCEPT !.delivered = Append(@, e)]
  BY <1>5
<1>12. ws \in Layers /\ ws.handshake_complete
  BY NowFacts
<1>13. Completes(f, m, n, ws, e)
  BY <1>1, <1>4, <1>6, <1>8, <1>9, <1>12 DEF Completes
<1> QED
  BY <1>10, <1>11, <1>13, DeliverKeeps

(* The last fragment of a message. *)
LEMMA LastKeeps ==
  ASSUME WSInv, consuming_frames, NEW f, NEW m, Ahead(f, m), NEW accept \in BOOLEAN, NEW key,
         HandlesLast(f, accept, key)
  PROVE  WSInv'
<1>1. /\ m.open \in Opens /\ f.data \in Seq(Bytes) /\ f.kind \in FrameKinds
      /\ ws.opcode = m.open.opcode /\ ws.payload_buf = m.open.payload /\ ws.delivered = m.sent
  BY SyncedNow DEF Ahead
<1>2. ws.opcode # nil_code /\ f.kind.flags = fin_flag /\ FragmentOK(f)
  BY DEF HandlesLast
<1>3. ws.opcode \in {text_frame, binary_frame} /\ ws.payload_buf \in Seq(Bytes)
  BY <1>1, <1>2 DEF Opens
<1>4. f.kind.opcode = continuation_frame /\ Len(ws.payload_buf \o f.data) <= max_frame_size
  BY <1>2 DEF FragmentOK
<1>5. Proper(PeerKey, m.open, f.kind)
  <2>1. f.kind.len < max_frame_size - Len(HeadOf(PeerKey, f.kind)) /\ Len(f.data) = f.kind.len
    BY DEF Ahead
  <2>2. Len(ws.payload_buf \o f.data) = Len(ws.payload_buf) + Len(f.data)
    BY <1>1, <1>3, CatFacts
  <2>3. Len(m.open.payload) + f.kind.len <= max_frame_size
    BY <1>1, <1>4, <2>1, <2>2
  <2> QED
    BY <1>1, <1>2, <1>4, <2>1, <2>3, Codes DEF Proper
<1>6. PICK n : After(f, m, n)
  BY <1>5, ProperFront DEF Ahead
<1>7. PICK e : e = [opcode |-> ws.opcode, payload |-> ws.payload_buf \o f.data]
  OBVIOUS
<1>8. e \in Message
  <2>1. ws.payload_buf \o f.data \in Seq(Bytes)
    BY <1>1, <1>3, CatFacts
  <2>2. ws.opcode \in 0 .. 15
    BY <1>3, Codes
  <2> QED
    BY <1>7, <2>1, <2>2 DEF Message
<1>9. Joined(m.open, f) = e
  BY <1>1, <1>2, <1>7 DEF Joined
<1>10. n.pings = m.pings /\ n.open = NoMessage /\ n.sent = Append(ws.delivered, e)
  BY <1>1, <1>2, <1>4, <1>6, <1>9, Codes DEF After, Follows
<1>11. PICK u : u = Reset(ws)
  OBVIOUS
<1>12. /\ u \in Layers /\ u.handshake_complete /\ u.app = ws.app /\ u.write_buf = ws.write_buf
       /\ u.opcode = nil_code /\ u.payload_buf = <<>> /\ u.delivered = ws.delivered
  <2>1. ws \in Layers /\ ws.handshake_complete
    BY NowFacts
  <2>2. u = [ws EXCEPT !.opcode = nil_code, !.payload_buf = <<>>]
    BY <1>11 DEF Reset
  <2>3. <<>> \in Seq(Bytes)
    OBVIOUS
  <2>4. u \in Layers
    BY <2>1, <2>2, <2>3 DEF Layers
  <2>5. u.handshake_complete = ws.handshake_complete
    BY <2>1, <2>2 DEF Layers
  <2>6. /\ u.app = ws.app /\ u.write_buf = ws.write_buf
        /\ u.opcode = nil_code /\ u.payload_buf = <<>> /\ u.delivered = ws.delivered
    BY <2>1, <2>2 DEF Layers
  <2> QED
    BY <2>1, <2>4, <2>5, <2>6
<1>13. Completes(f, m, n, u, e)
  <2>1. n.open.opcode = nil_code /\ n.open.payload = <<>>
    BY <1>10 DEF NoMessage
  <2> QED
    BY <1>6, <1>8, <1>10, <1>12, <2>1 DEF Completes
<1>14. PICK w : w = [u EXCEPT !.delivered = Append(@, e)]
  OBVIOUS
<1>15. handle(ws.opcode, ws.payload_buf \o f.data, Len(FrameBytes(PeerKey, f)), u, accept, key)
  BY <1>11 DEF HandlesLast
<1>16. IF accept THEN Advance(Len(FrameBytes(PeerKey, f)), w)
       ELSE Fail("application", w) /\ UNCHANGED Outside
  <2>1. ws.opcode \notin {ping, pong, continuation_frame, connection_close}
    BY <1>3, Codes
  <2> QED
    BY <1>7, <1>14, <1>15, <2>1, Zenon DEF handle
<1>17. \/ Advance(Len(FrameBytes(PeerKey, f)), w)
       \/ Fail("application", w) /\ UNCHANGED Outside
  BY <1>16, Zenon
<1> QED
  BY <1>13, <1>14, <1>17, DeliverKeeps

(* A fragment that does not fit, or is too much, has a peer to blame. *)
LEMMA BadKeeps ==
  ASSUME WSInv, consuming_frames, NEW f, NEW m, Ahead(f, m), HandlesBad(f)
  PROVE  WSInv'
<1>1. /\ m.open \in Opens /\ f.data \in Seq(Bytes)
      /\ ws.opcode = m.open.opcode /\ ws.payload_buf = m.open.payload
  BY SyncedNow DEF Ahead
<1>2. ~FragmentOK(f) /\ Fail("protocol", ws) /\ UNCHANGED Outside
  BY DEF HandlesBad
<1>3. Len(ws.payload_buf \o f.data) = Len(m.open.payload) + f.kind.len
  <2>1. ws.payload_buf \in Seq(Bytes) /\ Len(f.data) = f.kind.len
    BY <1>1 DEF Opens, Ahead
  <2>2. f.data \in Seq(Bytes) /\ ws.payload_buf \in Seq(Bytes)
    BY <1>1, <2>1
  <2>3. Len(ws.payload_buf \o f.data) = Len(ws.payload_buf) + Len(f.data)
    BY <2>2, CatFacts
  <2> QED
    BY <1>1, <2>1, <2>3
<1>4. ~Proper(PeerKey, m.open, f.kind)
  <2>1. CASE ws.opcode = nil_code
    <3>1. f.kind.opcode = continuation_frame
      BY <1>2, <2>1 DEF FragmentOK
    <3> QED
      BY <1>1, <2>1, <3>1, Codes DEF Proper
  <2>2. CASE ws.opcode # nil_code
    <3>1. f.kind.opcode # continuation_frame \/ ~(Len(m.open.payload) + f.kind.len <= max_frame_size)
      BY <1>2, <1>3, <2>2 DEF FragmentOK
    <3> QED
      BY <1>1, <2>2, <3>1, Codes DEF Proper
  <2> QED
    BY <2>1, <2>2
<1>5. conduct # "proper"
  BY <1>4, ImproperFront DEF Ahead
<1>6. Stays(ws)
  BY <1>2, Unmoved
<1> QED
  BY <1>2, <1>5, <1>6, FailKeeps

(* A fragment that is not the last. *)
LEMMA FragmentKeeps ==
  ASSUME WSInv, consuming_frames, NEW f, NEW m, Ahead(f, m), HandlesFragment(f)
  PROVE  WSInv'
<1>1. /\ m.open \in Opens /\ f.data \in Seq(Bytes) /\ f.kind \in FrameKinds
      /\ ws.opcode = m.open.opcode /\ ws.payload_buf = m.open.payload /\ ws.delivered = m.sent
      /\ Len(Output) = 1 + Len(m.pings) /\ ws.payload_buf \in Seq(Bytes)
  BY SyncedNow, NowFacts DEF Ahead
<1>2. f.kind.flags # fin_flag /\ FragmentOK(f) /\ f.kind.flags \in {0, fin_flag} /\ f.kind.opcode \in opcodes
  BY DEF HandlesFragment, Ahead
<1>3. PICK o, b : o = (IF ws.opcode = nil_code THEN f.kind.opcode ELSE ws.opcode)
                  /\ b = ws.payload_buf \o f.data
  OBVIOUS
<1>4. b \in Seq(Bytes) /\ Len(b) = Len(m.open.payload) + f.kind.len
  <2>1. Len(f.data) = f.kind.len
    BY DEF Ahead
  <2>2. /\ ws.payload_buf \o f.data \in Seq(Bytes)
        /\ Len(ws.payload_buf \o f.data) = Len(ws.payload_buf) + Len(f.data)
    BY <1>1, CatFacts
  <2> QED
    BY <1>1, <1>3, <2>1, <2>2
<1>5. PICK w : w = [ws EXCEPT !.opcode = o, !.payload_buf = b]
  OBVIOUS
<1>6. Advance(Len(FrameBytes(PeerKey, f)), w)
  BY <1>3, <1>5 DEF HandlesFragment
<1>7. o \in 0 .. 15 \cup {nil_code}
  <2>1. ws.opcode \in 0 .. 15 \cup {nil_code}
    BY NowFacts DEF Layers
  <2>2. f.kind.opcode \in 0 .. 15
    BY <1>2, Codes
  <2> QED
    BY <1>3, <2>1, <2>2
<1>8. /\ w \in Layers /\ w.handshake_complete /\ w.app = ws.app /\ w.write_buf = ws.write_buf
      /\ w.opcode = o /\ w.payload_buf = b /\ w.delivered = ws.delivered
  <2>1. ws \in Layers /\ ws.handshake_complete
    BY NowFacts
  <2>2. w \in Layers
    BY <1>4, <1>5, <1>7, <2>1 DEF Layers
  <2>3. w.handshake_complete = ws.handshake_complete
    BY <1>5, <2>1 DEF Layers
  <2>4. /\ w.app = ws.app /\ w.write_buf = ws.write_buf
        /\ w.opcode = o /\ w.payload_buf = b /\ w.delivered = ws.delivered
    BY <1>5, <2>1 DEF Layers
  <2> QED
    BY <2>1, <2>2, <2>3, <2>4
<1>9. Attached(w)
  BY <1>8, NowFacts DEF Attached
<1>10. Output = got \o w.write_buf
  BY <1>8, NowFacts
<1>11. LayersOK(role, w, Output, sent, pings)
  <2>1. IsPre(w.delivered, sent)
    BY <1>8, NowFacts
  <2> QED
    BY <1>8, <1>9, <2>1, NowFacts, AttachedOK
<1>12. Tracks(PeerKey, PeerNow, LayerOf(w, Output), Drop(Input, Len(FrameBytes(PeerKey, f))))
  <2>1. CASE Proper(PeerKey, m.open, f.kind)
    <3>1. PICK n : After(f, m, n)
      BY <2>1, ProperFront DEF Ahead
    <3>2. f.kind.opcode \notin {ping, pong}
      BY <1>2, <2>1 DEF Proper
    <3>3. Joined(m.open, f) = [opcode |-> o, payload |-> b]
      BY <1>1, <1>3 DEF Joined
    <3>4. n.pings = m.pings /\ n.open = [opcode |-> o, payload |-> b] /\ n.sent = m.sent
      BY <1>2, <3>1, <3>2, <3>3, Codes DEF After, Follows
    <3>5. n.open.opcode = o /\ n.open.payload = b
      BY <3>4
    <3>6. /\ w.opcode = n.open.opcode /\ w.payload_buf = n.open.payload
          /\ w.delivered = n.sent /\ Len(Output) = 1 + Len(n.pings)
      BY <1>1, <1>8, <3>4, <3>5
    <3> QED
      BY <1>8, <3>1, <3>6, LayerTracks
  <2>2. CASE ~Proper(PeerKey, m.open, f.kind)
    <3>1. \A k : k.hc => Tracks(PeerKey, PeerNow, k, Drop(Input, Len(FrameBytes(PeerKey, f))))
      BY <2>2, Zenon DEF Ahead, Front
    <3>2. LayerOf(w, Output).hc
      BY <1>8 DEF LayerOf
    <3> QED
      BY <3>1, <3>2
  <2> QED
    BY <2>1, <2>2
<1> QED
  BY <1>6, <1>8, <1>9, <1>10, <1>11, <1>12, AdvanceKeeps

(* Facts about sequences that grow at the end. *)
(* Appending to the second of two sequences. *)
LEMMA CatAppend ==
  ASSUME NEW S, NEW s \in Seq(S), NEW t \in Seq(S), NEW e \in S
  PROVE  s \o Append(t, e) = Append(s \o t, e)
  OBVIOUS

(* The last element of a prefix. *)
LEMMA PreLast ==
  ASSUME NEW S, NEW s \in Seq(S), NEW t \in Seq(S), NEW e \in S, IsPre(Append(s, e), t)
  PROVE  1 + Len(s) \in DOMAIN t /\ t[1 + Len(s)] = e
<1>1. PICK u : u = Append(s, e)
  OBVIOUS
<1>2. PICK n \in Nat : n = 1 + Len(s)
  OBVIOUS
<1>3. Len(u) = n /\ u[n] = e
  BY <1>1, <1>2
<1>4. n <= Len(t) /\ u = SubSeq(t, 1, n)
  BY <1>1, <1>3 DEF IsPre
<1>5. n >= 1 /\ Len(t) \in Nat
  BY <1>2
<1>6. SubSeq(t, 1, n)[n] = t[n]
  BY <1>4, <1>5
<1> QED
  BY <1>2, <1>3, <1>4, <1>5, <1>6

(* One more pong answers one more ping. *)
LEMMA AnswersMore ==
  ASSUME NEW out \in Seq(Unit), NEW png, Answers(out, png), NEW u \in Unit,
         Len(out) \in DOMAIN png, IsPong(u, png[Len(out)])
  PROVE  Answers(Append(out, u), png)
<1>1. PICK n \in Nat : n = Len(out)
  OBVIOUS
<1>2. PICK o : o = Append(out, u)
  OBVIOUS
<1>3. o \in Seq(Unit) /\ Len(o) = n + 1 /\ o[n + 1] = u /\ \A i \in 1 .. n : o[i] = out[i]
  BY <1>1, <1>2
<1>4. ASSUME NEW i \in DOMAIN o, IsFrame(o[i])
      PROVE  i - 1 \in DOMAIN png /\ IsPong(o[i], png[i - 1])
  <2>1. i \in 1 .. (n + 1)
    BY <1>3
  <2>2. CASE i \in 1 .. n
    <3>1. i \in DOMAIN out /\ o[i] = out[i]
      BY <1>1, <1>3, <2>2
    <3> QED
      BY <1>4, <3>1 DEF Answers
  <2>3. CASE i = n + 1
    <3>1. i - 1 = Len(out) /\ o[i] = u
      BY <1>1, <1>3, <2>3
    <3> QED
      BY <3>1
  <2> QED
    BY <2>1, <2>2, <2>3
<1>5. Answers(o, png)
  BY <1>4 DEF Answers
<1> QED
  BY <1>2, <1>5

(* A ping: ship_pong answers it. *)
LEMMA PingKeeps ==
  ASSUME WSInv, consuming_frames, NEW f, NEW m, Ahead(f, m), NEW key \in OutKeys,
         f.kind.flags = fin_flag, ws.opcode = nil_code, f.kind.opcode = ping,
         NEW w, w = ship_pong(ws, key, f.data),
         Advance(Len(FrameBytes(PeerKey, f)), w)
  PROVE  WSInv'
<1>1. /\ m.open \in Opens /\ m.open.opcode = nil_code /\ f.data \in Seq(Bytes) /\ f.kind \in FrameKinds
      /\ ws.payload_buf = m.open.payload /\ ws.delivered = m.sent /\ m.pings \in Seq(Seq(Bytes))
      /\ Len(Output) = 1 + Len(m.pings)
  BY SyncedNow DEF Ahead
<1>2. Proper(PeerKey, m.open, f.kind)
  BY <1>1, Codes DEF Proper, Ahead
<1>3. PICK n : After(f, m, n)
  BY <1>2, ProperFront DEF Ahead
<1>4. n.pings = Append(m.pings, f.data) /\ n.open = m.open /\ n.sent = m.sent
  BY <1>3, Codes DEF After, Follows
<1>5. PICK u : u = FrameUnit(pong, key, f.data)
  OBVIOUS
<1>6. IsPong(u, f.data) /\ u \in Unit
  <2>1. Len(f.data) <= INT32_MAX
    <3>1. f.kind.len < max_frame_size - Len(HeadOf(PeerKey, f.kind)) /\ Len(f.data) = f.kind.len
      BY DEF Ahead
    <3>2. f.kind.len \in Nat /\ Len(HeadOf(PeerKey, f.kind)) \in Nat
      BY <1>1, KeysAre, HeadFacts, KindFacts
    <3>3. INT32_MAX \in Nat
      BY MaxIs
    <3> QED
      BY <3>1, <3>2, <3>3, ConstantsAre
  <2>2. key \in 0 .. INT32_MAX
    BY KeysAre
  <2> QED
    BY <1>1, <1>5, <2>1, <2>2, PongIs
<1>7. PICK wb : wb = ws.write_buf /\ wb \in Seq(Unit)
  BY NowFacts
<1>8. /\ w \in Layers /\ w.handshake_complete /\ w.app = ws.app /\ w.write_buf = Append(wb, u)
      /\ w.opcode = ws.opcode /\ w.payload_buf = ws.payload_buf /\ w.delivered = ws.delivered
  <2>1. ws \in Layers /\ ws.handshake_complete
    BY NowFacts
  <2>2. PICK b : b = Append(wb, u) /\ b \in Seq(Unit)
    BY <1>6, <1>7, AppendIn
  <2>3. w = [ws EXCEPT !.write_buf = b]
    BY <1>5, <1>7, <2>2 DEF ship_pong
  <2>4. w \in Layers
    BY <2>1, <2>2, <2>3 DEF Layers
  <2>5. w.handshake_complete = ws.handshake_complete
    BY <2>1, <2>3 DEF Layers
  <2>6. /\ w.app = ws.app /\ w.write_buf = b
        /\ w.opcode = ws.opcode /\ w.payload_buf = ws.payload_buf /\ w.delivered = ws.delivered
    BY <2>1, <2>3 DEF Layers
  <2> QED
    BY <2>1, <2>2, <2>4, <2>5, <2>6
<1>9. PICK out : out = Append(Output, u)
  OBVIOUS
<1>10. out = got \o w.write_buf
  <2>1. got \in Seq(Unit) /\ Output = got \o wb
    BY <1>7, NowFacts
  <2>2. got \o Append(wb, u) = Append(got \o wb, u)
    BY <1>6, <1>7, <2>1, CatAppend
  <2> QED
    BY <1>8, <1>9, <2>1, <2>2
<1>11. out \in Seq(Unit) /\ Len(out) = Len(Output) + 1 /\ out # <<>> /\ out[1] = FirstUnit(role)
  <2>1. PICK o : o = Output /\ o \in Seq(Unit) /\ o # <<>> /\ o[1] = FirstUnit(role)
    BY NowFacts
  <2>2. Append(o, u) \in Seq(Unit) /\ Len(Append(o, u)) = Len(o) + 1 /\ Append(o, u)[1] = o[1]
    BY <1>6, <2>1
  <2>3. Append(o, u) # <<>>
    BY <1>6, <2>1
  <2> QED
    BY <1>9, <2>1, <2>2, <2>3
<1>12. Answers(out, pings)
  <2>1. pings \in Seq(Seq(Bytes)) /\ IsPre(Append(m.pings, f.data), pings)
    BY <1>3, <1>4 DEF After, WSInv, PeerOK
  <2>2. 1 + Len(m.pings) \in DOMAIN pings /\ pings[1 + Len(m.pings)] = f.data
    BY <1>1, <2>1, PreLast
  <2>3. Len(Output) \in DOMAIN pings /\ IsPong(u, pings[Len(Output)])
    BY <1>1, <1>6, <2>2
  <2> QED
    BY <1>6, <1>9, <2>3, NowFacts, AnswersMore
<1>13. Attached(w)
  BY <1>8, NowFacts DEF Attached
<1>14. LayersOK(role, w, out, sent, pings)
  <2>1. IsPre(w.delivered, sent)
    BY <1>8, NowFacts
  <2> QED
    BY <1>8, <1>11, <1>12, <1>13, <2>1, AttachedOK
<1>15. Tracks(PeerKey, PeerNow, LayerOf(w, out), Drop(Input, Len(FrameBytes(PeerKey, f))))
  <2>1. Len(n.pings) = Len(m.pings) + 1
    BY <1>1, <1>4
  <2>2. Len(out) = 1 + Len(n.pings)
    BY <1>1, <1>11, <2>1
  <2>3. w.opcode = n.open.opcode /\ w.payload_buf = n.open.payload /\ w.delivered = n.sent
    BY <1>1, <1>4, <1>8
  <2> QED
    BY <1>3, <1>8, <2>2, <2>3, LayerTracks
<1> QED
  BY <1>8, <1>10, <1>13, <1>14, <1>15, AdvanceKeeps

(* A pong is ignored. *)
LEMMA PongKeeps ==
  ASSUME WSInv, consuming_frames, NEW f, NEW m, Ahead(f, m),
         f.kind.flags = fin_flag, ws.opcode = nil_code, f.kind.opcode = pong,
         Advance(Len(FrameBytes(PeerKey, f)), ws)
  PROVE  WSInv'
<1>1. /\ m.open \in Opens /\ m.open.opcode = nil_code /\ f.data \in Seq(Bytes) /\ f.kind \in FrameKinds
      /\ ws.payload_buf = m.open.payload /\ ws.delivered = m.sent
      /\ Len(Output) = 1 + Len(m.pings)
  BY SyncedNow DEF Ahead
<1>2. Proper(PeerKey, m.open, f.kind)
  BY <1>1, Codes DEF Proper, Ahead
<1>3. PICK n : After(f, m, n)
  BY <1>2, ProperFront DEF Ahead
<1>4. n.pings = m.pings /\ n.open = m.open /\ n.sent = m.sent
  BY <1>3, Codes DEF After, Follows
<1>5. LayersOK(role, ws, Output, sent, pings)
  BY NowFacts, AttachedOK
<1>6. /\ ws.opcode = n.open.opcode /\ ws.payload_buf = n.open.payload /\ ws.delivered = n.sent
      /\ Len(Output) = 1 + Len(n.pings)
  BY <1>1, <1>4
<1>7. Tracks(PeerKey, PeerNow, LayerOf(ws, Output), Drop(Input, Len(FrameBytes(PeerKey, f))))
  BY <1>3, <1>6, NowFacts, LayerTracks
<1> QED
  BY <1>5, <1>7, NowFacts, AdvanceKeeps

(* consume() with a complete frame keeps the invariant. *)
LEMMA ConsumeFrameKeeps ==
  ASSUME WSInv, NEW accept \in BOOLEAN, NEW key \in OutKeys, ConsumeFrame(accept, key)
  PROVE  WSInv'
<1>1. consuming_frames
  BY DEF ConsumeFrame
<1>2. PICK f, m : /\ Ahead(f, m)
                  /\ \/ HandlesMessage(f, accept, key) \/ HandlesLast(f, accept, key)
                     \/ HandlesFragment(f) \/ HandlesBad(f)
  BY FrameSeen
<1>3. CASE HandlesMessage(f, accept, key)
  <2>1. /\ f.kind.flags = fin_flag /\ ws.opcode = nil_code
        /\ handle(f.kind.opcode, f.data, Len(FrameBytes(PeerKey, f)), ws, accept, key)
    BY <1>3 DEF HandlesMessage
  <2>2. CASE f.kind.opcode \in {text_frame, binary_frame}
    <3>1. PICK w : w = [ws EXCEPT !.delivered = Append(@, [opcode |-> f.kind.opcode, payload |-> f.data])]
      OBVIOUS
    <3>2. f.kind.opcode \notin {ping, pong, continuation_frame, connection_close}
      BY <2>2, Codes
    <3>3. IF accept THEN Advance(Len(FrameBytes(PeerKey, f)), w)
          ELSE Fail("application", w) /\ UNCHANGED Outside
      BY <2>1, <3>1, <3>2, Zenon DEF handle
    <3> QED
      BY <1>1, <1>2, <2>1, <2>2, <3>1, <3>3, MessageKeeps
  <2>3. CASE f.kind.opcode = ping
    <3>1. PICK w : w = ship_pong(ws, key, f.data)
      OBVIOUS
    <3>2. f.kind.opcode \notin {text_frame, binary_frame, pong, continuation_frame, connection_close}
      BY <2>3, Codes
    <3>3. Advance(Len(FrameBytes(PeerKey, f)), w)
      BY <2>1, <3>1, <3>2, Zenon DEF handle
    <3> QED
      BY <1>1, <1>2, <2>1, <2>3, <3>1, <3>3, PingKeeps
  <2>4. CASE f.kind.opcode = pong
    <3>1. f.kind.opcode \notin {text_frame, binary_frame, ping, continuation_frame, connection_close}
      BY <2>4, Codes
    <3>2. Advance(Len(FrameBytes(PeerKey, f)), ws)
      BY <2>1, <3>1, Zenon DEF handle
    <3> QED
      BY <1>1, <1>2, <2>1, <2>4, <3>2, PongKeeps
  <2>5. CASE f.kind.opcode \in {continuation_frame, connection_close}
    <3>1. f.kind.opcode \notin {text_frame, binary_frame, ping, pong}
      BY <2>5, Codes
    <3>2. Fail("protocol", ws) /\ UNCHANGED Outside
      BY <2>1, <3>1, Zenon DEF handle
    <3>3. m.open.opcode = nil_code
      BY <1>2, <2>1, SyncedNow DEF Ahead
    <3>4. ~Proper(PeerKey, m.open, f.kind)
      BY <2>5, <3>3, Codes DEF Proper
    <3>5. conduct # "proper"
      BY <1>2, <3>4, ImproperFront DEF Ahead
    <3>6. Stays(ws)
      BY <1>1, <3>2, Unmoved
    <3> QED
      BY <3>2, <3>5, <3>6, FailKeeps
  <2>6. f.kind.opcode \in opcodes
    BY <1>2 DEF Ahead
  <2> QED
    BY <2>2, <2>3, <2>4, <2>5, <2>6 DEF opcodes
<1>4. CASE HandlesLast(f, accept, key)
  BY <1>1, <1>2, <1>4, LastKeeps
<1>5. CASE HandlesFragment(f)
  BY <1>1, <1>2, <1>5, FragmentKeeps
<1>6. CASE HandlesBad(f)
  BY <1>1, <1>2, <1>6, BadKeeps
<1> QED
  BY <1>2, <1>3, <1>4, <1>5, <1>6

-----------------------------------------------------------------------------
(* The handshake *)

(* No unit of out is a frame. *)
Plain(out) == \A i \in DOMAIN out : ~IsFrame(out[i])

(* An HTTP header in the output is not a frame. *)
LEMMA HttpUnits ==
  ASSUME NEW x \in {"request", "101", "431"}
  PROVE  [http |-> x] \in Unit /\ ~IsFrame([http |-> x])
  BY DEF Unit, IsFrame

(* Adding an HTTP header adds no frame. *)
LEMMA PlainAppend ==
  ASSUME NEW out \in Seq(Unit), Plain(out), NEW u \in Unit, ~IsFrame(u)
  PROVE  Plain(Append(out, u)) /\ Append(out, u) \in Seq(Unit)
<1>1. PICK n \in Nat : n = Len(out)
  OBVIOUS
<1>2. PICK o : o = Append(out, u)
  OBVIOUS
<1>3. o \in Seq(Unit) /\ Len(o) = n + 1 /\ o[n + 1] = u /\ \A i \in 1 .. n : o[i] = out[i]
  BY <1>1, <1>2
<1>4. ASSUME NEW i \in DOMAIN o
      PROVE  ~IsFrame(o[i])
  <2>1. i \in 1 .. (n + 1)
    BY <1>3
  <2>2. CASE i \in 1 .. n
    <3>1. i \in DOMAIN out /\ o[i] = out[i]
      BY <1>1, <1>3, <2>2
    <3> QED
      BY <3>1 DEF Plain
  <2>3. CASE i = n + 1
    BY <1>3, <2>3
  <2> QED
    BY <2>1, <2>2, <2>3
<1> QED
  BY <1>2, <1>3, <1>4 DEF Plain

(* The application has neither sent nor received. *)
Fresh(w) ==
  /\ w \in Layers /\ w.messages = FALSE /\ w.delivered = <<>>
  /\ w.opcode = nil_code /\ w.payload_buf = <<>>

(* The layers around the handshake. *)
LEMMA FreshOK ==
  ASSUME NEW r, NEW w, Fresh(w), NEW out \in Seq(Unit), Plain(out), NEW png,
         NEW snt \in Seq(Message),
         \/ ~w.handshake_complete /\ w.app = "none"
         \/ /\ w.handshake_complete /\ w.app = "none" /\ r = "client"
            /\ out # <<>> /\ out[1] = FirstUnit(r)
         \/ w.handshake_complete /\ w.app = "up" /\ out # <<>> /\ out[1] = FirstUnit(r)
  PROVE  LayersOK(r, w, out, snt, png)
<1>1. IsPre(<<>>, snt)
  <2>1. Len(<<>>) = 0 /\ Len(snt) \in Nat /\ SubSeq(snt, 1, 0) = <<>>
    OBVIOUS
  <2> QED
    BY <2>1 DEF IsPre
<1>2. Answers(out, png) /\ ~HasFrame(out)
  BY DEF Answers, HasFrame, Plain
<1>3. "none" \notin {"up", "aborted"} /\ "up" \in {"up", "aborted"}
  OBVIOUS
<1>4. w.messages = FALSE /\ w.delivered = <<>> /\ w.opcode = nil_code /\ w.payload_buf = <<>> /\ w \in Layers
  BY DEF Fresh
<1>5. IsPre(w.delivered, snt)
  BY <1>1, <1>4
<1> QED
  BY <1>2, <1>3, <1>4, <1>5, Zenon DEF LayersOK, Attached

(* An HTTP header, in part or as a whole, is in the buffer. *)
LEMMA HandshakeNow ==
  ASSUME WSInv, consuming, ~ws.handshake_complete
  PROVE  /\ failed = "no" /\ consumed = 0 /\ rx.max_read_size = max_http_size
         /\ rx.buf \in Seq(Nat) /\ Len(rx.buf) \in Nat
         /\ http.size \in Nat /\ http.size > 0
         /\ \A i \in 1 .. Len(rx.buf) : rx.buf[i] = EndOfHeader => i = http.size
         /\ http.size <= Len(rx.buf) => rx.buf[http.size] = EndOfHeader
         /\ \A k : k.hc /\ Synced(k, StartMark) =>
              Tracks(PeerKey, PeerNow, k, Drop(Input, http.size))
         /\ Fresh(ws) /\ ws.app = "none"
         /\ got \in Seq(Unit) /\ ws.write_buf \in Seq(Unit) /\ Output = got \o ws.write_buf
         /\ Output = IF role = "server" THEN <<>> ELSE client_init
<1>1. failed = "no"
  BY DEF WSInv, FlagsOK
<1>2. /\ consumed = 0 /\ rx.max_read_size = max_http_size /\ rx.buf # <<>>
      /\ rx.buf \in Seq(Nat) /\ Len(rx.buf) \in Nat /\ wire \in Seq(Nat)
  BY <1>1, InputIs DEF WSInv, RxOK
<1>3. Tracks(PeerKey, PeerNow, LayerNow, Input) /\ Live(role, ws, Output)
  BY <1>1 DEF WSInv, TracksNow, LayerNow
<1>4. ~LayerNow.hc
  BY DEF LayerNow, LayerOf
<1>5. PeerNow.http = http /\ http.size \in Nat
  <2>1. http = NoHttp \/ http.size \in HttpSizes
    BY DEF WSInv, PeerOK
  <2>2. http.size \in Nat
    <3>1. NoHttp.size = 0
      BY DEF NoHttp
    <3>2. \A s \in HttpSizes : s \in Nat
      BY ConstantsAre
    <3> QED
      BY <2>1, <3>1, <3>2
  <2> QED
    BY <2>2 DEF PeerNow
<1>6. PICK in, z : in = Input /\ z = http.size
  OBVIOUS
<1>7. /\ in \in Seq(Nat) /\ z <= Len(in)
      /\ http = NoHttp => in = <<>>
      /\ z > 0 => in[z] = EndOfHeader
      /\ \A i \in 1 .. Len(in) : in[i] = EndOfHeader => i = z
      /\ http # NoHttp =>
           \A k : k.hc /\ Synced(k, StartMark) => Tracks(PeerKey, PeerNow, k, Drop(Input, z))
  <2>1. http_ok(PeerNow)
    BY <1>5 DEF http_ok
  <2> QED
    BY <1>3, <1>4, <1>5, <1>6, <2>1, TracksHeader
<1>8. PICK b, v : b = rx.buf /\ v = wire
  OBVIOUS
<1>9. in = b \o v
  <2>1. Drop(b, 0) = b
    BY <1>2, <1>8, DropNone
  <2> QED
    BY <1>2, <1>6, <1>8, <2>1 DEF Input
<1>10. Len(in) = Len(b) + Len(v) /\ \A i \in 1 .. Len(b) : in[i] = b[i]
  <2>1. b \in Seq(Nat) /\ v \in Seq(Nat)
    BY <1>2, <1>8
  <2> QED
    BY <1>9, <2>1, CatFacts
<1>11. PICK x \in Nat, y \in Nat : x = Len(b) /\ y = Len(v) /\ x # 0
  BY <1>2, <1>8
<1>12. z \in Nat /\ z > 0 /\ http # NoHttp
  <2>1. in # <<>>
    BY <1>10, <1>11
  <2>2. http # NoHttp
    BY <1>7, <2>1
  <2>3. z \in HttpSizes
    BY <1>6, <2>2 DEF WSInv, PeerOK
  <2> QED
    BY <2>2, <2>3, ConstantsAre
<1>13. \A i \in 1 .. Len(b) : b[i] = EndOfHeader => i = z
  <2> TAKE i \in 1 .. Len(b)
  <2>1. i \in 1 .. Len(in) /\ in[i] = b[i]
    BY <1>10, <1>11
  <2> QED
    BY <1>7, <2>1
<1>14. z <= Len(b) => b[z] = EndOfHeader
  <2>1. z <= Len(b) => z \in 1 .. Len(b)
    BY <1>11, <1>12
  <2> QED
    BY <1>7, <1>10, <1>12, <2>1
<1>15. Fresh(ws) /\ ws.app = "none"
  BY Zenon DEF WSInv, LayersOK, Fresh
<1>16. ws.write_buf \in Seq(Unit) /\ got \in Seq(Unit)
  BY <1>15 DEF Fresh, Layers, WSInv
<1>17. Output = IF role = "server" THEN <<>> ELSE client_init
  BY <1>3, Zenon DEF Live
<1> QED
  BY <1>1, <1>2, <1>6, <1>7, <1>8, <1>12, <1>13, <1>14, <1>15, <1>16, <1>17 DEF Output

(* What was written before the handshake is complete. *)
LEMMA HandshakeOutput ==
  ASSUME WSInv, consuming, ~ws.handshake_complete
  PROVE  /\ Plain(Output) /\ Output \in Seq(Unit) /\ sent \in Seq(Message)
         /\ role \in {"server", "client"}
         /\ role = "client" => Output # <<>> /\ Output[1] = FirstUnit(role) /\ Len(Output) = 1
         /\ role = "server" => Output = <<>>
<1>1. PICK u : u = [http |-> "request"] /\ u \in Unit /\ ~IsFrame(u)
  BY HttpUnits
<1>2. role \in {"server", "client"} /\ sent \in Seq(Message)
  BY DEF WSInv, PeerOK
<1>3. CASE role = "server"
  <2>1. Output = <<>>
    BY <1>3, HandshakeNow
  <2>2. Plain(<<>>) /\ <<>> \in Seq(Unit)
    BY DEF Plain
  <2> QED
    BY <1>2, <1>3, <2>1, <2>2
<1>4. CASE role = "client"
  <2>1. Output = <<u>>
    BY <1>1, <1>4, HandshakeNow DEF client_init
  <2>2. Plain(<<u>>) /\ <<u>> \in Seq(Unit) /\ <<u>> # <<>> /\ Len(<<u>>) = 1 /\ <<u>>[1] = u
    BY <1>1 DEF Plain
  <2>3. FirstUnit(role) = u
    BY <1>1, <1>4 DEF FirstUnit
  <2> QED
    BY <1>2, <1>4, <2>1, <2>2, <2>3
<1> QED
  BY <1>2, <1>3, <1>4

(* consume() without a complete HTTP header: more bytes, or header too large. *)
LEMMA ConsumeNoHeaderKeeps ==
  ASSUME WSInv, ConsumeNoHeader
  PROVE  WSInv'
<1>1. consuming /\ ~ws.handshake_complete /\ split_http_1_header(rx.buf) = 0 /\ UNCHANGED Outside
  BY DEF ConsumeNoHeader
<1>2. PICK b \in Seq(Nat), l \in Nat, z \in Nat : b = rx.buf /\ l = Len(b) /\ z = http.size
  BY <1>1, HandshakeNow
<1>3. z > 0 /\ (\A i \in 1 .. l : b[i] = EndOfHeader => i = z) /\ (z <= l => b[z] = EndOfHeader)
  BY <1>1, <1>2, HandshakeNow
<1>4. l < z
  <2>1. SUFFICES ASSUME ~(l < z)
                 PROVE  FALSE
    OBVIOUS
  <2>2. z \in DOMAIN b /\ b[z] = EndOfHeader
    BY <1>2, <1>3, <2>1
  <2>3. split_http_1_header(b) \in DOMAIN b
    BY <2>2 DEF split_http_1_header
  <2> QED
    BY <1>1, <1>2, <2>3
<1>5. CASE l < max_http_size
  <2>1. Return(0, between(rx.min_read_size, rx.max_read_size), ws)
    BY <1>2, <1>5 DEF ConsumeNoHeader, Offset, CurrentPolicy
  <2>2. rx.min_read_size \in Nat /\ rx.max_read_size \in Nat
    BY DEF WSInv, RxOK, RxState
  <2>3. rx.max_read_size = 0 \/ rx.min_read_size <= rx.max_read_size
    BY DEF WSInv, RxOK
  <2>4. rx.max_read_size = max_http_size /\ Len(rx.buf) - 0 < rx.max_read_size
    BY <1>1, <1>2, <1>5, HandshakeNow
  <2>5. Proceeds(0, ws)
    <3>1. failed = "no" /\ consumed = 0 /\ got \o ws.write_buf = Output /\ Len(rx.buf) \in Nat
      BY <1>1, HandshakeNow
    <3>2. Stays(ws)
      BY <1>1, <3>1 DEF Stays, WSInv
    <3>3. Live(role, ws, Output) /\ Tracks(PeerKey, PeerNow, LayerOf(ws, Output), Input)
      BY <3>1 DEF WSInv, TracksNow
    <3>4. Drop(Input, 0) = Input
      <4>1. PICK in : in = Input
        OBVIOUS
      <4>2. in \in Seq(Nat)
        <5>1. PICK c, v : c = rx.buf /\ v = wire
          OBVIOUS
        <5>2. c \in Seq(Nat) /\ v \in Seq(Nat)
          BY <5>1, InputIs DEF WSInv
        <5>3. in = c \o v
          <6>1. Drop(c, 0) = c
            BY <5>2, DropNone
          <6> QED
            BY <3>1, <4>1, <5>1, <6>1 DEF Input
        <5> QED
          BY <5>2, <5>3, CatFacts
      <4> QED
        BY <4>1, <4>2, DropNone
    <3>5. 0 \in consumed .. Len(rx.buf) /\ 0 - consumed = 0
      BY <3>1
    <3> QED
      BY <3>1, <3>2, <3>3, <3>4, <3>5 DEF Proceeds
  <2> QED
    BY <2>1, <2>2, <2>3, <2>4, <2>5, ReturnKeeps
<1>6. CASE ~(l < max_http_size)
  <2>1. PICK u : u = [http |-> "431"] /\ u \in Unit /\ ~IsFrame(u)
    BY HttpUnits
  <2>2. PICK wb : wb = Append(ws.write_buf, u)
    OBVIOUS
  <2>3. PICK w : w = [ws EXCEPT !.write_buf = wb]
    OBVIOUS
  <2>4. Fail("protocol", w)
    BY <1>2, <1>6, <2>1, <2>2, <2>3 DEF ConsumeNoHeader, Offset
  <2>5. /\ Fresh(ws) /\ ws.app = "none" /\ ws.write_buf \in Seq(Unit) /\ got \in Seq(Unit)
        /\ got \o ws.write_buf = Output
    BY <1>1, HandshakeNow
  <2>6. wb \in Seq(Unit)
    BY <2>1, <2>2, <2>5, AppendIn
  <2>7. ~w.handshake_complete
    BY <1>1, <2>3, <2>5 DEF Fresh, Layers
  <2>8. Fresh(w) /\ w.app = "none" /\ w.write_buf = wb
    BY <2>3, <2>5, <2>6 DEF Fresh, Layers
  <2>9. got \o wb = Append(Output, u)
    <3>1. got \o Append(ws.write_buf, u) = Append(got \o ws.write_buf, u)
      BY <2>1, <2>5, CatAppend
    <3> QED
      BY <2>2, <2>5, <3>1
  <2>10. LayersOK(role, w, got \o w.write_buf, sent, pings)
    <3>1. PICK out : out = Append(Output, u)
      OBVIOUS
    <3>2. Plain(out) /\ out \in Seq(Unit) /\ sent \in Seq(Message)
      BY <1>1, <2>1, <3>1, HandshakeOutput, PlainAppend
    <3>3. LayersOK(role, w, out, sent, pings)
      BY <2>7, <2>8, <3>2, FreshOK
    <3> QED
      BY <2>8, <2>9, <3>1, <3>3
  <2>11. Stays(w)
    BY <1>1, <2>10 DEF Stays
  <2>12. http.size > max_http_size
    BY <1>2, <1>4, <1>6, ConstantsAre
  <2> QED
    BY <2>4, <2>11, <2>12, FailKeeps
<1> QED
  BY <1>5, <1>6

(* The layers w change into v. *)
Turns(w, h, a, b, v) ==
  /\ Fresh(w) /\ h \in BOOLEAN /\ a \in {"none", "up"} /\ b \in Seq(Unit)
  /\ v = [w EXCEPT !.handshake_complete = h, !.app = a, !.write_buf = b]

(* What a record with three new fields holds. *)
LEMMA LayersWith ==
  ASSUME NEW w, NEW h, NEW a, NEW b, NEW v, Turns(w, h, a, b, v)
  PROVE  Fresh(v) /\ v.handshake_complete = h /\ v.app = a /\ v.write_buf = b
<1>0. w \in Layers
  BY DEF Fresh, Turns
<1>1. v \in Layers
  BY <1>0 DEF Layers, Turns
<1>2. v.handshake_complete = h
  BY <1>0 DEF Layers, Turns
<1>3. v.app = a /\ v.write_buf = b /\ v.opcode = w.opcode /\ v.payload_buf = w.payload_buf
      /\ v.delivered = w.delivered
  BY <1>0 DEF Layers, Turns
<1>4. v.messages = w.messages
  BY <1>0 DEF Layers, Turns
<1> QED
  BY <1>1, <1>2, <1>3, <1>4 DEF Fresh, Turns

(* The layers after an HTTP header. *)
LEMMA HeaderLayers ==
  ASSUME WSInv, consuming, ~ws.handshake_complete, NEW valid \in BOOLEAN, NEW init_ok \in BOOLEAN,
         NEW w, w = handle_header(valid, init_ok)
  PROVE  /\ LayersOK(role, w, got \o w.write_buf, sent, pings)
         /\ valid /\ init_ok => /\ w.handshake_complete /\ Live(role, w, got \o w.write_buf)
                                /\ Synced(LayerOf(w, got \o w.write_buf), StartMark)
<1>1. /\ Fresh(ws) /\ ws.app = "none" /\ ws.write_buf \in Seq(Unit) /\ got \in Seq(Unit)
      /\ got \o ws.write_buf = Output
  BY HandshakeNow
<1>2. /\ Plain(Output) /\ Output \in Seq(Unit) /\ sent \in Seq(Message)
      /\ role \in {"server", "client"}
      /\ role = "client" => Output # <<>> /\ Output[1] = FirstUnit(role) /\ Len(Output) = 1
      /\ role = "server" => Output = <<>>
  BY HandshakeOutput
<1>3. ws \in Layers
  BY <1>1 DEF Fresh
<1>4. PICK h \in BOOLEAN : h = IF role = "server" THEN valid /\ init_ok ELSE TRUE
  BY Zenon
<1>5. PICK a \in {"none", "up"} : a = IF valid /\ init_ok THEN "up" ELSE "none"
  BY Zenon
<1>6. PICK u : u = [http |-> "101"] /\ u \in Unit /\ ~IsFrame(u)
  BY HttpUnits
<1>7. PICK b : b = IF role = "server" /\ valid THEN Append(ws.write_buf, u) ELSE ws.write_buf
  OBVIOUS
<1>8. b \in Seq(Unit)
  <2>1. Append(ws.write_buf, u) \in Seq(Unit)
    BY <1>1, <1>6, AppendIn
  <2> QED
    BY <1>1, <1>7, <2>1
<1>9. w = [ws EXCEPT !.handshake_complete = h, !.app = a, !.write_buf = b]
  <2>1. CASE role = "server"
    <3>1. w = [ws EXCEPT !.handshake_complete = valid /\ init_ok,
                         !.app = IF valid /\ init_ok THEN "up" ELSE ws.app,
                         !.write_buf = IF valid THEN Append(ws.write_buf, [http |-> "101"])
                                       ELSE ws.write_buf]
      BY <1>3, <2>1, Zenon DEF handle_header, server_handle_header
    <3>2. h = (valid /\ init_ok)
      BY <1>4, <2>1, Zenon
    <3>3. a = IF valid /\ init_ok THEN "up" ELSE ws.app
      BY <1>1, <1>5, Zenon
    <3>4. b = IF valid THEN Append(ws.write_buf, [http |-> "101"]) ELSE ws.write_buf
      BY <1>6, <1>7, <2>1, Zenon
    <3> QED
      BY <3>1, <3>2, <3>3, <3>4, Zenon
  <2>2. CASE role # "server"
    <3>1. w = [ws EXCEPT !.handshake_complete = TRUE, !.app = IF valid /\ init_ok THEN "up" ELSE ws.app]
      BY <2>2, Zenon DEF handle_header, client_handle_header
    <3>2. h = TRUE /\ b = ws.write_buf
      BY <1>4, <1>7, <2>2, Zenon
    <3>3. a = IF valid /\ init_ok THEN "up" ELSE ws.app
      BY <1>1, <1>5, Zenon
    <3>4. w = [ws EXCEPT !.handshake_complete = TRUE, !.app = a]
      BY <3>1, <3>3, Zenon
    <3>5. w = [ws EXCEPT !.handshake_complete = TRUE, !.app = a, !.write_buf = ws.write_buf]
      BY <1>3, <3>4 DEF Layers
    <3> QED
      BY <3>2, <3>5, Zenon
  <2> QED
    BY <2>1, <2>2
<1>10. Fresh(w) /\ w.handshake_complete = h /\ w.app = a /\ w.write_buf = b
  <2>1. Turns(ws, h, a, b, w)
    BY <1>1, <1>4, <1>5, <1>8, <1>9, Zenon DEF Turns
  <2> QED
    BY <2>1, LayersWith
<1>11. PICK out : out = got \o b
  OBVIOUS
<1>12. out = IF role = "server" /\ valid THEN Append(Output, u) ELSE Output
  <2>1. got \in Seq(Unit) /\ ws.write_buf \in Seq(Unit) /\ u \in Unit
    BY <1>1, <1>6
  <2>2. got \o Append(ws.write_buf, u) = Append(got \o ws.write_buf, u)
    BY <2>1, CatAppend
  <2> QED
    BY <1>1, <1>7, <1>11, <2>2
<1>13. out \in Seq(Unit) /\ Plain(out)
  BY <1>2, <1>6, <1>12, PlainAppend
<1>14. valid /\ init_ok => out # <<>> /\ out[1] = FirstUnit(role) /\ Len(out) = 1
  <2> HAVE valid /\ init_ok
  <2>1. CASE role = "server"
    <3>1. out = Append(<<>>, u)
      BY <1>2, <1>12, <2>1
    <3>2. out # <<>> /\ out[1] = u /\ Len(out) = 1
      BY <3>1
    <3>3. FirstUnit(role) = u
      BY <1>6, <2>1 DEF FirstUnit
    <3> QED
      BY <3>2, <3>3
  <2>2. CASE role = "client"
    <3>1. out = Output
      BY <1>12, <2>2
    <3> QED
      BY <1>2, <2>2, <3>1
  <2> QED
    BY <1>2, <2>1, <2>2
<1>15. LayersOK(role, w, out, sent, pings)
  <2>1. CASE valid /\ init_ok
    <3>1. w.handshake_complete /\ w.app = "up"
      BY <1>4, <1>5, <1>10, <2>1, Zenon
    <3> QED
      BY <1>2, <1>10, <1>13, <1>14, <2>1, <3>1, FreshOK
  <2>2. CASE ~(valid /\ init_ok)
    <3>1. w.app = "none"
      BY <1>5, <1>10, <2>2, Zenon
    <3>2. CASE role = "server"
      <4>1. ~w.handshake_complete
        BY <1>4, <1>10, <2>2, <3>2, Zenon
      <4> QED
        BY <1>2, <1>10, <1>13, <3>1, <4>1, FreshOK
    <3>3. CASE role = "client"
      <4>1. w.handshake_complete
        BY <1>4, <1>10, <3>3
      <4>2. out # <<>> /\ out[1] = FirstUnit(role)
        BY <1>2, <1>12, <3>3
      <4> QED
        BY <1>2, <1>10, <1>13, <3>1, <3>3, <4>1, <4>2, FreshOK
    <3> QED
      BY <1>2, <3>2, <3>3
  <2> QED
    BY <2>1, <2>2
<1>16. ASSUME valid, init_ok
       PROVE  w.handshake_complete /\ Live(role, w, out) /\ Synced(LayerOf(w, out), StartMark)
  <2>1. w.handshake_complete /\ w.app = "up"
    BY <1>4, <1>5, <1>10, <1>16, Zenon
  <2>2. Live(role, w, out)
    BY <2>1, Zenon DEF Live, Attached
  <2>3. PICK k : k = LayerOf(w, out)
    OBVIOUS
  <2>4. k.opcode = nil_code /\ k.payload_buf = <<>> /\ k.delivered = <<>> /\ k.units = 1
    BY <1>10, <1>14, <1>16, <2>3 DEF Fresh, LayerOf
  <2>5. Synced(k, StartMark)
    BY <2>4 DEF Synced, StartMark, NoMessage
  <2> QED
    BY <2>1, <2>2, <2>3, <2>5
<1>17. got \o w.write_buf = out
  BY <1>10, <1>11
<1> QED
  BY <1>15, <1>16, <1>17, Zenon

(* consume() with a complete HTTP header: the handshake, or an error. *)
LEMMA ConsumeHeaderKeeps ==
  ASSUME WSInv, NEW init_ok \in BOOLEAN, ConsumeHeader(init_ok)
  PROVE  WSInv'
<1>n. PICK n : n = split_http_1_header(rx.buf)
  OBVIOUS
<1>1. PICK b \in Seq(Nat), l \in Nat, z \in Nat : /\ b = rx.buf /\ l = Len(b) /\ z = http.size
                                                 /\ n = split_http_1_header(b)
  <2>1. consuming /\ ~ws.handshake_complete
    BY DEF ConsumeHeader
  <2> QED
    BY <1>n, <2>1, HandshakeNow
<1>2. PICK valid \in BOOLEAN : valid = (http.passes = Checks(role))
  BY Zenon
<1>3. PICK w : w = handle_header(valid, init_ok)
  OBVIOUS
<1>4. /\ consuming /\ ~ws.handshake_complete /\ n > 0 /\ UNCHANGED Outside
      /\ \/ valid /\ init_ok /\ Remainder(n, w)
         \/ valid /\ ~init_ok /\ Fail("application", w)
         \/ ~valid /\ Fail("protocol", w)
  BY <1>1, <1>2, <1>3, Zenon DEF ConsumeHeader
<1>5. /\ LayersOK(role, w, got \o w.write_buf, sent, pings)
      /\ valid /\ init_ok => /\ w.handshake_complete /\ Live(role, w, got \o w.write_buf)
                             /\ Synced(LayerOf(w, got \o w.write_buf), StartMark)
  BY <1>3, <1>4, HeaderLayers
<1>6. Stays(w)
  BY <1>4, <1>5 DEF Stays
<1>7. CASE valid /\ init_ok /\ Remainder(n, w)
  <2>1. n \in 1 .. l /\ n = z
    <3>1. \E i \in DOMAIN b : b[i] = EndOfHeader
      <4>1. ~(0 > 0)
        OBVIOUS
      <4> QED
        BY <1>1, <1>4, <4>1, Zenon DEF split_http_1_header
    <3>2. n \in DOMAIN b /\ b[n] = EndOfHeader
      BY <1>1, <3>1, Zenon DEF split_http_1_header
    <3>3. n \in 1 .. Len(b)
      BY <1>1, <3>2
    <3>4. \A i \in 1 .. Len(b) : b[i] = EndOfHeader => i = z
      BY <1>1, <1>4, HandshakeNow
    <3> QED
      BY <1>1, <3>2, <3>3, <3>4
  <2>2. failed = "no" /\ consumed = 0 /\ rx.max_read_size = max_http_size
    BY <1>4, HandshakeNow
  <2>3. Tracks(PeerKey, PeerNow, LayerOf(w, got \o w.write_buf), Drop(Input, z))
    <3>1. PICK k : k = LayerOf(w, got \o w.write_buf)
      OBVIOUS
    <3>2. k.hc = w.handshake_complete
      BY <3>1 DEF LayerOf
    <3>3. k.hc /\ Synced(k, StartMark)
      BY <1>5, <1>7, <3>1, <3>2, Zenon
    <3>4. Tracks(PeerKey, PeerNow, k, Drop(Input, http.size))
      BY <1>4, <3>3, HandshakeNow
    <3> QED
      BY <1>1, <3>1, <3>4
  <2>4. Proceeds(n, w)
    <3>1. n \in consumed .. Len(rx.buf) /\ n - consumed = z
      BY <1>1, <2>1, <2>2
    <3> QED
      BY <1>5, <1>6, <1>7, <2>2, <2>3, <3>1 DEF Proceeds
  <2>5. w.handshake_complete
    BY <1>5, <1>7
  <2>6. CASE n = l
    <3>1. Return(n, between(rx.min_read_size, rx.max_read_size), w)
      BY <1>1, <1>7, <2>6 DEF Remainder, Offset, CurrentPolicy
    <3>2. rx.min_read_size \in Nat /\ rx.max_read_size \in Nat
      BY DEF WSInv, RxOK, RxState
    <3>3. rx.max_read_size = 0 \/ rx.min_read_size <= rx.max_read_size
      BY DEF WSInv, RxOK
    <3>4. rx.max_read_size = 0 \/ Len(rx.buf) - n < rx.max_read_size
      BY <1>1, <2>6, <3>2
    <3> QED
      BY <2>4, <2>5, <3>1, <3>2, <3>3, <3>4, ReturnKeeps
  <2>7. CASE n # l
    <3>1. GoOn(n, w)
      BY <1>1, <1>7, <2>7 DEF Remainder, Offset
    <3> QED
      BY <1>4, <2>4, <2>5, <3>1, GoOnKeeps
  <2> QED
    BY <2>6, <2>7
<1>8. CASE Fail("application", w)
  BY <1>6, <1>8, FailKeeps
<1>9. CASE ~valid /\ Fail("protocol", w)
  <2>1. http.passes # Checks(role)
    BY <1>2, <1>9, Zenon
  <2> QED
    BY <1>6, <1>9, <2>1, FailKeeps
<1> QED
  BY <1>4, <1>7, <1>8, <1>9

-----------------------------------------------------------------------------
(* The transport *)

(* A step that moves bytes at most from the socket to the buffer. *)
LEMMA QuietKeeps ==
  ASSUME WSInv, UNCHANGED <<role, peerVars, ws, got, failed>>, Input' = Input, FlagsOK', RxOK',
         wire' \in Seq(0 .. EndOfHeader)
  PROVE  WSInv'
<1>1. /\ role' = role /\ http' = http /\ frames' = frames /\ open' = open /\ conduct' = conduct
      /\ sent' = sent /\ pings' = pings /\ ws' = ws /\ got' = got /\ failed' = failed
  BY DEF peerVars
<1>2. PeerOK'
  BY <1>1 DEF WSInv, PeerOK
<1>3. Output' = Output /\ PeerNow' = PeerNow /\ PeerKey' = PeerKey
  BY <1>1 DEF Output, PeerNow, PeerKey
<1>4. got' \in Seq(Unit) /\ LayersOK(role, ws, Output, sent, pings)'
  BY <1>1, <1>3 DEF WSInv
<1>5. failed' = "no" => Live(role, ws, Output)' /\ TracksNow'
  <2>1. failed' = "no" => Live(role, ws, Output) /\ Tracks(PeerKey, PeerNow, LayerOf(ws, Output), Input)
    BY <1>1 DEF WSInv, TracksNow
  <2> QED
    BY <1>1, <1>3, <2>1 DEF TracksNow
<1>6. OnlyBadPeersFail'
  BY <1>1 DEF WSInv, OnlyBadPeersFail
<1> QED
  BY <1>2, <1>4, <1>5, <1>6 DEF WSInv

(* The type of the bytes in the socket. *)
LEMMA WireNow ==
  ASSUME WSInv
  PROVE  wire \in Seq(0 .. EndOfHeader)
  BY DEF WSInv, PeerOK

(* The multiplexer starts a read event. *)
LEMMA ReadEventKeeps ==
  ASSUME WSInv, ReadEvent
  PROVE  WSInv'
<1>1. /\ failed = "no" /\ rx' = Prepare(rx) /\ reads' = 0 /\ in_event' = TRUE /\ pollout' = writing
      /\ UNCHANGED <<role, peerVars, ws, got, failed>> /\ failed' = failed
      /\ wire' = wire /\ writing' = writing /\ consuming' = consuming /\ consumed' = consumed
      /\ ws' = ws
  BY DEF ReadEvent
<1>2. rx \in RxState
  BY DEF WSInv, RxOK
<1>3. PICK q : q = Prepare(rx) /\ q \in RxState /\ q.buf = rx.buf /\ q.min_read_size = rx.min_read_size
               /\ q.max_read_size = rx.max_read_size /\ q.max_read_size <= q.size
  BY <1>2, PrepareIs
<1>4. FlagsOK'
  BY <1>1 DEF WSInv, FlagsOK
<1>5. RxOK'
  BY <1>1, <1>3, ConstantsAre DEF WSInv, RxOK
<1>6. Input' = Input
  BY <1>1, <1>3 DEF Input
<1> QED
  BY <1>1, <1>4, <1>5, <1>6, WireNow, QuietKeeps

(* handle_read_event returns. *)
LEMMA ReadEndsKeeps ==
  ASSUME WSInv, ReadEnds
  PROVE  WSInv'
<1>1. /\ in_event' = FALSE /\ reads' = 0 /\ pollout' = FALSE
      /\ UNCHANGED <<role, peerVars, ws, got, failed>> /\ failed' = failed /\ rx' = rx
      /\ wire' = wire /\ writing' = writing /\ consuming' = consuming /\ consumed' = consumed
      /\ ws' = ws
  BY DEF ReadEnds
<1>2. FlagsOK'
  BY <1>1 DEF WSInv, FlagsOK
<1>3. RxOK'
  BY <1>1, ConstantsAre DEF WSInv, RxOK
<1>4. Input' = Input
  BY <1>1 DEF Input
<1> QED
  BY <1>1, <1>2, <1>3, <1>4, WireNow, QuietKeeps

(* The socket reports an error. *)
LEMMA ReadFailsKeeps ==
  ASSUME WSInv, ReadFails
  PROVE  WSInv'
<1>1. Fail("socket", ws) /\ UNCHANGED Outside
  BY DEF ReadFails
<1>2. Stays(ws)
  BY <1>1 DEF Stays, WSInv, Output
<1> QED
  BY <1>1, <1>2, FailKeeps

(* A sequence is what was taken and what is left. *)
LEMMA TakeDrop ==
  ASSUME NEW S, NEW s \in Seq(S), NEW n \in 0 .. Len(s)
  PROVE  /\ SubSeq(s, 1, n) \in Seq(S) /\ Len(SubSeq(s, 1, n)) = n
         /\ Drop(s, n) \in Seq(S) /\ SubSeq(s, 1, n) \o Drop(s, n) = s
<1>1. PICK l \in Nat : l = Len(s)
  OBVIOUS
<1>2. PICK a, d : a = SubSeq(s, 1, n) /\ d = Drop(s, n)
  OBVIOUS
<1>3. a \in Seq(S) /\ Len(a) = n /\ \A i \in 1 .. n : a[i] = s[i]
  <2>1. 1 \in Nat /\ 1 >= 1 /\ n \in Nat /\ n >= 1 - 1 /\ n - 1 + 1 = n /\ n <= Len(s)
    BY <1>1
  <2>2. /\ a \in Seq(S) /\ Len(a) = n - 1 + 1
        /\ \A i \in 1 .. (n - 1 + 1) : a[i] = s[i + 1 - 1]
    BY <1>2, <2>1, SubFacts
  <2> QED
    BY <2>1, <2>2
<1>4. d \in Seq(S) /\ Len(d) = Len(s) - n /\ \A i \in 1 .. (Len(s) - n) : d[i] = s[n + i]
  BY <1>2, DropFacts
<1>5. PICK c : c = a \o d
  OBVIOUS
<1>6. /\ c \in Seq(S) /\ Len(c) = Len(a) + Len(d) /\ \A i \in 1 .. Len(a) : c[i] = a[i]
      /\ \A i \in 1 .. Len(d) : c[Len(a) + i] = d[i]
  <2>1. a \in Seq(S) /\ d \in Seq(S)
    BY <1>3, <1>4
  <2> QED
    BY <1>5, <2>1, CatFacts
<1>7. Len(c) = l
  BY <1>1, <1>3, <1>4, <1>6
<1>8. ASSUME NEW i \in 1 .. l PROVE c[i] = s[i]
  <2>1. CASE i <= n
    <3>1. i \in 1 .. n
      BY <2>1
    <3> QED
      BY <1>3, <1>6, <3>1
  <2>2. CASE i > n
    <3>1. PICK j : j = i - n
      OBVIOUS
    <3>2. j \in 1 .. (l - n) /\ n + j = i
      BY <2>2, <3>1
    <3> QED
      BY <1>1, <1>3, <1>4, <1>6, <3>2
  <2> QED
    BY <2>1, <2>2
<1>9. c = s
  BY <1>1, <1>6, <1>7, <1>8, SeqEqual
<1> QED
  BY <1>2, <1>3, <1>4, <1>5, <1>9

(* A read moves bytes from the socket to the buffer; consume() may follow. *)
LEMMA ReadKeeps ==
  ASSUME WSInv, NEW n \in Cuts, Read(n)
  PROVE  WSInv'
<1>1. /\ Reads /\ wire' = Drop(wire, n) /\ rx' = Received(rx, SubSeq(wire, 1, n)) /\ reads' = reads + 1
      /\ consuming' = Ready(rx')
      /\ UNCHANGED <<role, peerVars, ws, got, failed>> /\ failed' = failed /\ ws' = ws
      /\ in_event' = in_event /\ writing' = writing /\ pollout' = pollout /\ consumed' = consumed
  BY DEF Read, Drop
<1>2. PICK b, v, max, min, sz : /\ b = rx.buf /\ v = wire /\ max = rx.max_read_size
                                /\ min = rx.min_read_size /\ sz = rx.size
  OBVIOUS
<1>3. /\ rx \in RxState /\ b \in Seq(Nat) /\ v \in Seq(Nat) /\ max \in Nat /\ min \in Nat /\ sz \in Nat
      /\ Len(b) \in Nat /\ v \in Seq(0 .. EndOfHeader)
  BY <1>2, InputIs, WireNow DEF WSInv, RxOK, RxState
<1>4. in_event /\ ~consuming /\ max > 0 /\ reads < max_consecutive_reads /\ Len(b) < max
  <2>1. in_event /\ ~consuming /\ max > 0 /\ reads < max_consecutive_reads /\ ~(Len(b) >= max)
    BY <1>1, <1>2 DEF Reads, MayRead, IsFull, Offset
  <2> QED
    BY <1>3, <2>1
<1>5. consumed = 0 /\ failed = "no"
  BY <1>4 DEF WSInv, RxOK, FlagsOK
<1>6. n \in Nat /\ n >= 1 /\ n <= Len(v) /\ n <= max - Len(b)
  <2>1. n \in 1 .. Most
    BY DEF Cuts
  <2>2. PICK x \in Nat, y \in Nat : x = Len(v) /\ y = max - Len(b)
    BY <1>3, <1>4
  <2>3. Most = IF x < y THEN x ELSE y
    BY <1>2, <2>2 DEF Most, Room, Offset
  <2>4. Most <= x /\ Most <= y /\ Most \in Nat
    BY <2>2, <2>3
  <2> QED
    BY <2>1, <2>2, <2>4
<1>7. PICK a, d : a = SubSeq(v, 1, n) /\ d = Drop(v, n)
  OBVIOUS
<1>8. a \in Seq(Nat) /\ Len(a) = n /\ d \in Seq(Nat) /\ a \o d = v
  <2>1. n \in 0 .. Len(v) /\ v \in Seq(Nat)
    BY <1>3, <1>6
  <2> QED
    BY <1>7, <2>1, TakeDrop
<1>9. d \in Seq(0 .. EndOfHeader)
  <2>1. PICK T : T = 0 .. EndOfHeader
    OBVIOUS
  <2>2. v \in Seq(T) /\ n \in 0 .. Len(v)
    BY <1>3, <1>6, <2>1
  <2>3. d \in Seq(T)
    BY <1>7, <2>2, TakeDrop
  <2> QED
    BY <2>1, <2>3
<1>10. PICK c : c = b \o a
  OBVIOUS
<1>11. c \in Seq(Nat) /\ Len(c) = Len(b) + n
  <2>1. b \in Seq(Nat) /\ a \in Seq(Nat)
    BY <1>3, <1>8
  <2>2. c \in Seq(Nat) /\ Len(c) = Len(b) + Len(a)
    BY <1>10, <2>1, CatFacts
  <2> QED
    BY <1>8, <2>2
<1>12. PICK q : q = [rx EXCEPT !.buf = c]
  OBVIOUS
<1>13. rx' = q
  BY <1>1, <1>2, <1>7, <1>10, <1>12 DEF Received
<1>14. q \in RxState /\ q.buf = c /\ q.min_read_size = min /\ q.max_read_size = max /\ q.size = sz
  BY <1>2, <1>3, <1>11, <1>12 DEF RxState
<1>15. consuming' = (Len(c) >= min)
  BY <1>1, <1>13, <1>14 DEF Ready, Offset
<1>16. FlagsOK'
  <2>1. consuming' \in BOOLEAN
    <3>1. CASE Len(c) >= min
      BY <1>15, <3>1
    <3>2. CASE ~(Len(c) >= min)
      BY <1>15, <3>2
    <3> QED
      BY <3>1, <3>2
  <2>2. failed' = "no" /\ in_event' \in BOOLEAN /\ writing' \in BOOLEAN /\ pollout' \in BOOLEAN
    BY <1>1, <1>5 DEF WSInv, FlagsOK
  <2> QED
    BY <2>1, <2>2 DEF FlagsOK
<1>17. RxOK'
  <2>1. reads' \in 0 .. max_consecutive_reads
    <3>1. reads \in Nat
      BY DEF WSInv, RxOK
    <3> QED
      BY <1>1, <1>4, <3>1, ConstantsAre
  <2>2. Len(c) \in Nat /\ Len(c) <= max /\ Len(c) # 0
    BY <1>3, <1>4, <1>6, <1>11
  <2>3. c # <<>>
    BY <2>2
  <2>4. min <= max
    BY <1>2, <1>3, <1>4 DEF WSInv, RxOK
  <2>5. ~(Len(c) >= min) => Len(c) < max
    BY <1>3, <2>2, <2>4
  <2>6. ~consuming' => Len(c) < max
    BY <1>15, <2>5, Zenon
  <2>7. max <= sz
    BY <1>2, <1>4 DEF WSInv, RxOK
  <2>8. ~ws.handshake_complete => max = max_http_size
    BY <1>2, <1>5 DEF WSInv, RxOK
  <2>9. consumed' = 0 /\ 0 \in 0 .. Len(c)
    BY <1>1, <1>5, <2>2
  <2> QED
    BY <1>1, <1>13, <1>14, <2>1, <2>3, <2>4, <2>6, <2>7, <2>8, <2>9, Zenon DEF RxOK
<1>18. Input' = Input
  <2>1. Drop(b, 0) = b /\ Drop(c, 0) = c
    BY <1>3, <1>11, DropNone
  <2>2. (b \o a) \o d = b \o (a \o d)
    <3>1. b \in Seq(Nat) /\ a \in Seq(Nat) /\ d \in Seq(Nat)
      BY <1>3, <1>8
    <3> QED
      BY <3>1, CatAssociative
  <2>3. Input' = c \o d
    BY <1>1, <1>2, <1>5, <1>7, <1>13, <1>14, <2>1 DEF Input
  <2>4. Input = b \o v
    BY <1>2, <1>5, <2>1 DEF Input
  <2> QED
    BY <1>8, <1>10, <2>2, <2>3, <2>4
<1>19. wire' \in Seq(0 .. EndOfHeader)
  BY <1>1, <1>2, <1>7, <1>9
<1> QED
  BY <1>1, <1>16, <1>17, <1>18, <1>19, QuietKeeps

(* A step that moves units at most from write_buf to the socket. *)
LEMMA WritesKeep ==
  ASSUME WSInv, UNCHANGED <<role, peerVars, wire, rx, reads, in_event, pollout, failed, consuming, consumed>>,
         writing' \in BOOLEAN, got' \in Seq(Unit), Output' = Output,
         NEW w, ws' = w, LayersOK(role, w, Output, sent, pings), LayerOf(w, Output) = LayerOf(ws, Output),
         w.handshake_complete = ws.handshake_complete,
         Live(role, ws, Output) => Live(role, w, Output)
  PROVE  WSInv'
<1>1. /\ role' = role /\ http' = http /\ frames' = frames /\ open' = open /\ conduct' = conduct
      /\ sent' = sent /\ pings' = pings /\ wire' = wire /\ rx' = rx /\ reads' = reads
      /\ in_event' = in_event /\ pollout' = pollout /\ failed' = failed
      /\ consuming' = consuming /\ consumed' = consumed
  BY DEF peerVars
<1>2. PeerOK' /\ PeerNow' = PeerNow /\ PeerKey' = PeerKey /\ Input' = Input
  BY <1>1 DEF WSInv, PeerOK, PeerNow, PeerKey, Input
<1>3. FlagsOK'
  BY <1>1 DEF WSInv, FlagsOK
<1>4. RxOK'
  <2>1. /\ rx' \in RxState /\ reads' \in 0 .. max_consecutive_reads /\ consumed' \in 0 .. Len(rx'.buf)
        /\ rx'.max_read_size = 0 \/ rx'.min_read_size <= rx'.max_read_size
        /\ failed' = "no" /\ ~consuming' => rx'.max_read_size = 0 \/ Len(rx'.buf) < rx'.max_read_size
        /\ in_event' => rx'.max_read_size <= rx'.size
        /\ ~consuming' => consumed' = 0
    BY <1>1 DEF WSInv, RxOK
  <2>2. PICK h : h = ws.handshake_complete
    OBVIOUS
  <2>3. /\ failed = "no" /\ ~h => rx.max_read_size = max_http_size /\ consumed = 0
        /\ consuming /\ ~h => rx.buf # <<>>
    BY <2>2, Zenon DEF WSInv, RxOK
  <2>4. ws'.handshake_complete = h
    BY <2>2
  <2>5. /\ failed' = "no" /\ ~ws'.handshake_complete => rx'.max_read_size = max_http_size /\ consumed' = 0
        /\ consuming' /\ ~ws'.handshake_complete => rx'.buf # <<>>
    <3>1. failed' = failed /\ rx' = rx /\ consumed' = consumed /\ (consuming' <=> consuming)
      BY <1>1
    <3>2. failed' = "no" /\ ~ws'.handshake_complete => rx'.max_read_size = max_http_size /\ consumed' = 0
      BY <2>3, <2>4, <3>1, Zenon
    <3>3. consuming' /\ ~ws'.handshake_complete => rx'.buf # <<>>
      BY <2>3, <2>4, <3>1, Zenon
    <3> QED
      BY <3>2, <3>3
  <2> QED
    BY <2>1, <2>5, Zenon DEF RxOK
<1>5. LayersOK(role, ws, Output, sent, pings)'
  BY <1>1
<1>6. failed' = "no" => Live(role, ws, Output)' /\ TracksNow'
  <2>1. failed' = "no" => Live(role, ws, Output) /\ Tracks(PeerKey, PeerNow, LayerOf(ws, Output), Input)
    BY <1>1 DEF WSInv, TracksNow
  <2> QED
    BY <1>1, <1>2, <2>1 DEF TracksNow
<1>7. OnlyBadPeersFail'
  BY <1>1 DEF WSInv, OnlyBadPeersFail
<1> QED
  BY <1>2, <1>3, <1>4, <1>5, <1>6, <1>7 DEF WSInv

(* write() takes the first units of the buffer; the output is the same. *)
LEMMA SplitOutput ==
  ASSUME NEW g \in Seq(Unit), NEW b \in Seq(Unit), NEW n \in 0 .. Len(b)
  PROVE  /\ g \o SubSeq(b, 1, n) \in Seq(Unit) /\ Drop(b, n) \in Seq(Unit)
         /\ (g \o SubSeq(b, 1, n)) \o Drop(b, n) = g \o b
<1>1. PICK c, d : c = SubSeq(b, 1, n) /\ d = Drop(b, n)
  OBVIOUS
<1>2. c \in Seq(Unit) /\ d \in Seq(Unit) /\ c \o d = b
  BY <1>1, TakeDrop
<1>3. g \o c \in Seq(Unit)
  BY <1>2, CatFacts
<1>4. (g \o c) \o d = g \o (c \o d)
  <2>1. PICK S : S = Unit
    OBVIOUS
  <2>2. g \in Seq(S) /\ c \in Seq(S) /\ d \in Seq(S)
    BY <1>2, <2>1
  <2> QED
    BY <2>2, ConcatAssociative, SMTT(30)
<1> QED
  BY <1>1, <1>2, <1>3, <1>4

(* handle_write_event *)
LEMMA WriteEventKeeps ==
  ASSUME WSInv, NEW more \in BOOLEAN, NEW again \in BOOLEAN, NEW n \in 0 .. Len(ws.write_buf),
         WriteEvent(more, n, again)
  PROVE  WSInv'
<1>1. PICK b, rest : b = ws.write_buf /\ rest = Drop(b, n)
  OBVIOUS
<1>2. /\ UNCHANGED <<role, peerVars, wire, rx, reads, in_event, pollout, failed, consuming, consumed>>
      /\ ws' = [ws EXCEPT !.write_buf = rest, !.messages = @ \/ more] /\ got' = got \o SubSeq(b, 1, n)
      /\ more => prepare_send(ws)
  BY <1>1, Zenon DEF WriteEvent, Drop
<1>w. writing' \in BOOLEAN
  <2>1. writing' = (again \/ rest # <<>>)
    BY <1>1, Zenon DEF WriteEvent, Drop
  <2> QED
    BY <2>1, Zenon
<1>3. LayersOK(role, ws, Output, sent, pings) /\ ws \in Layers /\ got \in Seq(Unit)
  BY DEF WSInv, LayersOK
<1>4. b \in Seq(Unit) /\ n \in 0 .. Len(b)
  BY <1>1, <1>3 DEF Layers
<1>5. /\ got \o SubSeq(b, 1, n) \in Seq(Unit) /\ rest \in Seq(Unit)
      /\ (got \o SubSeq(b, 1, n)) \o rest = got \o b
  BY <1>1, <1>3, <1>4, SplitOutput
<1>6. PICK g \in BOOLEAN : g = (ws.messages \/ more)
  BY Zenon
<1>7. PICK w : w = [ws EXCEPT !.write_buf = rest, !.messages = g]
  OBVIOUS
<1>8. ws' = w
  BY <1>2, <1>6, <1>7, Zenon
<1>9. w \in Layers
  BY <1>3, <1>5, <1>6, <1>7 DEF Layers
<1>10. w.handshake_complete = ws.handshake_complete
  BY <1>3, <1>7 DEF Layers
<1>11. /\ w.app = ws.app /\ w.write_buf = rest /\ w.opcode = ws.opcode
       /\ w.payload_buf = ws.payload_buf /\ w.delivered = ws.delivered
  BY <1>3, <1>7 DEF Layers
<1>12. w.messages = g
  BY <1>3, <1>7 DEF Layers
<1>13. Attached(w) <=> Attached(ws)
  BY <1>11 DEF Attached
<1>14. ~ws.handshake_complete => g = FALSE
  <2>1. ~ws.handshake_complete => ws.messages = FALSE
    BY <1>3, Zenon DEF LayersOK
  <2>2. ~ws.handshake_complete => ~more
    BY <1>2, Zenon DEF prepare_send
  <2> QED
    BY <1>6, <2>1, <2>2, Zenon
<1>15. LayersOK(role, w, Output, sent, pings)
  <2>1. /\ Output \in Seq(Unit)
        /\ ~ws.handshake_complete =>
             /\ ws.app = "none" /\ ws.delivered = <<>>
             /\ ws.opcode = nil_code /\ ws.payload_buf = <<>>
        /\ ws.handshake_complete /\ ~Attached(ws) => role = "client"
        /\ ws.handshake_complete => Output # <<>> /\ Output[1] = FirstUnit(role)
        /\ HasFrame(Output) \/ ws.delivered # <<>> => Attached(ws)
        /\ Answers(Output, pings) /\ IsPre(ws.delivered, sent)
    BY <1>3, Zenon DEF LayersOK
  <2>2. /\ ~w.handshake_complete =>
             /\ w.app = "none" /\ w.messages = FALSE /\ w.delivered = <<>>
             /\ w.opcode = nil_code /\ w.payload_buf = <<>>
    BY <1>10, <1>11, <1>12, <1>14, <2>1, Zenon
  <2>3. /\ w.handshake_complete /\ ~Attached(w) => role = "client"
        /\ w.handshake_complete => Output # <<>> /\ Output[1] = FirstUnit(role)
    BY <1>10, <1>13, <2>1, Zenon
  <2>4. HasFrame(Output) \/ w.delivered # <<>> => Attached(w)
    BY <1>11, <1>13, <2>1, Zenon
  <2>5. IsPre(w.delivered, sent)
    BY <1>11, <2>1
  <2> QED
    BY <1>9, <2>1, <2>2, <2>3, <2>4, <2>5, Zenon DEF LayersOK
<1>16. LayerOf(w, Output) = LayerOf(ws, Output)
  BY <1>10, <1>11 DEF LayerOf
<1>17. Live(role, ws, Output) => Live(role, w, Output)
  BY <1>10, <1>13, Zenon DEF Live
<1>18. got' \in Seq(Unit) /\ Output' = Output
  BY <1>1, <1>2, <1>5, <1>8, <1>11 DEF Output
<1> QED
  BY <1>2, <1>w, <1>8, <1>10, <1>15, <1>16, <1>17, <1>18, WritesKeep

(* handle_write_event on a broken socket *)
LEMMA WriteFailsKeeps ==
  ASSUME WSInv, WriteFails
  PROVE  WSInv'
<1>1. PICK w : w = abort(ws)
  OBVIOUS
<1>2. /\ UNCHANGED <<role, peerVars, wire, rx, reads, in_event, pollout, failed, consuming, consumed>>
      /\ writing' = FALSE /\ ws' = w /\ got' = got
  BY <1>1 DEF WriteFails
<1>3. LayersOK(role, ws, Output, sent, pings) /\ ws \in Layers /\ got \in Seq(Unit)
  BY DEF WSInv, LayersOK
<1>4. /\ LayersOK(role, w, Output, sent, pings)
      /\ Live(role, ws, Output) => Live(role, w, Output)
      /\ LayerOf(w, Output) = LayerOf(ws, Output) /\ w.write_buf = ws.write_buf
  BY <1>1, <1>3, AbortKeeps
<1>5. w.handshake_complete = ws.handshake_complete
  BY <1>1, <1>3, AbortIs
<1>6. got' \in Seq(Unit) /\ Output' = Output
  BY <1>2, <1>3, <1>4 DEF Output
<1> QED
  BY <1>2, <1>4, <1>5, <1>6, WritesKeep

-----------------------------------------------------------------------------
(* The peer *)

(* A step of the peer alone, while the endpoint reads. *)
PeerStep ==
  /\ failed = "no"
  /\ UNCHANGED <<role, rx, reads, in_event, writing, pollout, failed, consuming, consumed, ws, got>>

(* Answers stay answers when the peer sends one more ping. *)
LEMMA AnswersGrow ==
  ASSUME NEW out, NEW png \in Seq(Seq(Bytes)), NEW e \in Seq(Bytes), Answers(out, png)
  PROVE  Answers(out, Append(png, e))
<1>1. PICK q : q = Append(png, e)
  OBVIOUS
<1>2. PICK n \in Nat : n = Len(png)
  OBVIOUS
<1>3. DOMAIN png = 1 .. n /\ DOMAIN q = 1 .. (n + 1) /\ \A i \in 1 .. n : q[i] = png[i]
  BY <1>1, <1>2
<1>4. \A j : j \in DOMAIN png => j \in DOMAIN q /\ q[j] = png[j]
  BY <1>3
<1>5. Answers(out, q)
  BY <1>4, Zenon DEF Answers
<1> QED
  BY <1>1, <1>5

(* A step of the peer adds to the end of the input. *)
LEMMA PeerKeeps ==
  ASSUME WSInv, PeerStep, PeerOK',
         sent' = sent \/ \E e \in Message : sent' = Append(sent, e),
         pings' = pings \/ \E e \in Seq(Bytes) : pings' = Append(pings, e),
         NEW b, b \in Seq(Nat), wire' = wire \o b,
         Tracks(PeerKey, PeerNow', LayerOf(ws, Output), Input \o b)
  PROVE  WSInv'
<1>1. /\ failed = "no" /\ role' = role /\ rx' = rx /\ reads' = reads /\ in_event' = in_event
      /\ writing' = writing /\ pollout' = pollout /\ failed' = failed /\ consuming' = consuming
      /\ consumed' = consumed /\ ws' = ws /\ got' = got
  BY DEF PeerStep
<1>2. FlagsOK' /\ got' \in Seq(Unit) /\ Output' = Output /\ PeerKey' = PeerKey
  BY <1>1 DEF WSInv, FlagsOK, Output, PeerKey
<1>3. RxOK'
  BY <1>1 DEF WSInv, RxOK
<1>4. LayersOK(role, ws, Output, sent, pings)'
  <2>1. LayersOK(role, ws, Output, sent, pings)
    BY DEF WSInv
  <2>2. sent \in Seq(Message) /\ pings \in Seq(Seq(Bytes))
    BY DEF WSInv, PeerOK
  <2>3. IsPre(ws.delivered, sent')
    <3>1. IsPre(ws.delivered, sent) /\ ws.delivered \in Seq(Message)
      BY <2>1 DEF LayersOK, Layers
    <3>2. CASE sent' = sent
      BY <3>1, <3>2
    <3>3. CASE \E e \in Message : sent' = Append(sent, e)
      BY <2>2, <3>1, <3>3, PreAppend
    <3> QED
      BY <3>2, <3>3
  <2>4. Answers(Output, pings')
    <3>1. Answers(Output, pings)
      BY <2>1 DEF LayersOK
    <3>2. CASE pings' = pings
      BY <3>1, <3>2
    <3>3. CASE \E e \in Seq(Bytes) : pings' = Append(pings, e)
      BY <2>2, <3>1, <3>3, AnswersGrow
    <3> QED
      BY <3>2, <3>3
  <2>5. LayersOK(role, ws, Output, sent', pings')
    BY <2>1, <2>3, <2>4, Zenon DEF LayersOK
  <2> QED
    BY <1>1, <1>2, <2>5
<1>5. Input' = Input \o b
  <2>1. PICK d, v : d = Drop(rx.buf, consumed) /\ v = wire
    OBVIOUS
  <2>2. d \in Seq(Nat) /\ v \in Seq(Nat)
    <3>1. PICK c, a : c = rx.buf /\ a = consumed
      OBVIOUS
    <3>2. c \in Seq(Nat) /\ a \in 0 .. Len(c) /\ v \in Seq(Nat)
      BY <2>1, <3>1, InputIs DEF WSInv
    <3> QED
      BY <2>1, <3>1, <3>2, DropFacts
  <2>3. (d \o v) \o b = d \o (v \o b)
    BY <2>2, CatAssociative
  <2>4. Input = d \o v /\ Input' = d \o wire'
    BY <1>1, <2>1 DEF Input
  <2>5. wire' = v \o b
    BY <2>1
  <2> QED
    BY <2>3, <2>4, <2>5
<1>6. Live(role, ws, Output)' /\ TracksNow'
  <2>1. Live(role, ws, Output)
    BY <1>1 DEF WSInv
  <2>2. TracksNow'
    BY <1>1, <1>2, <1>5 DEF TracksNow
  <2> QED
    BY <1>1, <1>2, <2>1, <2>2
<1>7. OnlyBadPeersFail'
  BY <1>1 DEF OnlyBadPeersFail
<1> QED
  BY <1>2, <1>3, <1>4, <1>6, <1>7 DEF WSInv

(* The peer sends its part of the handshake. *)
LEMMA PeerSendsHttpKeeps ==
  ASSUME WSInv, NEW size \in HttpSizes, NEW passes, passes \subseteq Checks(role),
         PeerSendsHttp(size, passes)
  PROVE  WSInv'
<1>1. /\ http = NoHttp /\ http' = [size |-> size, passes |-> passes]
      /\ wire' = wire \o [i \in 1 .. size |-> IF i = size THEN EndOfHeader ELSE HttpByte]
      /\ frames' = frames /\ open' = open /\ conduct' = conduct /\ sent' = sent /\ pings' = pings
      /\ PeerStep /\ role' = role
  BY DEF PeerSendsHttp, PeerStep
<1>2. size \in Nat
  BY ConstantsAre
<1>3. PICK h : h = http' /\ h.size = size /\ h.passes = passes
  BY <1>1
<1>4. PICK b : b = HttpBytes(h)
  OBVIOUS
<1>5. wire' = wire \o b
  BY <1>1, <1>3, <1>4 DEF HttpBytes
<1>6. b \in Seq(Nat) /\ b \in Seq(0 .. EndOfHeader)
  <2>1. b \in Seq(Nat)
    BY <1>2, <1>3, <1>4, HttpSeq
  <2>2. b \in [1 .. size -> 0 .. EndOfHeader]
    BY <1>3, <1>4 DEF HttpBytes, EndOfHeader, HttpByte
  <2>3. b \in Seq(0 .. EndOfHeader)
    BY <1>2, <2>2, FunSeq
  <2> QED
    BY <2>1, <2>3
<1>7. PeerOK'
  <2>1. wire' \in Seq(0 .. EndOfHeader)
    <3>1. PICK T, v : T = 0 .. EndOfHeader /\ v = wire
      OBVIOUS
    <3>2. v \in Seq(T) /\ b \in Seq(T)
      BY <1>6, <3>1, WireNow
    <3>3. v \o b \in Seq(T)
      BY <3>2, CatFacts
    <3> QED
      BY <1>5, <3>1, <3>3
  <2>2. http'.size \in HttpSizes /\ http'.passes \subseteq Checks(role)
    BY <1>3
  <2> QED
    BY <1>1, <2>1, <2>2 DEF WSInv, PeerOK, Checks
<1>8. Tracks(PeerKey, PeerNow', LayerOf(ws, Output), Input \o b)
  <2>1. PICK p, q : p = PeerNow /\ q = PeerNow'
    OBVIOUS
  <2>2. p.http = NoHttp /\ q.http = h
    BY <1>1, <1>3, <2>1 DEF PeerNow
  <2>3. q.conduct = p.conduct /\ q.open = p.open /\ q.sent = p.sent /\ q.pings = p.pings
    BY <1>1, <2>1 DEF PeerNow
  <2>4. http_ok(q)
    BY <1>2, <1>3, <2>2 DEF http_ok
  <2>5. Tracks(PeerKey, p, LayerOf(ws, Output), Input)
    BY <1>1, <2>1 DEF WSInv, TracksNow, PeerStep
  <2>6. Tracks(PeerKey, q, LayerOf(ws, Output), Input \o HttpBytes(q.http))
    BY <2>2, <2>3, <2>4, <2>5, TracksHttp
  <2> QED
    BY <1>4, <2>1, <2>2, <2>6
<1> QED
  BY <1>1, <1>5, <1>6, <1>7, <1>8, PeerKeeps

(* The data of a frame have the length that its header claims. *)
LEMMA DataIs ==
  ASSUME NEW k, k.len \in Nat, NEW i \in Nat
  PROVE  Data(k, i) \in Seq(Bytes) /\ Len(Data(k, i)) = k.len
<1>1. \A j \in 1 .. k.len : (16 * i + j) % 256 \in Bytes
  <2> TAKE j \in 1 .. k.len
  <2>1. PICK x \in Nat : x = 16 * i + j
    OBVIOUS
  <2>2. x % 256 \in Nat /\ x % 256 <= 255
    OBVIOUS
  <2> QED
    BY <2>1, <2>2, BytesAre
<1>2. Data(k, i) \in [1 .. k.len -> Bytes]
  BY <1>1 DEF Data
<1> QED
  BY <1>2, FunSeq

(* The judgement of the model and the one of the proof agree. *)
LEMMA JudgeIs ==
  ASSUME NEW k \in FrameKinds, open \in Opens
  PROVE  /\ Judge(k) = "proper" <=> Proper(PeerKey, open, k)
         /\ Judge(k) \in {"proper", "interleaved", "closed", "improper"}
<1>1. Judge(k) \in {"proper", "interleaved", "closed", "improper"}
  BY DEF Judge
<1>2. HeaderOf(k) = HeadOf(PeerKey, k)
  BY DEF HeaderOf, HeadOf
<1>3. Judge(k) = "proper" <=>
        WellFormed(k) /\ ~(IsControl(k) /\ open.opcode # nil_code) /\ k.opcode # connection_close
  BY DEF Judge, Continues
<1>4. CASE k.opcode \in {ping, pong}
  <2>1. IsControl(k) /\ k.opcode # connection_close
    BY <1>4, Codes DEF IsControl
  <2>2. WellFormed(k) <=> /\ k.flags \in {0, fin_flag} /\ k.opcode \in opcodes
                          /\ k.len < max_frame_size - Len(HeadOf(PeerKey, k))
                          /\ k.flags = fin_flag
    BY <1>2, <2>1, Zenon DEF WellFormed
  <2>3. Proper(PeerKey, open, k) <=>
          /\ k.flags \in {0, fin_flag} /\ k.opcode \in opcodes \ {connection_close}
          /\ k.len < max_frame_size - Len(HeadOf(PeerKey, k))
          /\ k.flags = fin_flag /\ open.opcode = nil_code
    BY <1>4, Zenon DEF Proper
  <2>4. k.opcode \in opcodes \ {connection_close} <=> k.opcode \in opcodes
    BY <2>1
  <2> QED
    BY <1>1, <1>3, <2>1, <2>2, <2>3, <2>4, Zenon
<1>5. CASE k.opcode = connection_close
  <2>1. ~Proper(PeerKey, open, k)
    BY <1>5 DEF Proper
  <2> QED
    BY <1>1, <1>3, <1>5, <2>1, Zenon
<1>6. CASE k.opcode \notin {ping, pong, connection_close}
  <2>1. ~IsControl(k) /\ k.opcode # connection_close /\ k.opcode \notin {ping, pong}
    BY <1>6 DEF IsControl
  <2>2. WellFormed(k) <=> /\ k.flags \in {0, fin_flag} /\ k.opcode \in opcodes
                          /\ k.len < max_frame_size - Len(HeadOf(PeerKey, k))
                          /\ (open.opcode # nil_code) = (k.opcode = continuation_frame)
                          /\ Len(open.payload) + k.len <= max_frame_size
    BY <1>2, <2>1, Zenon DEF WellFormed, Continues
  <2>3. Proper(PeerKey, open, k) <=>
          /\ k.flags \in {0, fin_flag} /\ k.opcode \in opcodes \ {connection_close}
          /\ k.len < max_frame_size - Len(HeadOf(PeerKey, k))
          /\ (open.opcode # nil_code <=> k.opcode = continuation_frame)
          /\ Len(open.payload) + k.len <= max_frame_size
    BY <2>1, Zenon DEF Proper
  <2>4. k.opcode \in opcodes \ {connection_close} <=> k.opcode \in opcodes
    BY <2>1
  <2>5. ((open.opcode # nil_code) = (k.opcode = continuation_frame))
          <=> (open.opcode # nil_code <=> k.opcode = continuation_frame)
    OBVIOUS
  <2> QED
    BY <1>1, <1>3, <2>1, <2>2, <2>3, <2>4, <2>5, Zenon
<1> QED
  BY <1>4, <1>5, <1>6

(* The peer sends a frame. *)
LEMMA PeerSendsFrameKeeps ==
  ASSUME WSInv, NEW k \in FrameKinds, PeerSendsFrame(k)
  PROVE  WSInv'
<1>1. PICK data : data = IF k.len > MaxPayload THEN <<>> ELSE Data(k, frames + 1)
  OBVIOUS
<1>2. PICK f : f = [kind |-> k, data |-> data]
  OBVIOUS
<1>3. f.kind = k /\ f.data = data
  BY <1>2
<1>4. open \in Opens /\ frames \in 0 .. MaxFrames /\ sent \in Seq(Message) /\ pings \in Seq(Seq(Bytes))
  BY DEF WSInv, PeerOK
<1>5. /\ http # NoHttp /\ failed = "no" /\ conduct = "proper" /\ frames < MaxFrames
      /\ frames' = frames + 1 /\ wire' = wire \o HeaderOf(k) \o mask_data(PeerKey, data)
      /\ conduct' = Judge(k)
      /\ pings' = IF Judge(k) = "proper" /\ k.opcode = ping THEN Append(pings, data) ELSE pings
      /\ open' = IF ~(Judge(k) = "proper") \/ IsControl(k) THEN open
                 ELSE IF k.flags = fin_flag THEN NoMessage ELSE Joined(open, f)
      /\ sent' = IF Judge(k) = "proper" /\ ~IsControl(k) /\ k.flags = fin_flag
                 THEN Append(sent, Joined(open, f)) ELSE sent
      /\ role' = role /\ http' = http /\ PeerStep
  BY <1>1, <1>3, Zenon DEF PeerSendsFrame, Joined, Continues, PeerStep
<1>6. data \in Seq(Bytes) /\ (k.len <= MaxPayload => Len(data) = k.len)
  <2>1. k.len \in Nat /\ MaxPayload \in Nat /\ frames + 1 \in Nat
    BY <1>4, KindFacts, ConstantsAre
  <2>2. CASE k.len > MaxPayload
    <3>1. data = <<>> /\ ~(k.len <= MaxPayload)
      BY <1>1, <2>1, <2>2
    <3> QED
      BY <3>1
  <2>3. CASE ~(k.len > MaxPayload)
    <3>1. data = Data(k, frames + 1)
      BY <1>1, <2>3
    <3>2. Data(k, frames + 1) \in Seq(Bytes) /\ Len(Data(k, frames + 1)) = k.len
      BY <2>1, DataIs
    <3> QED
      BY <3>1, <3>2
  <2> QED
    BY <2>2, <2>3
<1>7. f \in FrameRec
  BY <1>2, <1>3, <1>6 DEF FrameRec
<1>8. PICK b : b = FrameBytes(PeerKey, f)
  OBVIOUS
<1>9. b \in Seq(Bytes) /\ b \in Seq(Nat) /\ b \in Seq(0 .. EndOfHeader)
  <2>1. b \in Seq(Bytes)
    BY <1>7, <1>8, KeysAre, FrameFacts
  <2>2. \A x \in Bytes : x \in 0 .. EndOfHeader
    BY BytesAre DEF EndOfHeader
  <2>3. b \in Seq(0 .. EndOfHeader)
    BY <2>1, <2>2, WiderSeq
  <2> QED
    BY <2>1, <2>3, BytesSeq
<1>10. wire' = wire \o b
  <2>1. PICK v, h, d : v = wire /\ h = HeadOf(PeerKey, k) /\ d = mask_data(PeerKey, data)
    OBVIOUS
  <2>2. wire' = (v \o h) \o d /\ b = h \o d
    BY <1>3, <1>5, <1>8, <2>1 DEF FrameBytes, HeadOf, HeaderOf
  <2>3. v \in Seq(Nat) /\ h \in Seq(Nat) /\ d \in Seq(Nat)
    <3>1. v \in Seq(Nat)
      BY <2>1, InputIs DEF WSInv
    <3>2. h \in Seq(Bytes)
      BY <2>1, KeysAre, HeadFacts
    <3>3. d \in Seq(Bytes)
      BY <1>6, <2>1, KeysAre, MaskFacts
    <3> QED
      BY <3>1, <3>2, <3>3, BytesSeq
  <2>4. (v \o h) \o d = v \o (h \o d)
    BY <2>3, CatAssociative
  <2> QED
    BY <2>1, <2>2, <2>4
<1>11. /\ Judge(k) = "proper" <=> Proper(PeerKey, open, k)
       /\ Judge(k) \in {"proper", "interleaved", "closed", "improper"}
  BY <1>4, JudgeIs
<1>12. Joined(open, f) \in Message /\ Joined(open, f).payload \in Seq(Bytes)
       /\ (Judge(k) = "proper" /\ ~IsControl(k) => Joined(open, f) \in Opens)
  <2>1. PICK o, y : o = (IF open.opcode # nil_code THEN open.opcode ELSE k.opcode)
                    /\ y = open.payload \o data
    OBVIOUS
  <2>2. Joined(open, f) = [opcode |-> o, payload |-> y]
    BY <1>3, <2>1 DEF Joined
  <2>3. open.opcode \in {nil_code, text_frame, binary_frame} /\ open.payload \in Seq(Bytes)
    BY <1>4 DEF Opens
  <2>4. y \in Seq(Bytes)
    BY <1>6, <2>1, <2>3, CatFacts
  <2>5. o \in 0 .. 15
    <3>1. k.opcode \in 0 .. 15
      BY KindFacts
    <3> QED
      BY <2>1, <2>3, <3>1, Codes
  <2>6. Judge(k) = "proper" /\ ~IsControl(k) => o \in {text_frame, binary_frame}
    <3>1. SUFFICES ASSUME Proper(PeerKey, open, k), ~IsControl(k)
                   PROVE  o \in {text_frame, binary_frame}
      BY <1>11
    <3>2. k.opcode \in {continuation_frame, text_frame, binary_frame}
      BY <3>1 DEF Proper, IsControl, opcodes
    <3>3. open.opcode # nil_code <=> k.opcode = continuation_frame
      BY <3>1 DEF Proper, IsControl
    <3> QED
      BY <2>1, <2>3, <3>2, <3>3
  <2>7. [opcode |-> o, payload |-> y] \in Message
    BY <2>4, <2>5 DEF Message
  <2>8. o \in {text_frame, binary_frame} => [opcode |-> o, payload |-> y] \in Opens
    BY <2>4, Codes DEF Opens
  <2> QED
    BY <2>2, <2>4, <2>6, <2>7, <2>8
<1>13. open' \in Opens
  <2>1. NoMessage \in Opens
    BY DEF NoMessage, Opens
  <2> QED
    BY <1>4, <1>5, <1>12, <2>1
<1>14. sent' = sent \/ \E e \in Message : sent' = Append(sent, e)
  BY <1>5, <1>12
<1>15. pings' = pings \/ \E e \in Seq(Bytes) : pings' = Append(pings, e)
  BY <1>5, <1>6
<1>16. PeerOK'
  <2>1. wire' \in Seq(0 .. EndOfHeader)
    <3>1. PICK T, v : T = 0 .. EndOfHeader /\ v = wire
      OBVIOUS
    <3>2. v \in Seq(T) /\ b \in Seq(T)
      BY <1>9, <3>1, WireNow
    <3>3. v \o b \in Seq(T)
      BY <3>2, CatFacts
    <3> QED
      BY <1>10, <3>1, <3>3
  <2>2. sent' \in Seq(Message) /\ pings' \in Seq(Seq(Bytes))
    BY <1>4, <1>14, <1>15, AppendIn
  <2>3. frames' \in 0 .. MaxFrames
    BY <1>4, <1>5, ConstantsAre
  <2>4. conduct' \in {"proper", "interleaved", "closed", "improper"}
    BY <1>5, <1>11
  <2>5. /\ role' \in {"server", "client"} /\ http'.size \in HttpSizes \cup {0}
        /\ http'.passes \subseteq Checks(role')
        /\ http' = NoHttp \/ http'.size \in HttpSizes
    BY <1>5 DEF WSInv, PeerOK
  <2> QED
    BY <1>13, <2>1, <2>2, <2>3, <2>4, <2>5 DEF PeerOK, Checks
<1>17. Tracks(PeerKey, PeerNow', LayerOf(ws, Output), Input \o b)
  <2>1. PICK p, q : p = PeerNow /\ q = PeerNow'
    OBVIOUS
  <2>2. /\ p.http = http /\ p.conduct = conduct /\ p.open = open /\ p.sent = sent /\ p.pings = pings
        /\ q.http = http' /\ q.conduct = conduct' /\ q.open = open' /\ q.sent = sent' /\ q.pings = pings'
    BY <2>1 DEF PeerNow
  <2>3. \/ Proper(PeerKey, open, k) /\ Follows(p, f, q)
        \/ ~Proper(PeerKey, open, k) /\ conduct' # "proper"
    <3>1. CASE Proper(PeerKey, open, k)
      <4>1. IsControl(k) <=> k.opcode \in {ping, pong}
        BY <3>1 DEF IsControl, Proper
      <4>2. ping \in {ping, pong}
        OBVIOUS
      <4>3. Judge(k) = "proper"
        BY <1>11, <3>1
      <4>4. q.pings = IF k.opcode = ping THEN Append(p.pings, data) ELSE p.pings
        BY <1>5, <2>2, <4>3
      <4>5. q.open = IF k.opcode \in {ping, pong} THEN p.open
                     ELSE IF k.flags = fin_flag THEN NoMessage ELSE Joined(p.open, f)
        BY <1>5, <2>2, <4>1, <4>3
      <4>6. q.sent = IF k.opcode \notin {ping, pong} /\ k.flags = fin_flag
                     THEN Append(p.sent, Joined(p.open, f)) ELSE p.sent
        BY <1>5, <2>2, <4>1, <4>3
      <4> QED
        BY <1>3, <3>1, <4>4, <4>5, <4>6 DEF Follows
    <3>2. CASE ~Proper(PeerKey, open, k)
      BY <1>5, <1>11, <3>2
    <3> QED
      BY <3>1, <3>2
  <2>4. SendsFrame(PeerKey, p, f, q)
    BY <1>3, <1>4, <1>5, <1>7, <1>13, <1>14, <1>15, <2>2, <2>3, KeysAre DEF SendsFrame
  <2>5. http_ok(p)
    <3>1. NoHttp.size = 0
      BY DEF NoHttp
    <3>2. \A s \in HttpSizes : s \in Nat
      BY ConstantsAre
    <3>3. http = NoHttp \/ http.size \in HttpSizes
      BY DEF WSInv, PeerOK
    <3> QED
      BY <2>2, <3>1, <3>2, <3>3 DEF http_ok
  <2>6. Tracks(PeerKey, p, LayerOf(ws, Output), Input)
    BY <1>5, <2>1 DEF WSInv, TracksNow
  <2>7. Tracks(PeerKey, q, LayerOf(ws, Output), Input \o FrameBytes(PeerKey, f))
    BY <2>4, <2>5, <2>6, TracksSend
  <2> QED
    BY <1>8, <2>1, <2>7
<1> QED
  BY <1>5, <1>9, <1>10, <1>14, <1>15, <1>16, <1>17, PeerKeeps

-----------------------------------------------------------------------------
(* The invariant holds *)

(* In the beginning nothing was sent: the past is empty. *)
LEMMA InitKeeps ==
  ASSUME Init
  PROVE  WSInv
<1>1. /\ role \in {"server", "client"} /\ http = NoHttp /\ frames = 0 /\ open = NoMessage
      /\ conduct = "proper" /\ sent = <<>> /\ pings = <<>> /\ wire = <<>> /\ reads = 0
      /\ in_event = FALSE /\ pollout = FALSE /\ failed = "no" /\ consuming = FALSE /\ consumed = 0
      /\ writing = (role = "client") /\ got = <<>>
      /\ rx = configure_read(RxInit, between(1, max_http_size))
  BY DEF Init, up_to
<1>2. PICK b : b = IF role = "client" THEN client_init ELSE <<>>
  OBVIOUS
<1>3. ws = [handshake_complete |-> FALSE, app |-> "none", opcode |-> nil_code,
            payload_buf |-> <<>>, messages |-> FALSE, delivered |-> <<>>, write_buf |-> b]
  BY <1>2 DEF Init
<1>4. b \in Seq(Unit) /\ Plain(b)
  <2>1. PICK u : u = [http |-> "request"] /\ u \in Unit /\ ~IsFrame(u)
    BY HttpUnits
  <2>2. <<u>> \in Seq(Unit) /\ Plain(<<u>>) /\ <<>> \in Seq(Unit) /\ Plain(<<>>)
    BY <2>1 DEF Plain
  <2> QED
    BY <1>2, <2>1, <2>2 DEF client_init
<1>5. PeerOK
  <2>1. NoHttp.size = 0 /\ NoHttp.passes \subseteq Checks(role)
    BY DEF NoHttp
  <2>2. NoMessage \in Opens
    BY DEF NoMessage, Opens
  <2>3. <<>> \in Seq(Message) /\ <<>> \in Seq(Seq(Bytes)) /\ <<>> \in Seq(0 .. EndOfHeader)
    OBVIOUS
  <2>4. 0 \in 0 .. MaxFrames
    BY ConstantsAre
  <2> QED
    BY <1>1, <2>1, <2>2, <2>3, <2>4 DEF PeerOK
<1>6. FlagsOK
  <2>1. writing \in BOOLEAN
    BY <1>1, Zenon
  <2> QED
    BY <1>1, <2>1 DEF FlagsOK
<1>7. /\ rx \in RxState /\ rx.buf = <<>> /\ rx.min_read_size = 1 /\ rx.max_read_size = max_http_size
  <2>1. max_http_size \in Nat
    BY ConstantsAre
  <2>2. PICK r, p : r = RxInit /\ p = between(1, max_http_size)
    OBVIOUS
  <2>3. p.min = 1 /\ p.max = max_http_size
    BY <2>2 DEF between
  <2>4. r = [buf |-> <<>>, size |-> 0, delta_offset |-> 0, min_read_size |-> 0, max_read_size |-> 0]
    BY <2>2 DEF RxInit
  <2>5. rx = [r EXCEPT !.min_read_size = p.min, !.max_read_size = p.max]
    BY <1>1, <2>2 DEF configure_read
  <2>6. rx = [buf |-> <<>>, size |-> 0, delta_offset |-> 0, min_read_size |-> 1,
              max_read_size |-> max_http_size]
    BY <2>3, <2>4, <2>5
  <2>7. <<>> \in Seq(Nat) /\ 0 \in Nat /\ 1 \in Nat
    OBVIOUS
  <2>8. rx \in RxState
    BY <2>1, <2>6, <2>7 DEF RxState
  <2> QED
    BY <2>6, <2>8
<1>8. RxOK
  <2>1. max_http_size \in Nat /\ Len(<<>>) = 0 /\ 0 \in 0 .. max_consecutive_reads /\ 0 \in 0 .. 0
    BY ConstantsAre
  <2>2. max_http_size = 0 \/ 1 <= max_http_size
    BY <2>1
  <2>3. max_http_size = 0 \/ 0 < max_http_size
    BY <2>1
  <2> QED
    BY <1>1, <1>7, <2>1, <2>2, <2>3 DEF RxOK
<1>9. Output = b
  <2>1. ws.write_buf = b
    BY <1>3
  <2>2. <<>> \o b = b
    BY <1>4
  <2> QED
    BY <1>1, <2>1, <2>2 DEF Output
<1>10. Fresh(ws) /\ ws.app = "none" /\ ~ws.handshake_complete
  <2>1. <<>> \in Seq(Bytes) /\ <<>> \in Seq(Message)
    OBVIOUS
  <2>2. ws \in Layers
    BY <1>3, <1>4, <2>1 DEF Layers
  <2>3. ws.app = "none" /\ ~ws.handshake_complete /\ ws.delivered = <<>> /\ ws.payload_buf = <<>>
        /\ ws.opcode = nil_code /\ ws.messages = FALSE
    BY <1>3
  <2> QED
    BY <2>2, <2>3 DEF Fresh
<1>11. LayersOK(role, ws, Output, sent, pings)
  <2>1. sent \in Seq(Message)
    BY <1>5 DEF PeerOK
  <2> QED
    BY <1>4, <1>9, <1>10, <2>1, FreshOK
<1>12. Live(role, ws, Output)
  <2>1. b = IF role = "server" THEN <<>> ELSE client_init
    BY <1>1, <1>2
  <2> QED
    BY <1>9, <1>10, <2>1, Zenon DEF Live
<1>13. TracksNow
  <2>1. PICK p, l, in : p = PeerNow /\ l = LayerOf(ws, Output) /\ in = Input
    OBVIOUS
  <2>2. /\ p.http = NoHttp /\ p.conduct = "proper" /\ p.open = NoMessage
        /\ p.sent = <<>> /\ p.pings = <<>>
    BY <1>1, <2>1 DEF PeerNow
  <2>3. ~l.hc
    BY <1>10, <2>1 DEF LayerOf
  <2>4. in = <<>>
    <3>1. Drop(<<>>, 0) = <<>>
      BY DEF Drop
    <3> QED
      BY <1>1, <1>7, <2>1, <3>1 DEF Input
  <2>5. PICK m : m = StartMark
    OBVIOUS
  <2>6. m \in Mark
    <3>1. NoMessage \in Opens /\ <<>> \in Seq(Message) /\ <<>> \in Seq(Seq(Bytes))
      BY DEF NoMessage, Opens
    <3> QED
      BY <2>5, <3>1 DEF StartMark, Mark
  <2>7. EndMark(p, <<>>) = m
    BY <2>2, <2>5 DEF EndMark, StartMark
  <2>8. Past(PeerKey, p, <<>>, <<>>, <<m>>)
    <3>1. /\ <<>> \in Seq(Bytes) /\ <<>> \in Seq(FrameRec) /\ <<m>> \in Seq(Mark)
          /\ Len(<<m>>) = Len(<<>>) + 1 /\ <<m>>[1] = m /\ Len(<<>>) + 1 = 1 /\ Len(<<>>) = 0
      BY <2>6
    <3>2. m.sent = <<>> /\ m.pings = <<>>
      BY <2>5 DEF StartMark
    <3>3. IsPre(m.sent, p.sent) /\ IsPre(m.pings, p.pings)
      <4>1. <<>> \in Seq(Message)
        OBVIOUS
      <4> QED
        BY <2>2, <3>2, <4>1, PreSelf
    <3>4. \A i \in 1 .. 0 : FALSE
      OBVIOUS
    <3>5. \A i \in 1 .. 1 : i = 1
      OBVIOUS
    <3> QED
      BY <2>5, <2>7, <3>1, <3>3, <3>4, <3>5 DEF Past
  <2>9. Present(p, l, in, <<>>, <<>>, <<m>>, 1)
    <3>1. HttpBytes(NoHttp) = <<>>
      <4>1. HttpBytes(NoHttp) \in [1 .. 0 -> Nat]
        BY DEF HttpBytes, NoHttp
      <4> QED
        BY <4>1
    <3>2. in = HttpBytes(p.http) \o <<>> /\ 1 \in 1 .. (Len(<<>>) + 1)
      BY <2>2, <2>4, <3>1
    <3> QED
      BY <2>3, <3>2 DEF Present
  <2>10. Tracks(PeerKey, p, l, in)
    BY <2>8, <2>9 DEF Tracks
  <2> QED
    BY <2>1, <2>10 DEF TracksNow
<1>14. OnlyBadPeersFail /\ got \in Seq(Unit)
  BY <1>1 DEF OnlyBadPeersFail
<1> QED
  BY <1>5, <1>6, <1>8, <1>11, <1>12, <1>13, <1>14 DEF WSInv

(* Every step keeps the invariant. *)
LEMMA StepKeeps ==
  ASSUME WSInv, [Next]_vars
  PROVE  WSInv'
<1>1. CASE ReadEvent
  BY <1>1, ReadEventKeeps
<1>2. CASE ReadEnds
  BY <1>2, ReadEndsKeeps
<1>3. CASE \E n \in Cuts : Read(n)
  BY <1>3, ReadKeeps
<1>4. CASE ConsumeNoHeader
  BY <1>4, ConsumeNoHeaderKeeps
<1>5. CASE ConsumeNoFrame
  BY <1>5, ConsumeNoFrameKeeps
<1>6. CASE \E init_ok \in BOOLEAN : ConsumeHeader(init_ok)
  BY <1>6, ConsumeHeaderKeeps
<1>7. CASE \E accept \in BOOLEAN, key \in OutKeys : ConsumeFrame(accept, key)
  BY <1>7, ConsumeFrameKeeps
<1>8. CASE ReadFails
  BY <1>8, ReadFailsKeeps
<1>9. CASE Writing
  <2>1. PICK more \in BOOLEAN, again \in BOOLEAN, n \in 0 .. Len(ws.write_buf) :
          WriteEvent(more, n, again)
    BY <1>9 DEF Writing
  <2> QED
    BY <2>1, WriteEventKeeps
<1>10. CASE WriteFails
  BY <1>10, WriteFailsKeeps
<1>11. CASE Peer
  <2>1. CASE \E size \in HttpSizes, lacks \in SUBSET Checks(role) :
               Cardinality(lacks) <= 1 /\ PeerSendsHttp(size, Checks(role) \ lacks)
    <3>1. PICK size \in HttpSizes, passes \in SUBSET Checks(role) :
            passes \subseteq Checks(role) /\ PeerSendsHttp(size, passes)
      BY <2>1, Zenon
    <3> QED
      BY <3>1, PeerSendsHttpKeeps
  <2>2. CASE \E k \in FrameKinds : PeerSendsFrame(k)
    BY <2>2, PeerSendsFrameKeeps
  <2> QED
    BY <1>11, <2>1, <2>2, Zenon DEF Peer
<1>12. CASE UNCHANGED vars
  <2>1. /\ UNCHANGED <<role, peerVars, ws, got, failed>> /\ rx' = rx /\ reads' = reads
        /\ in_event' = in_event /\ writing' = writing /\ pollout' = pollout /\ failed' = failed
        /\ consuming' = consuming /\ consumed' = consumed /\ wire' = wire /\ ws' = ws
    BY <1>12 DEF vars
  <2>2. FlagsOK' /\ Input' = Input
    BY <2>1 DEF WSInv, FlagsOK, Input
  <2>3. RxOK'
    BY <2>1 DEF WSInv, RxOK
  <2> QED
    BY <2>1, <2>2, <2>3, WireNow, QuietKeeps
<1>13. Waiting => UNCHANGED vars
  BY DEF Waiting
<1> QED
  BY <1>1, <1>2, <1>3, <1>4, <1>5, <1>6, <1>7, <1>8, <1>9, <1>10, <1>11, <1>12, <1>13, Zenon DEF Next, Reading

(* The inductive invariant: whatever the peer sends, however the reads cut it  *)
(* (ShortReads is any set of naturals, and all of Nat when read() may return   *)
(* any number of bytes) and in whatever pieces write() takes the output, the   *)
(* layers of web_socket::server, client and framing are in the state that the  *)
(* peer was in before the first byte they have not consumed.                   *)
THEOREM WsInvariant == Spec => []WSInv
<1>1. Init => WSInv
  BY InitKeeps
<1>2. WSInv /\ [Next]_vars => WSInv'
  BY StepKeeps
<1> QED
  BY <1>1, <1>2, PTL DEF Spec

(* The variables have their types. *)
THEOREM WsTypeCorrect == Spec => []TypeOK
<1>1. WSInv => TypeOK
  <2> SUFFICES ASSUME WSInv PROVE TypeOK
    OBVIOUS
  <2>1. open.payload \in Seq(Bytes)
    BY DEF WSInv, PeerOK, Opens
  <2>2. ws \in Layers /\ consumed \in 0 .. Offset(rx)
    BY DEF WSInv, LayersOK, RxOK, Offset
  <2> QED
    BY <2>1, <2>2 DEF TypeOK, WSInv, PeerOK, FlagsOK, RxOK
<1> QED
  BY <1>1, WsInvariant, PTL

(* stream_transport::handle_read_event never reads into a buffer without *)
(* room, whatever receive policy the WebSocket layers have left.         *)
THEOREM WsRoom == Spec => []WsReadHasRoom
<1>1. WSInv => WsReadHasRoom
  <2> SUFFICES ASSUME WSInv, in_event, ~consuming, MayRead(rx, reads)
               PROVE  ~IsFull(rx) /\ rx.max_read_size <= rx.size
    BY DEF WsReadHasRoom
  <2>1. rx.max_read_size \in Nat /\ rx.max_read_size > 0 /\ Len(rx.buf) \in Nat
    BY DEF WSInv, RxOK, RxState, MayRead
  <2>2. failed = "no"
    BY DEF WSInv, FlagsOK
  <2>3. Len(rx.buf) < rx.max_read_size /\ rx.max_read_size <= rx.size
    BY <2>1, <2>2 DEF WSInv, RxOK
  <2> QED
    BY <2>1, <2>3 DEF IsFull, Offset
<1> QED
  BY <1>1, WsInvariant, PTL

(* The endpoint reports a protocol error (framing::consume, handle_header) only *)
(* if the peer broke a rule, closed, put a control frame between two fragments, *)
(* or sent an HTTP header that is too large or invalid.                         *)
THEOREM WsGivesUp == Spec => []OnlyBadPeersFail
<1>1. WSInv => OnlyBadPeersFail
  BY DEF WSInv
<1> QED
  BY <1>1, WsInvariant, PTL

(* The endpoint writes its part of the handshake before anything else, pongs     *)
(* answer the peer's pings in their order, and only a client whose handshake     *)
(* failed lets an application send that it never initialized (client.hpp:79,     *)
(* 143).                                                                         *)
THEOREM WsOutput == Spec => []OutputSound
<1>1. WSInv => OutputSound
  <2> SUFFICES ASSUME WSInv PROVE OutputSound
    OBVIOUS
  <2>1. LayersOK(role, ws, Output, sent, pings)
    BY DEF WSInv
  <2>2. PongsAnswerPings
    <3>1. Answers(Output, pings)
      BY <2>1 DEF LayersOK
    <3> QED
      BY <3>1, Zenon DEF Answers, PongsAnswerPings, Pongs
  <2>3. HasFrame(Output) <=> Pongs # {}
    BY Zenon DEF HasFrame, Pongs
  <2>4. Pongs # {} \/ ws.delivered # <<>> => Attached(ws)
    BY <2>1, <2>3, Zenon DEF LayersOK
  <2>5. ws.handshake_complete =>
          Output # <<>> /\ Output[1] = [http |-> IF role = "server" THEN "101" ELSE "request"]
    BY <2>1, Zenon DEF LayersOK, FirstUnit
  <2>6. ws.messages \/ Attached(ws) \/ ws.app = "aborted_uninitialized" => ws.handshake_complete
    <3>1. "aborted_uninitialized" # "none" /\ (ws.app = "none" => ~Attached(ws))
      BY DEF Attached
    <3> QED
      BY <2>1, <3>1, Zenon DEF LayersOK
  <2>7. ws.handshake_complete => Attached(ws) \/ (role = "client" /\ failed # "no")
    <3>1. ws.handshake_complete /\ ~Attached(ws) => role = "client"
      BY <2>1, Zenon DEF LayersOK
    <3>2. failed = "no" => Live(role, ws, Output)
      BY DEF WSInv
    <3> QED
      BY <3>1, <3>2, Zenon DEF Live
  <2> QED
    BY <2>2, <2>4, <2>5, <2>6, <2>7, Zenon DEF OutputSound, HandshakeFirst, Attached
<1> QED
  BY <1>1, WsInvariant, PTL

-----------------------------------------------------------------------------
(* The channel *)

(* At most one message reaches the application. *)
Hands ==
  /\ sent' = sent
  /\ ws'.delivered = ws.delivered \/ \E e : ws'.delivered = Append(ws.delivered, e)

(* Giving up delivers at most one message. *)
LEMMA FailHands ==
  ASSUME NEW reason, NEW w \in Layers, Fail(reason, w), UNCHANGED Outside,
         w.delivered = ws.delivered \/ \E e : w.delivered = Append(ws.delivered, e)
  PROVE  Hands
<1>1. ws' = abort(w) /\ abort(w).delivered = w.delivered /\ sent' = sent
  BY AbortIs DEF Fail, Outside, peerVars
<1> QED
  BY <1>1 DEF Hands

(* A change of the layers delivers at most one message. *)
LEMMA MoveHands ==
  ASSUME NEW w, ws' = w, UNCHANGED Outside,
         w.delivered = ws.delivered \/ \E e : w.delivered = Append(ws.delivered, e)
  PROVE  Hands
  BY DEF Hands, Outside, peerVars

(* Going on stores the new state of the layers. *)
LEMMA AdvanceIs ==
  ASSUME NEW n, NEW w, Advance(n, w)
  PROVE  ws' = w /\ UNCHANGED Outside
  BY DEF Advance, Return, GoOn

(* framing::handle delivers at most one message. *)
LEMMA HandleHands ==
  ASSUME NEW u \in Layers, u.delivered = ws.delivered, NEW o \in 0 .. 15, NEW d \in Seq(Bytes),
         NEW n, NEW accept, NEW key, handle(o, d, n, u, accept, key)
  PROVE  Hands
<1>1. PICK e : e = [opcode |-> o, payload |-> d]
  OBVIOUS
<1>2. PICK w : w = [u EXCEPT !.delivered = Append(@, e)]
  OBVIOUS
<1>3. w \in Layers /\ w.delivered = Append(ws.delivered, e)
  <2>1. e \in Message
    BY <1>1 DEF Message
  <2>2. PICK t : t = Append(u.delivered, e)
    OBVIOUS
  <2>3. t \in Seq(Message)
    BY <2>1, <2>2, AppendIn DEF Layers
  <2>4. w = [u EXCEPT !.delivered = t]
    BY <1>2, <2>2
  <2>5. w \in Layers /\ w.delivered = t
    BY <2>3, <2>4 DEF Layers
  <2> QED
    BY <2>2, <2>5
<1>4. PICK v : v = ship_pong(u, key, d)
  OBVIOUS
<1>5. v.delivered = ws.delivered
  BY <1>4 DEF ship_pong, Layers
<1>6. \/ Advance(n, w) \/ Advance(n, v) \/ Advance(n, u)
      \/ Fail("application", w) /\ UNCHANGED Outside
      \/ Fail("protocol", u) /\ UNCHANGED Outside
  BY <1>1, <1>2, <1>4, Zenon DEF handle
<1>7. CASE Advance(n, w)
  BY <1>3, <1>7, AdvanceIs, MoveHands
<1>8. CASE Advance(n, v)
  BY <1>5, <1>8, AdvanceIs, MoveHands
<1>9. CASE Advance(n, u)
  BY <1>9, AdvanceIs, MoveHands
<1>10. CASE Fail("application", w) /\ UNCHANGED Outside
  BY <1>3, <1>10, FailHands
<1>11. CASE Fail("protocol", u) /\ UNCHANGED Outside
  BY <1>11, FailHands
<1> QED
  BY <1>6, <1>7, <1>8, <1>9, <1>10, <1>11

(* A frame delivers at most one message. *)
LEMMA ConsumeFrameHands ==
  ASSUME WSInv, NEW accept, NEW key, ConsumeFrame(accept, key)
  PROVE  Hands
<1>1. consuming_frames
  BY DEF ConsumeFrame
<1>2. PICK f, m : /\ Ahead(f, m)
                  /\ \/ HandlesMessage(f, accept, key) \/ HandlesLast(f, accept, key)
                     \/ HandlesFragment(f) \/ HandlesBad(f)
  BY FrameSeen
<1>3. /\ m.open \in Opens /\ f.data \in Seq(Bytes) /\ ws.opcode = m.open.opcode /\ f.kind.opcode \in opcodes
  BY <1>2, SyncedNow DEF Ahead
<1>4. ws \in Layers /\ ws.payload_buf \in Seq(Bytes)
  BY <1>1, NowFacts
<1>5. PICK n : n = Len(FrameBytes(PeerKey, f))
  OBVIOUS
<1>6. CASE HandlesMessage(f, accept, key)
  <2>1. handle(f.kind.opcode, f.data, n, ws, accept, key)
    BY <1>5, <1>6 DEF HandlesMessage
  <2>2. f.kind.opcode \in 0 .. 15
    BY <1>3, Codes
  <2> QED
    BY <1>3, <1>4, <2>1, <2>2, HandleHands
<1>7. CASE HandlesLast(f, accept, key)
  <2>1. PICK u, d : u = Reset(ws) /\ d = ws.payload_buf \o f.data
    OBVIOUS
  <2>2. handle(ws.opcode, d, n, u, accept, key) /\ ws.opcode # nil_code
    BY <1>5, <1>7, <2>1 DEF HandlesLast
  <2>3. ws.opcode \in 0 .. 15
    <3>1. ws.opcode \in {text_frame, binary_frame}
      BY <1>3, <2>2 DEF Opens
    <3> QED
      BY <3>1, Codes
  <2>4. d \in Seq(Bytes)
    BY <1>3, <1>4, <2>1, CatFacts
  <2>5. u \in Layers /\ u.delivered = ws.delivered
    <3>1. u = [ws EXCEPT !.opcode = nil_code, !.payload_buf = <<>>]
      BY <2>1 DEF Reset
    <3>2. <<>> \in Seq(Bytes)
      OBVIOUS
    <3> QED
      BY <1>4, <3>1, <3>2 DEF Layers
  <2> QED
    BY <2>2, <2>3, <2>4, <2>5, HandleHands
<1>8. CASE HandlesFragment(f)
  <2>1. PICK o, d : o = (IF ws.opcode = nil_code THEN f.kind.opcode ELSE ws.opcode)
                    /\ d = ws.payload_buf \o f.data
    OBVIOUS
  <2>2. PICK w : w = [ws EXCEPT !.opcode = o, !.payload_buf = d]
    OBVIOUS
  <2>3. Advance(n, w)
    BY <1>5, <1>8, <2>1, <2>2 DEF HandlesFragment
  <2>4. w.delivered = ws.delivered
    BY <1>4, <2>2 DEF Layers
  <2> QED
    BY <2>3, <2>4, AdvanceIs, MoveHands
<1>9. CASE HandlesBad(f)
  <2>1. Fail("protocol", ws) /\ UNCHANGED Outside
    BY <1>9 DEF HandlesBad
  <2> QED
    BY <1>4, <2>1, FailHands
<1> QED
  BY <1>2, <1>6, <1>7, <1>8, <1>9

(* A handshake delivers none. *)
LEMMA ConsumeHeaderHands ==
  ASSUME WSInv, NEW init_ok \in BOOLEAN, ConsumeHeader(init_ok)
  PROVE  Hands
<1>v. PICK valid \in BOOLEAN : valid = (http.passes = Checks(role))
  BY Zenon
<1>1. PICK w, n :
        /\ consuming /\ ~ws.handshake_complete /\ UNCHANGED Outside
        /\ w = handle_header(valid, init_ok)
        /\ (\E reason : Fail(reason, w)) \/ Remainder(n, w)
  <2>2. PICK w, n : w = handle_header(valid, init_ok) /\ n = split_http_1_header(rx.buf)
    OBVIOUS
  <2>3. /\ consuming /\ ~ws.handshake_complete /\ UNCHANGED Outside
        /\ (\E reason : Fail(reason, w)) \/ Remainder(n, w)
    BY <1>v, <2>2, Zenon DEF ConsumeHeader
  <2> QED
    BY <2>2, <2>3, Zenon
<1>2. ws \in Layers /\ ws.delivered = <<>>
  BY <1>1, HandshakeNow DEF Fresh
<1>3. w \in Layers
  <2>1. LayersOK(role, w, got \o w.write_buf, sent, pings)
    BY <1>1, HeaderLayers
  <2> QED
    BY <2>1 DEF LayersOK
<1>4. w.delivered = ws.delivered
  <2>1. CASE role = "server"
    <3>1. w = server_handle_header(valid, init_ok)
      BY <1>1, <2>1 DEF handle_header
    <3> QED
      BY <1>2, <3>1 DEF server_handle_header, Layers
  <2>2. CASE role # "server"
    <3>1. w = client_handle_header(valid, init_ok)
      BY <1>1, <2>2 DEF handle_header
    <3> QED
      BY <1>2, <3>1 DEF client_handle_header, Layers
  <2> QED
    BY <2>1, <2>2
<1>5. CASE \E reason : Fail(reason, w)
  BY <1>1, <1>3, <1>4, <1>5, FailHands
<1>6. CASE Remainder(n, w)
  <2>1. ws' = w
    BY <1>6 DEF Remainder, Return, GoOn
  <2> QED
    BY <1>1, <1>4, <2>1, MoveHands
<1> QED
  BY <1>1, <1>5, <1>6

(* A step sends a message, or delivers at most one. *)
LEMMA StepHands ==
  ASSUME WSInv, [Next]_vars
  PROVE  Hands \/ (ws' = ws /\ \E e \in Message : sent' = Append(sent, e))
<1>0. ws \in Layers
  BY DEF WSInv, LayersOK
<1>1. CASE ReadEvent \/ ReadEnds \/ (\E n \in Cuts : Read(n)) \/ UNCHANGED vars
  <2>1. ws' = ws /\ sent' = sent
    BY <1>1, Zenon DEF ReadEvent, ReadEnds, Read, vars, peerVars
  <2> QED
    BY <2>1 DEF Hands
<1>2. CASE ConsumeNoHeader
  <2>1. PICK w : w = [ws EXCEPT !.write_buf = Append(@, [http |-> "431"])]
    OBVIOUS
  <2>2. w \in Layers /\ w.delivered = ws.delivered
    <3>1. PICK b : b = Append(ws.write_buf, [http |-> "431"])
      OBVIOUS
    <3>2. b \in Seq(Unit)
      <4>1. ws.write_buf \in Seq(Unit) /\ [http |-> "431"] \in Unit
        BY <1>0, HttpUnits DEF Layers
      <4> QED
        BY <3>1, <4>1, AppendIn
    <3>3. w = [ws EXCEPT !.write_buf = b]
      BY <2>1, <3>1
    <3> QED
      BY <1>0, <3>2, <3>3 DEF Layers
  <2>3. UNCHANGED Outside /\ (Return(0, CurrentPolicy, ws) \/ Fail("protocol", w))
    BY <1>2, <2>1 DEF ConsumeNoHeader
  <2>4. CASE Return(0, CurrentPolicy, ws)
    BY <2>3, <2>4, MoveHands DEF Return
  <2>5. CASE Fail("protocol", w)
    BY <2>2, <2>3, <2>5, FailHands
  <2> QED
    BY <2>3, <2>4, <2>5
<1>3. CASE ConsumeNoFrame
  <2>1. UNCHANGED Outside /\ (ws' = ws \/ Fail("protocol", ws))
    BY <1>3, Zenon DEF ConsumeNoFrame, Return
  <2> QED
    BY <1>0, <2>1, MoveHands, FailHands
<1>4. CASE \E init_ok \in BOOLEAN : ConsumeHeader(init_ok)
  BY <1>4, ConsumeHeaderHands
<1>5. CASE \E accept \in BOOLEAN, key \in OutKeys : ConsumeFrame(accept, key)
  BY <1>5, ConsumeFrameHands
<1>6. CASE ReadFails
  BY <1>0, <1>6, FailHands DEF ReadFails
<1>7. CASE Writing
  <2>1. PICK b, g : ws' = [ws EXCEPT !.write_buf = b, !.messages = g] /\ sent' = sent
    BY <1>7, Zenon DEF Writing, WriteEvent, peerVars
  <2>2. ws'.delivered = ws.delivered
    BY <1>0, <2>1 DEF Layers
  <2> QED
    BY <2>1, <2>2 DEF Hands
<1>8. CASE WriteFails
  <2>1. ws' = abort(ws) /\ sent' = sent
    BY <1>8 DEF WriteFails, peerVars
  <2>2. abort(ws).delivered = ws.delivered
    BY <1>0, AbortIs
  <2> QED
    BY <2>1, <2>2 DEF Hands
<1>9. CASE Peer
  <2>1. CASE \E size, passes : PeerSendsHttp(size, passes)
    <3>1. ws' = ws /\ sent' = sent
      BY <2>1, Zenon DEF PeerSendsHttp
    <3> QED
      BY <3>1 DEF Hands
  <2>2. CASE \E k \in FrameKinds : PeerSendsFrame(k)
    <3>1. PICK k \in FrameKinds : PeerSendsFrame(k)
      BY <2>2
    <3>2. PICK e : /\ ws' = ws
                   /\ sent' = sent \/ sent' = Append(sent, e)
      BY <3>1, Zenon DEF PeerSendsFrame
    <3>3. CASE sent' = sent
      BY <3>2, <3>3 DEF Hands
    <3>4. CASE sent' = Append(sent, e)
      <4>1. WSInv'
        BY <3>1, PeerSendsFrameKeeps
      <4>2. sent \in Seq(Message) /\ sent' \in Seq(Message)
        BY <4>1 DEF WSInv, PeerOK
      <4>3. PICK s, t : s = sent /\ t = sent'
        OBVIOUS
      <4>4. s \in Seq(Message) /\ t \in Seq(Message) /\ t = Append(s, e)
        BY <3>4, <4>2, <4>3
      <4>5. e \in Message
        <5>1. Len(t) = Len(s) + 1 /\ t[Len(s) + 1] = e
          BY <4>4
        <5>2. Len(s) + 1 \in 1 .. Len(t)
          BY <4>4, <5>1
        <5> QED
          BY <4>4, <5>1, <5>2
      <4> QED
        BY <3>2, <3>4, <4>5
    <3> QED
      BY <3>2, <3>3, <3>4
  <2> QED
    BY <1>9, <2>1, <2>2, Zenon DEF Peer
<1>10. Waiting => UNCHANGED vars
  BY DEF Waiting
<1> QED
  BY <1>1, <1>2, <1>3, <1>4, <1>5, <1>6, <1>7, <1>8, <1>9, <1>10, Zenon DEF Next, Reading

(* The endpoint implements a reliable channel: framing::consume delivers the *)
(* messages of the peer in order, whole, once each, and nothing else.        *)
THEOREM WsRefines == Spec => WsIsChannel
<1>1. Init => Channel!MCInit
  BY DEF Init, Channel!MCInit
<1>2. WSInv /\ [Next]_vars => [Channel!MCNext]_<<sent, ws.delivered>>
  <2> SUFFICES ASSUME WSInv, [Next]_vars
               PROVE  \/ Channel!Send \/ Channel!Deliver
                      \/ sent' = sent /\ ws'.delivered = ws.delivered
    BY DEF Channel!MCNext
  <2>1. CASE sent' = sent /\ ws'.delivered = ws.delivered
    BY <2>1
  <2>2. CASE sent' = sent /\ \E e : ws'.delivered = Append(ws.delivered, e)
    <3>1. PICK e, s, t : s = ws.delivered /\ t = ws'.delivered /\ t = Append(s, e)
      BY <2>2
    <3>2. s \in Seq(Message) /\ Len(t) = Len(s) + 1
      <4>1. s \in Seq(Message)
        BY <3>1 DEF WSInv, LayersOK, Layers
      <4> QED
        BY <3>1, <4>1
    <3>3. IsPre(t, sent)
      <4>1. WSInv'
        BY StepKeeps
      <4> QED
        BY <2>2, <3>1, <4>1 DEF WSInv, LayersOK
    <3>4. t = SubSeq(sent, 1, Len(t)) /\ Len(t) <= Len(sent)
      BY <3>3 DEF IsPre
    <3>5. sent \in Seq(Message)
      BY DEF WSInv, PeerOK
    <3>6. Len(t) \in (Len(s) + 1) .. Len(sent)
      BY <3>2, <3>4, <3>5
    <3> QED
      BY <2>2, <3>1, <3>4, <3>6 DEF Channel!Deliver
  <2>3. CASE ws' = ws /\ \E e \in Message : sent' = Append(sent, e)
    <3>s. PICK s, t : s = sent /\ t = sent'
      OBVIOUS
    <3>1. PICK e \in Message : s = sent /\ t = sent' /\ t = Append(s, e)
      BY <2>3, <3>s
    <3>2. s \in Seq(Message)
      BY <3>1 DEF WSInv, PeerOK
    <3>3. Len(t) = Len(s) + 1
      BY <3>1, <3>2
    <3>4. IsPre(s, s)
      BY <3>2, PreSelf
    <3>5. IsPre(s, t)
      BY <3>1, <3>2, <3>4, PreAppend
    <3> QED
      BY <2>3, <3>1, <3>3, <3>5 DEF IsPre, Channel!Send
  <2> QED
    BY <2>1, <2>2, <2>3, StepHands DEF Hands
<1> QED
  BY <1>1, <1>2, WsInvariant, PTL DEF Spec, WsIsChannel, Channel!MCSpec
=============================================================================
