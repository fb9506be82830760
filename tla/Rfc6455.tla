------------------------------ MODULE Rfc6455 ------------------------------
(***************************************************************************)
(* caf::detail::rfc6455: the frames of the WebSocket protocol as bytes.    *)
(* Lengths and keys of the model are below 2^31.                           *)
(***************************************************************************)
EXTENDS Integers, Sequences

continuation_frame == 0
text_frame == 1
binary_frame == 2
connection_close == 8
ping == 9
pong == 10
fin_flag == 128

opcodes == {continuation_frame, text_frame, binary_frame,
            connection_close, ping, pong}

INT32_MAX == 2147483647

Bytes == 0 .. 255

(* Byte k of x, the least significant one being byte 0. *)
Byte(x, k) == (x \div <<1, 256, 65536, 16777216>>[k + 1]) % 256

(* The n bytes of x, the most significant one first. *)
to_network_order(x, n) == [i \in 1 .. n |-> IF n - i > 3 THEN 0 ELSE Byte(x, n - i)]

(* Numbers of 2^31 and above all read as INT32_MAX. *)
from_network_order(bytes) ==
  LET n == Len(bytes)
      At(k) == IF k < n THEN bytes[n - k] ELSE 0
  IN  IF At(3) > 127 \/ (\E i \in 1 .. (n - 4) : bytes[i] > 0) THEN INT32_MAX
      ELSE At(0) + 256 * At(1) + 65536 * At(2) + 16777216 * At(3)

Bit(x, k) == (x \div <<1, 2, 4, 8>>[k + 1]) % 2

(* Exclusive or of two half bytes and of two bytes. *)
Xor4 ==
  [x \in 0 .. 15 |-> [y \in 0 .. 15 |->
     LET Differ(k) == (Bit(x, k) + Bit(y, k)) % 2
     IN  Differ(0) + 2 * Differ(1) + 4 * Differ(2) + 8 * Differ(3)]]
Xor(x, y) == 16 * Xor4[x \div 16][y \div 16] + Xor4[x % 16][y % 16]

(* The bytes of the key are used in turn. *)
mask_data(key, data) ==
  LET arr == to_network_order(key, 4)
  IN  [i \in DOMAIN data |-> Xor(data[i], arr[((i - 1) % 4) + 1])]

(* Mask flag and payload length, in 7, 7 + 16 or 7 + 64 bits. *)
LengthBytes(mask_bit, size) ==
  IF size < 126 THEN <<mask_bit + size>>
  ELSE IF size < 65535 THEN <<mask_bit + 126>> \o to_network_order(size, 2)
  ELSE <<mask_bit + 127>> \o to_network_order(size, 8)

(* What assemble_frame puts before `size' bytes of application data. *)
assemble_header(opcode, mask_key, size, flags) ==
  <<flags + opcode>>
    \o LengthBytes(IF mask_key = 0 THEN 0 ELSE 128, size)
    \o (IF mask_key = 0 THEN <<>> ELSE to_network_order(mask_key, 4))

-----------------------------------------------------------------------------
(* The bytes of the length field and, by them, of the whole header. *)
LengthSize(len_field) ==
  IF len_field < 126 THEN 0 ELSE IF len_field = 126 THEN 2 ELSE 8

NoHeader(result) ==
  [bytes |-> result, fin |-> FALSE, opcode |-> 0, mask_key |-> 0, payload_len |-> 0]

(* bytes: -1 for an invalid header, 0 for an incomplete one. *)
decode_header(data) ==
  LET masked == data[2] >= 128
      len_field == data[2] % 128
      len_end == 2 + LengthSize(len_field)
      header_length == len_end + (IF masked THEN 4 ELSE 0)
      opcode == data[1] % 16
  IN  IF Len(data) < 2 \/ Len(data) < header_length THEN NoHeader(0)
      ELSE IF (data[1] \div 16) % 8 # 0 \/ opcode \notin opcodes THEN NoHeader(-1)
      ELSE [bytes |-> header_length,
            fin |-> data[1] >= 128,
            opcode |-> opcode,
            mask_key |-> IF masked
                         THEN from_network_order(SubSeq(data, len_end + 1, len_end + 4))
                         ELSE 0,
            payload_len |-> IF len_field < 126 THEN len_field
                            ELSE from_network_order(SubSeq(data, 3, len_end))]
=============================================================================
