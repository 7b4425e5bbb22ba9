------------------------------- MODULE Codecs -------------------------------
(***************************************************************************)
(* What turns data into bytes and back: the framing of emf_cobs.c, the     *)
(* checksum of emf_crc.c and the byte orders of emf_endian.c. A message    *)
(* grows byte by byte; every property is about each of them.               *)
(***************************************************************************)
EXTENDS Integers, Sequences, SequencesExt

CONSTANTS
  Radix,         \* one more than the largest byte of a message
  CobsBlockMax,  \* EMF_COBS_BLOCK_MAX
  MaxMessage     \* bound: the bytes of a message

ASSUME CodecAssumption == Radix \in Nat \ {0} /\ CobsBlockMax \in Nat \ {0}

VARIABLE message

CodecInit == message = <<>>
CodecNext ==
  /\ Len(message) < MaxMessage
  /\ \E byte \in 0 .. Radix - 1 : message' = Append(message, byte)

CodecSpec == CodecInit /\ [][CodecNext]_message

-----------------------------------------------------------------------------
(* emf_cobs.c. The encoder fills in the code of a block when it ends: at a *)
(* delimiter, which the code stands for, or when the block is full.        *)
CobsCodeMax == CobsBlockMax + 1
Delimiter == 0

CobsClose(s) == [out |-> s.out \o <<Len(s.block) + 1>> \o s.block, block |-> <<>>]

(* Faulty form: a block is full one byte too late.                         *)
BugCobsByte(s, byte) ==
  LET grown == [s EXCEPT !.block = Append(@, byte)] IN
  IF byte = Delimiter THEN CobsClose(s)
  ELSE IF Len(grown.block) = CobsCodeMax THEN CobsClose(grown) ELSE grown
CobsByte(s, byte) ==
  LET grown == [s EXCEPT !.block = Append(@, byte)] IN
  IF byte = Delimiter THEN CobsClose(s)
  ELSE IF Len(grown.block) + 1 = CobsCodeMax THEN CobsClose(grown) ELSE grown

CobsEncoder(data) ==
  LET behind[n \in 0 .. Len(data)] ==
        IF n = 0 THEN [out |-> <<>>, block |-> <<>>] ELSE CobsByte(behind[n - 1], data[n])
  IN behind
CobsEncode(data) == Append(CobsClose(CobsEncoder(data)[Len(data)]).out, Delimiter)

(* The decoder from byte i on: what it adds to the output, and whether it  *)
(* finds the delimiter in front of a block that is cut off.                *)
CobsDecoder(in) ==
  LET from[i \in 1 .. Len(in) + 1] ==
        IF i > Len(in) \/ in[i] - 1 > Len(in) - i THEN [found |-> FALSE, out |-> <<>>]
        ELSE IF in[i] = Delimiter THEN [found |-> TRUE, out |-> <<>>]
        ELSE LET next == i + in[i]
                 zero == in[i] < CobsCodeMax /\ next <= Len(in) /\ in[next] # Delimiter
             IN [found |-> from[next].found,
                 out |-> SubSeq(in, i + 1, next - 1)
                           \o (IF zero THEN <<Delimiter>> ELSE <<>>) \o from[next].out]
  IN from
CobsDecode(in) ==
  LET start == CobsDecoder(in)[1]
  IN IF start.found THEN start ELSE [found |-> FALSE, out |-> <<>>]

-----------------------------------------------------------------------------
(* emf_crc.c. A register is the set of its bits that are 1; a byte too.    *)
CrcPoly == {0, 5, 12}
CrcInitValue == {}
Xor(a, b) == (a \ b) \cup (b \ a)
BitsOf(byte) == {i \in 0 .. 7 : (byte \div 2^i) % 2 = 1}

CrcShift(crc) ==
  LET shifted == {k + 1 : k \in crc \ {15}} IN
  IF 15 \in crc THEN Xor(shifted, CrcPoly) ELSE shifted

CrcByte(crc, bits) ==
  LET after[n \in 0 .. 8] ==
        IF n = 0 THEN Xor(crc, {i + 8 : i \in bits}) ELSE CrcShift(after[n - 1])
  IN after[8]
Crc16CCITT(data) ==
  LET after[n \in 0 .. Len(data)] ==
        IF n = 0 THEN CrcInitValue ELSE CrcByte(after[n - 1], data[n])
  IN after[Len(data)]

-----------------------------------------------------------------------------
(* emf_endian.c. The bytes of a number of n bytes are its digits: they are *)
(* shifted in from the highest on and shifted out from the lowest on.      *)
Number(digits, n) ==
  LET read[i \in 0 .. n] == IF i = 0 THEN 0 ELSE Radix * read[i - 1] + digits[i]
  IN read[n]
Digit(in, k) ==
  LET shifted[i \in 0 .. k] == IF i = 0 THEN in ELSE shifted[i - 1] \div Radix
  IN shifted[k] % Radix

ReadBE(buff, n) == Number(buff, n)
ReadLE(buff, n) == Number([i \in 1 .. n |-> buff[n + 1 - i]], n)
WriteBE(in, n) == [i \in 1 .. n |-> Digit(in, n - i)]
WriteLE(in, n) == [i \in 1 .. n |-> Digit(in, i - 1)]

(* The generic functions know four sizes and leave the output alone for    *)
(* any other.                                                              *)
Sized(size) == size \in {1, 2, 4, 8}
ReadBuffBE(buff, out, size) == IF Sized(size) THEN ReadBE(buff, size) ELSE out
ReadBuffLE(buff, out, size) == IF Sized(size) THEN ReadLE(buff, size) ELSE out
WriteBuffBE(buff, in, size) == IF Sized(size) THEN WriteBE(in, size) ELSE buff
WriteBuffLE(buff, in, size) == IF Sized(size) THEN WriteLE(in, size) ELSE buff

U16ReadBuffBE(buff) == ReadBE(buff, 2)
U24ReadBuffBE(buff) == ReadBE(buff, 3)
U32ReadBuffBE(buff) == ReadBE(buff, 4)
U40ReadBuffBE(buff) == ReadBE(buff, 5)
U48ReadBuffBE(buff) == ReadBE(buff, 6)
U56ReadBuffBE(buff) == ReadBE(buff, 7)
U64ReadBuffBE(buff) == ReadBE(buff, 8)
U16WriteBuffBE(in) == WriteBE(in, 2)
U24WriteBuffBE(in) == WriteBE(in, 3)
U32WriteBuffBE(in) == WriteBE(in, 4)
U40WriteBuffBE(in) == WriteBE(in, 5)
U48WriteBuffBE(in) == WriteBE(in, 6)
U56WriteBuffBE(in) == WriteBE(in, 7)
U64WriteBuffBE(in) == WriteBE(in, 8)
U16ReadBuffLE(buff) == ReadLE(buff, 2)
U24ReadBuffLE(buff) == ReadLE(buff, 3)
U32ReadBuffLE(buff) == ReadLE(buff, 4)
U40ReadBuffLE(buff) == ReadLE(buff, 5)
U48ReadBuffLE(buff) == ReadLE(buff, 6)
U56ReadBuffLE(buff) == ReadLE(buff, 7)
U64ReadBuffLE(buff) == ReadLE(buff, 8)
U16WriteBuffLE(in) == WriteLE(in, 2)
U24WriteBuffLE(in) == WriteLE(in, 3)
U32WriteBuffLE(in) == WriteLE(in, 4)
U40WriteBuffLE(in) == WriteLE(in, 5)
U48WriteBuffLE(in) == WriteLE(in, 6)
U56WriteBuffLE(in) == WriteLE(in, 7)
U64WriteBuffLE(in) == WriteLE(in, 8)

ReadsBE(b) ==
  <<b[1], U16ReadBuffBE(b), U24ReadBuffBE(b), U32ReadBuffBE(b),
    U40ReadBuffBE(b), U48ReadBuffBE(b), U56ReadBuffBE(b), U64ReadBuffBE(b)>>
ReadsLE(b) ==
  <<b[1], U16ReadBuffLE(b), U24ReadBuffLE(b), U32ReadBuffLE(b),
    U40ReadBuffLE(b), U48ReadBuffLE(b), U56ReadBuffLE(b), U64ReadBuffLE(b)>>
WritesBE(v) ==
  <<<<v[1]>>, U16WriteBuffBE(v[2]), U24WriteBuffBE(v[3]), U32WriteBuffBE(v[4]),
    U40WriteBuffBE(v[5]), U48WriteBuffBE(v[6]), U56WriteBuffBE(v[7]), U64WriteBuffBE(v[8])>>
WritesLE(v) ==
  <<<<v[1]>>, U16WriteBuffLE(v[2]), U24WriteBuffLE(v[3]), U32WriteBuffLE(v[4]),
    U40WriteBuffLE(v[5]), U48WriteBuffLE(v[6]), U56WriteBuffLE(v[7]), U64WriteBuffLE(v[8])>>

-----------------------------------------------------------------------------
(* A packet holds no delimiter but its last byte, is no longer than the    *)
(* buffer that EMF_COBS_ENCODED_SIZE demands, decodes to its message also  *)
(* when more bytes follow, and is never found in a packet that was cut     *)
(* off (EMF_cobs_encode, EMF_cobs_decode).                                 *)
CobsFrames ==
  LET packet == CobsEncode(message) IN
  /\ \A i \in DOMAIN packet : packet[i] = Delimiter <=> i = Len(packet)
  /\ Len(packet) <= Len(message) + (Len(message) \div CobsBlockMax) + 2
  /\ \A rest \in {<<>>, packet} :
       CobsDecode(packet \o rest) = [found |-> TRUE, out |-> message]
  /\ \A n \in 1 .. Len(packet) - 1 : ~CobsDecode(SubSeq(packet, 1, n)).found

(* The checksum of a message followed by its own checksum, the high byte   *)
(* first, is 0 (EMF_crc_16CCITT).                                          *)
CrcResidueIsZero ==
  LET data == [i \in DOMAIN message |-> BitsOf(message[i])]
      crc == Crc16CCITT(data)
  IN message # <<>> =>
       Crc16CCITT(data \o <<{i - 8 : i \in crc \cap 8 .. 15}, crc \cap 0 .. 7>>) = {}

(* What one function of emf_endian.c writes the matching one reads, for    *)
(* every width; the little-endian bytes are the big-endian ones backwards; *)
(* the generic functions agree with the others where they know the size.   *)
NumbersSurvive == Len(message) = 8 =>
  /\ WritesBE(ReadsBE(message)) = [n \in 1 .. 8 |-> SubSeq(message, 1, n)]
  /\ WritesLE(ReadsLE(message)) = [n \in 1 .. 8 |-> SubSeq(message, 1, n)]
  /\ U64ReadBuffLE(Reverse(message)) = U64ReadBuffBE(message)
  /\ \A n \in 1 .. 8 : LET be == ReadsBE(message)[n] IN
       /\ ReadBuffBE(message, be, n) = be
       /\ ReadBuffLE(Reverse(SubSeq(message, 1, n)), be, n) = be
       /\ WriteBuffBE(SubSeq(message, 1, n), be, n) = SubSeq(message, 1, n)
       /\ Reverse(WriteBuffLE(SubSeq(message, 1, n), be, n)) =
            (IF Sized(n) THEN SubSeq(message, 1, n) ELSE Reverse(SubSeq(message, 1, n)))

(* What the codecs write they read back: packets, checksums and numbers.   *)
PacketsSurvive == CobsFrames /\ CrcResidueIsZero /\ NumbersSurvive
=============================================================================
