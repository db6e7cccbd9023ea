------------------------------ MODULE Integrity ------------------------------
(***************************************************************************)
(* What protects the bytes on the lines: the encoder of the lidar's        *)
(* requests with its checksum, the CRC-32 of the HQ capsules and the       *)
(* CRC-16 of the torpedo's and the GUI's packets.                          *)
(*                                                                         *)
(* A word or a byte is the set of its bits that are one, so exclusive or   *)
(* is the symmetric difference; bit 0 is the lowest.                       *)
(***************************************************************************)
EXTENDS Integers, Sequences, SequencesExt

Xor(a, b) == (a \ b) \cup (b \ a)

ShiftRight(a, n) == {k - n : k \in {b \in a : b >= n}}
ShiftLeft(a, n, width) == {k + n : k \in {b \in a : b + n < width}}

Bits(n, width) == {k \in 0 .. width - 1 : (n \div 2 ^ k) % 2 = 1}

Octets == SUBSET (0 .. 7)
Byte == [n \in 0 .. 255 |-> Bits(n, 8)]

-----------------------------------------------------------------------------
(***************************************************************************)
(* onEncodeData.  The size byte holds the low 8 bits of the payload's      *)
(* size, and so does the length of what is sent.                           *)
(***************************************************************************)
SyncByte == Byte[165]

EstimateLength(message) ==
  2 + (IF message.hasPayload THEN (Len(message.payload) % 256) + 2 ELSE 0)

XorOf(bytes) ==
  LET sum[i \in 0 .. Len(bytes)] == IF i = 0 THEN {} ELSE Xor(sum[i - 1], bytes[i])
  IN sum[Len(bytes)]

\* mutated: the checksum covers the payload only
EncodeData_PayloadSum(message) ==
  LET n == Len(message.payload)
      body == <<SyncByte, message.cmd>> \o
              (IF message.hasPayload THEN <<Byte[n % 256]>> \o message.payload ELSE <<>>)
      whole == Append(body, XorOf(message.payload))
  IN SubSeq(whole, 1, EstimateLength(message))

EncodeData(message) ==
  LET n == Len(message.payload)
      body == <<SyncByte, message.cmd>> \o
              (IF message.hasPayload THEN <<Byte[n % 256]>> \o message.payload ELSE <<>>)
      whole == Append(body, XorOf(body))
  IN SubSeq(whole, 1, EstimateLength(message))

-----------------------------------------------------------------------------
\* bitrev
BitRev(a, width) == {width - 1 - k : k \in a}

Poly == {0, 1, 2, 4, 5, 7, 8, 10, 11, 12, 16, 22, 23, 26}   \* 0x4C11DB7

\* one step of init's inner loop
Halve(c) == LET half == ShiftRight(c, 1)
            IN IF 0 \in c THEN Xor(BitRev(Poly, 32), half) ELSE half

\* init: what eight of them make of a byte
Table ==
  [byte \in Octets |->
     LET c[i \in 0 .. 8] == IF i = 0 THEN byte ELSE Halve(c[i - 1])
     IN c[8]]

\* the length that cal is given has 16 bits
Longest == 65535

Low(word) == {k \in word : k < 8}

CalByte(crc, byte) == Xor(ShiftRight(crc, 8), Table[Low(Xor(crc, byte))])

\* cal pads with zeros, with four when the length is a multiple of four
Padding(n) == [i \in 1 .. 4 - (n % 4) |-> {}]

Cal(bytes) ==
  LET padded == bytes \o Padding(Len(bytes))
      crc[i \in 0 .. Len(padded)] ==
        IF i = 0 THEN 0 .. 31 ELSE CalByte(crc[i - 1], padded[i])
  IN Xor(crc[Len(padded)], 0 .. 31)

-----------------------------------------------------------------------------
Poly16 == {0, 5, 12}   \* 0x1021

Double16(crc) == LET twice == ShiftLeft(crc, 1, 16)
                 IN IF 15 \in crc THEN Xor(twice, Poly16) ELSE twice

Shift8(crc) ==
  LET c[i \in 0 .. 8] == IF i = 0 THEN crc ELSE Double16(c[i - 1])
  IN c[8]

CalculateCRC16(bytes) ==
  LET crc[i \in 0 .. Len(bytes)] ==
        IF i = 0 THEN 0 .. 15
        ELSE Shift8(Xor(crc[i - 1], ShiftLeft(bytes[i], 8, 16)))
  IN crc[Len(bytes)]
=============================================================================
