------------------------------ MODULE Checksums ------------------------------
(***************************************************************************)
(* The sums of Utils.cpp and RsBusCodec.cpp over sequences of bytes.  The   *)
(* CRC register is an int, here the set of the positions of its one bits,   *)
(* so that exclusive or is the symmetric difference.                        *)
(***************************************************************************)
EXTENDS Integers, Sequences, FiniteSetsExt

Byte == 0 .. 255

BitsOf(b) == {i \in 0 .. 7 : (b \div 2^i) % 2 = 1}
ByteOf(bits) == SumSet({2^i : i \in bits})

CrcRegister == SUBSET (0 .. 31)

\* Shift left in 32 bits, and the polynomial 0x1021.
CrcShift(crc) == {i + 1 : i \in crc} \cap 0 .. 31
CrcBit[crc \in CrcRegister] ==
    IF 15 \in crc THEN (CrcShift(crc) \cup {12, 5, 0}) \ (CrcShift(crc) \cap {12, 5, 0})
    ELSE CrcShift(crc)

CrcByte(crc, b) ==
    LET loop[j \in 0 .. 8, r \in CrcRegister] == IF j = 8 THEN r ELSE loop[j + 1, CrcBit[r]]
    IN  loop[0, SymDiff(crc, {i + 8 : i \in BitsOf(b)})]

crcode[msg \in Seq(Byte)] ==
    LET loop[i \in 1 .. (Len(msg) + 1), crc \in CrcRegister] ==
            IF i > Len(msg) THEN crc ELSE loop[i + 1, CrcByte(crc, msg[i])]
    IN  loop[1, {}]

\* crc >> 8 and crc, as they are stored in two bytes.
CrcHigh(crc) == ByteOf({i - 8 : i \in crc \cap 8 .. 15})
CrcLow(crc) == ByteOf(crc \cap 0 .. 7)

\* A message with its CRC behind it.
WithCrc[msg \in Seq(Byte)] == msg \o <<CrcHigh(crcode[msg]), CrcLow(crcode[msg])>>

\* The sum of bytes, in eight bits.
SumOf[bytes \in Seq(Byte)] ==
    LET loop[i \in 0 .. Len(bytes)] == IF i = 0 THEN 0 ELSE (loop[i - 1] + bytes[i]) % 256
    IN  loop[Len(bytes)]

\* Its complement.
calcCs(nt, rc, data) == 255 - SumOf[<<nt, rc>> \o data]
===============================================================================
