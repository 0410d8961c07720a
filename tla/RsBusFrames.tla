----------------------------- MODULE RsBusFrames -----------------------------
(***************************************************************************)
(* The frames of the "m4" bus: short ones, closed by a one-byte sum, which  *)
(* open a session and carry the data of old meters, and long ones with a    *)
(* length and a CRC.  RsBusRx finds them in the bytes of a connection,      *)
(* RsBusCodec takes them apart and puts them together.                      *)
(***************************************************************************)
EXTENDS ByteLine

CONSTANT BufferSize     \* size of rawBuffer

FSC == 16
FEC == 22
SRC == 63
RDP == 82
FRM == 144
RM4 == 114
ATR == 0
TAG_IEEFloat == 67
TAG_PNUM == 74

\* The types a meter answers the session request with.
type741 == <<71, 41>>
type742 == <<71, 42>>

validateNt(nt) == nt <= 99 \/ nt = 255

-----------------------------------------------------------------------------
\* RsBusRx::receive: a short frame ends at an end symbol before which the sum is
\* 0xff.  A pause anywhere makes it forget what it has read, and end before it.
receive(line) ==
    LET start == StartPlace(line, FSC)
        Stops(i) == \/ line[i] \notin Byte
                    \/ i - start + 1 >= BufferSize
                    \/ line[i] = FEC /\ SumOf[SubSeq(line, start + 1, i - 1)] = 255
        At[i \in 1 .. Len(line) + 1] ==
            IF i > Len(line) \/ line[i] \notin Byte THEN Stopped(line, i)
            ELSE IF i - start + 1 >= BufferSize THEN Invalid(After(line, i))
            ELSE Got(SubSeq(line, start, i), After(line, i))
    IN  IF start > Len(line) \/ line[start] # FSC THEN Stopped(line, start)
        ELSE At[FirstPlace(line, start + 1, Stops)]

headerLen == 7
crcLen == 2

\* RsBusRx::receiveLong: the header tells the length; nothing marks the start.
\* Pauses do not count, the end of the line is the thousand timeouts that do.
receiveLong(line) ==
    LET Read(i) == BytesIn(line, 1, i)
        Complete(f) == Len(f) >= headerLen /\ Len(f) >= headerLen + 256 * f[7] + f[6] + crcLen
        Stops(i) == \/ line[i] = End
                    \/ line[i] \in Byte /\ (Len(Read(i)) >= BufferSize \/ Complete(Read(i)))
        At[i \in 1 .. Len(line) + 1] ==
            IF i > Len(line) THEN IF Read(Len(line)) = <<>> THEN Nothing(<<>>) ELSE Invalid(<<>>)
            ELSE IF line[i] = End THEN Failed(After(line, i - 1))
            ELSE IF Len(Read(i)) >= BufferSize THEN Invalid(After(line, i))
            ELSE Got(Read(i), After(line, i))
    IN  At[FirstPlace(line, 1, Stops)]

-----------------------------------------------------------------------------
\* RsBusCodec::encode and decode.  A result that fails is empty, or not ok.

encode(f) ==
    IF validateNt(f.nt) THEN <<FSC, f.nt, f.rc>> \o f.data \o <<calcCs(f.nt, f.rc, f.data), FEC>>
    ELSE <<>>

\* Fields a failing decode has already set are looked at by recvShortDataRsp only
\* to tell failures apart.
decode(frame) ==
    LET n == Len(frame)
        data == SubSeq(frame, 4, n - 2)
    IN  IF n < 5 THEN [ok |-> FALSE, nt |-> 0, rc |-> 0, data |-> <<>>]
        ELSE [nt |-> frame[2], rc |-> frame[3], data |-> data,
              ok |-> /\ frame[1] = FSC
                     /\ validateNt(frame[2])
                     /\ frame[n - 1] = calcCs(frame[2], frame[3], data)
                     /\ frame[n] = FEC]

\* encodeReqLong and encodeRspLong: what is asked (channel, parameter) or the four
\* bytes of the answer, behind the header; their CRC begins behind the start symbol.
Long(f, body) ==
    LET tb == <<f.rc, f.tag, Len(body)>> \o body
    IN  IF validateNt(f.nt)
        THEN <<FSC>> \o WithCrc[<<f.nt, FRM, f.id, f.atr, Len(tb), 0>> \o tb]
        ELSE <<>>

encodeReqLong(f) == Long(f, <<f.ch, f.prm % 256, f.prm \div 256>>)
encodeRspLong(f) == Long(f, f.data)

\* decodeReqLong and decodeRspLong, for a body of qty bytes.  The CRC is computed
\* over buf.size() - 1 bytes, and size() is the read position, 0 so far: no byte
\* enters it and it never fails.
decodeLong(frame, qty) ==
    IF Len(frame) < 10 + qty THEN [ok |-> FALSE]
    ELSE [ok |-> validateNt(frame[2]) /\ frame[10] = qty,
          nt |-> frame[2], id |-> frame[4], atr |-> frame[5], rc |-> frame[8],
          tag |-> frame[9], data |-> SubSeq(frame, 11, 10 + qty)]

\* A request may have any length in its header, an answer must say 7.
decodeReqLong(frame) == decodeLong(frame, 3)
decodeRspLong(frame) ==
    IF Len(frame) > 6 /\ frame[6] # 7 THEN [ok |-> FALSE] ELSE decodeLong(frame, 4)

===============================================================================
