----------------------------- MODULE SpBusFrames -----------------------------
(***************************************************************************)
(* The frames of the "sps" bus: SpBusRx finds one in the bytes of a         *)
(* connection, SpBusCodec takes it apart and puts it together.  Of a        *)
(* decoded frame the model keeps what either side looks at: addresses,      *)
(* function code, the pointers (channel, parameter) and the value texts.    *)
(* Bytes between DLE's are not stuffed, as in the code.                     *)
(*                                                                          *)
(* A fifth pointer is written behind the array before the count is checked; *)
(* here it is an error like the check, and no run sends five.               *)
(***************************************************************************)
EXTENDS ByteLine
LOCAL INSTANCE SequencesExt

CONSTANT BufferSize     \* size of rawBuffer

DLE == 16
SOH == 1
ISI == 31
RDP == 29
RSP == 3
STX == 2
ETX == 3
HT == 9
FF == 12

maxSpBusHeaderDataSize == 27
maxSpBusDataSetItemSize == 30
maxSpBusDataSetPointersSize == 4

-----------------------------------------------------------------------------
\* SpBusRx::receive.  Inside a frame pauses do not count (a thousand in a row,
\* that is the end of the line, do), and the end of the connection is as
\* invalid as a frame too long.  Any pause before it means there is nothing.
receive(line) ==
    LET start == StartPlace(line, DLE)
        Size(i) == Len(BytesIn(line, start, i))
        Ends(f) == Len(f) >= 4 /\ f[Len(f) - 3] = DLE /\ f[Len(f) - 2] = ETX
        Stops(i) == \/ line[i] = End
                    \/ line[i] \in Byte /\ (Size(i) >= BufferSize \/ Ends(BytesIn(line, start, i)))
        At[i \in 1 .. Len(line) + 1] ==
            IF i > Len(line) \/ line[i] = End THEN Invalid(After(line, i - 1))
            ELSE IF Size(i) >= BufferSize THEN Invalid(After(line, i))
            ELSE Got(BytesIn(line, start, i), After(line, i))
    IN  IF start > Len(line) \/ line[start] # DLE THEN Stopped(line, start)
        ELSE At[FirstPlace(line, start + 1, Stops)]

\* Operators named Bad... are faulty variants of the definition that follows them.

\* Nobody looks at the CRC.
BadCrcHolds(frame) == TRUE

\* The CRC of a frame begins behind DLE SOH, and is 0 if it takes in its own bytes.
CrcHolds(frame) == crcode[After(frame, 2)] = {}

-----------------------------------------------------------------------------
\* SpBusCodec::decode, one byte after the other.

Text == Seq(Byte)

Decoder == [state : {"procCmd", "procDad", "procSad", "procFunc", "procDataHead",
                     "procDataSet", "idle", "done", "error"},
            subs : {"procPointer", "procChan", "procPrm", "procInfo", "procValue",
                    "procUnit", "procTs"},
            dad : Byte, sad : Byte, fc : Byte, head : Text,
            item : Text,         \* the item being read
            chan : Text,         \* the channel read before it
            pointers : Seq(Text \X Text), infos : Seq(Text)]

Start == [state |-> "idle", subs |-> "procPointer", dad |-> 0, sad |-> 0, fc |-> 0, head |-> <<>>,
          item |-> <<>>, chan |-> <<>>, pointers |-> <<>>, infos |-> <<>>]

Fail(d) == [d EXCEPT !.state = "error"]

procCmd(d, ch) ==
    [d EXCEPT !.state = CASE ch = SOH -> "procDad" [] ch = ISI -> "procFunc"
                          [] ch = STX -> "procDataSet" [] ch = ETX -> "done" [] OTHER -> "error"]

procFunc(d, ch) ==
    [d EXCEPT !.fc = ch, !.head = <<>>,
              !.state = IF ch \in {RDP, RSP} THEN "procDataHead" ELSE "error"]

procDataHead(d, ch) ==
    IF Len(d.head) >= maxSpBusHeaderDataSize THEN Fail(d) ELSE [d EXCEPT !.head = Append(@, ch)]

\* The state behind an item, by the character that ends it.
Ending(subs, ch) ==
    CASE subs \in {"procPointer", "procInfo"} /\ ch = HT ->
            IF subs = "procPointer" THEN "procChan" ELSE "procValue"
      [] subs = "procChan" /\ ch = HT -> "procPrm"
      [] subs = "procPrm" /\ ch = FF -> "next"
      [] subs = "procValue" /\ ch = HT -> "procUnit"
      [] subs = "procUnit" /\ ch = HT -> "procTs"
      [] subs \in {"procValue", "procUnit"} /\ ch = FF -> "procPointer"
      [] subs = "procTs" /\ ch \in {HT, FF} -> "procPointer"
      [] OTHER -> "none"

TakeItemByte(d, ch) ==
    IF d.subs \in {"procPointer", "procInfo"} \/ Len(d.item) >= maxSpBusDataSetItemSize
    THEN Fail(d)
    ELSE [d EXCEPT !.item = Append(@, ch)]

\* Value, unit and time stamp each count as an info.
EndItem(d, ch) ==
    LET next == [d EXCEPT !.subs = Ending(d.subs, ch), !.item = <<>>]
    IN  CASE d.subs = "procChan" -> [next EXCEPT !.chan = d.item]
          [] d.subs = "procPrm" ->
                IF Len(d.pointers) >= maxSpBusDataSetPointersSize THEN Fail(d)
                ELSE [next EXCEPT !.pointers = Append(@, <<d.chan, d.item>>), !.chan = <<>>,
                                  !.subs = CASE d.fc = RDP -> "procPointer"
                                             [] d.fc = RSP -> "procInfo" [] OTHER -> "procPrm"]
          [] d.subs \in {"procValue", "procUnit", "procTs"} ->
                IF Len(d.infos) >= maxSpBusDataSetPointersSize THEN Fail(d)
                ELSE [next EXCEPT !.infos = Append(@, IF d.subs = "procValue" THEN d.item ELSE <<>>)]
          [] OTHER -> next

procDataSet(d, ch) == IF Ending(d.subs, ch) = "none" THEN TakeItemByte(d, ch) ELSE EndItem(d, ch)

Take(d, ch) ==
    CASE ch = DLE -> [d EXCEPT !.state = "procCmd"]
      [] d.state = "procCmd" -> procCmd(d, ch)
      [] d.state = "procDad" -> [d EXCEPT !.dad = ch, !.state = "procSad"]
      [] d.state = "procSad" -> [d EXCEPT !.sad = ch, !.state = "idle"]
      [] d.state = "procFunc" -> procFunc(d, ch)
      [] d.state = "procDataHead" -> procDataHead(d, ch)
      [] d.state = "procDataSet" -> procDataSet(d, ch)
      [] OTHER -> Fail(d)

\* The frame that has been read, its state "done" if decode returns true.
decode(frame) ==
    LET loop[i \in 1 .. (Len(frame) + 1), d \in Decoder] ==
            IF d.state \in {"done", "error"} THEN d
            ELSE IF i > Len(frame) THEN Fail(d)
            ELSE loop[i + 1, Take(d, frame[i])]
    IN  loop[1, Start]

-----------------------------------------------------------------------------
\* SpBusCodec::encode.  The result is empty if it fails.  The texts are written up
\* to a 0 byte; no text here has one.

Pointer(p) == <<HT>> \o p[1] \o <<HT>> \o p[2] \o <<FF>>
Info(text) == <<HT>> \o text \o <<FF>>

DataSet(f) ==
    FlattenSeq([i \in DOMAIN f.pointers |->
        Pointer(f.pointers[i]) \o IF f.fc = RSP THEN Info(f.infos[i]) ELSE <<>>])

encode(f) ==
    IF \/ Len(f.pointers) \notin 1 .. maxSpBusDataSetPointersSize
       \/ f.fc \notin {RDP, RSP}
       \/ f.fc = RSP /\ Len(f.pointers) # Len(f.infos)
    THEN <<>>
    ELSE <<DLE, SOH>> \o WithCrc[<<f.dad, f.sad, DLE, ISI, f.fc>> \o f.head \o <<DLE, STX>>
                                     \o DataSet(f) \o <<DLE, ETX>>]

\* sprintf "%u" of a number below 100, and sscanf "%u" back: the digits a text
\* begins with, -1 if there are none.
Decimal(n) == IF n < 10 THEN <<48 + n>> ELSE <<48 + (n \div 10), 48 + (n % 10)>>

Number(text) ==
    LET digits == FirstPlace(text, 1, LAMBDA i : text[i] \notin 48 .. 57) - 1
        value[i \in 0 .. digits] == IF i = 0 THEN 0 ELSE (10 * value[i - 1]) + text[i] - 48
    IN  IF digits = 0 THEN -1 ELSE value[digits]
===============================================================================
