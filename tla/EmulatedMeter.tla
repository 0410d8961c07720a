---------------------------- MODULE EmulatedMeter ----------------------------
(***************************************************************************)
(* A meter and the gate that reads it, byte for byte.  The meter is the     *)
(* emulation (ServerFsm driving SpBusServer, or RsBusServer with its own    *)
(* machine), the gate is reduced to what the bytes on the connection depend  *)
(* on: it connects, reads the same parameter Items times and hangs up.      *)
(* Between them are two lines of bytes on which a limited number of things  *)
(* goes wrong.  SpBusClient and RsBusClient have the gates in full and      *)
(* frames as their outcome; here the outcome is what readers and codecs     *)
(* make of the bytes.                                                        *)
(*                                                                          *)
(* The setup says which bus: "sps", "m4" (a meter with long frames, which   *)
(* is what the emulation is), or "m4short" (one with short frames:          *)
(* recvDataReqShort, which the emulation has but no state calls).           *)
(***************************************************************************)
EXTENDS Integers, Sequences, FiniteSets, FloatWords, RsBusServerFsm
LOCAL INSTANCE SequencesExt

CONSTANTS Setup,                \* records: bus, dad (the meter), sad, chan, addr, value, and
                                \* faults, how many things go wrong in a behaviour
          Items,                \* reads in a session
          BufferSize,
          MaxPending            \* connections the meter has not accepted

Sp == INSTANCE SpBusFrames
Rs == INSTANCE RsBusFrames

VARIABLES setup,
          client,               \* state of the gate
          sent,                 \* start symbols it has sent
          deviceType,           \* what the meter has called itself
          left, good,           \* reads still to do in the session, and those that gave a value
          got,                  \* the value registers of the last read, <<>> without a value
          conn,                 \* the gate's connection: "down", "up", "closed" by the meter
          pending,              \* connections the meter has not accepted yet
          toMeter, toClient,    \* the lines; one connection ends in toMeter with an End
          faults

client_ == <<client, sent, deviceType, left, good, got>>
line_ == <<conn, pending, toMeter, toClient>>
vars == <<setup, server_, client_, line_, faults>>

End == Sp!End
startSymbol == 255

Init ==
    /\ setup \in Setup
    /\ MachinesStart
    /\ client = "idle" /\ sent = 0 /\ deviceType = <<>>
    /\ left = Items /\ good = 0 /\ got = <<>>
    /\ conn = "down" /\ pending = 0 /\ toMeter = <<>> /\ toClient = <<>>
    /\ faults = setup.faults

-----------------------------------------------------------------------------
\* The meter.

\* The emulated registers: the value where the setup has it, zeros elsewhere.
Register(i) == IF i = 2048 * setup.chan + setup.addr THEN setup.value ELSE <<0, 0, 0, 0>>

\* printf "%.5f" of a register whose first byte is the number.
Printed(i) == Sp!Decimal(Register(i)[1]) \o <<46, 48, 48, 48, 48, 48>>

\* link->close(): of this connection nothing more is read.  If the gate has not
\* hung up itself, it finds the end behind what was sent.
Ended(rest) == \E i \in DOMAIN rest : rest[i] = End

MeterHangsUp(rest) ==
    /\ UNCHANGED pending
    /\ IF Ended(rest)
       THEN /\ toMeter' = Sp!After(rest, Sp!FirstOf(rest, 1, {End}))
            /\ UNCHANGED <<conn, toClient>>
       ELSE /\ toMeter' = <<>>
            /\ conn' = "closed"
            /\ toClient' = Append(toClient, End)

\* Operators named Bad... are faulty variants of the definition that follows them.

\* RsBusServerFsm keeps its state when the bus fails.
BadFail(rest) ==
    /\ MeterHangsUp(rest)
    /\ server' = "error"
    /\ UNCHANGED <<busState, startSequenceCounter>>

\* A failure of the bus, with which ServerFsm resets the connection.
Fail(rest) == MeterHangsUp(rest) /\ BreakOff

\* process returns 0: nothing that concerns the meter.
Stay(rest) ==
    /\ toMeter' = rest
    /\ UNCHANGED <<server, busState, startSequenceCounter, conn, pending, toClient>>

\* An answer to a gate that has hung up is lost; the write may or may not fail.
Answer(next, frame, rest) ==
    \/ /\ busState' = next
       /\ toMeter' = rest
       /\ toClient' = IF Ended(rest) THEN toClient ELSE toClient \o frame
       /\ UNCHANGED <<server, startSequenceCounter, conn, pending>>
    \/ /\ Ended(rest)
       /\ Fail(rest)

\* The text of a pointer's value stays empty if one of its numbers cannot be read.
ValueOf(p) ==
    IF Sp!Number(p[1]) < 0 \/ Sp!Number(p[2]) < 0 THEN <<>>
    ELSE Printed(2048 * Sp!Number(p[1]) + Sp!Number(p[2]))

\* SpBusServer::process
SpBusProcess ==
    \E r \in {Sp!receive(toMeter)} : \E f \in {Sp!decode(r.frame)} :
        LET answer == Sp!encode([f EXCEPT !.dad = f.sad, !.sad = f.dad, !.fc = Sp!RSP,
                                     !.infos = [i \in DOMAIN f.pointers |-> ValueOf(f.pointers[i])]])
        IN  CASE r.result = "nothing" -> Stay(r.rest)
              [] /\ r.result = "frame" /\ Sp!CrcHolds(r.frame)
                 /\ f.state = "done" /\ f.fc = Sp!RDP /\ f.pointers # <<>> ->
                     Answer(busState, answer, r.rest)
              [] OTHER -> Fail(r.rest)

init == AwaitStartSequence /\ UNCHANGED line_

\* One symbol, within 300 ms.
recvStartSequence ==
    IF toMeter = <<>> \/ Head(toMeter) = Sp!Gap THEN toMeter # <<>> /\ Stay(Tail(toMeter))
    ELSE IF Head(toMeter) # startSymbol
         THEN Fail(IF Head(toMeter) = End THEN toMeter ELSE Tail(toMeter))
    ELSE /\ CountSymbol
         /\ toMeter' = Tail(toMeter)
         /\ UNCHANGED <<conn, pending, toClient>>

\* The emulation calls itself a 742.
recvSessionReq ==
    \E r \in {Rs!receive(toMeter)} : \E f \in {Rs!decode(r.frame)} :
        LET type == IF setup.bus = "m4" THEN Rs!type742 ELSE Rs!type741
        IN  CASE r.result = "failed" -> Fail(r.rest)
              [] r.result # "frame" \/ ~f.ok \/ Len(f.data) # 4 -> Stay(r.rest)
              [] OTHER ->
                   IF f.rc # Rs!SRC \/ f.data # <<0, 0, 0, 0>> THEN Fail(r.rest)
                   ELSE Answer("recvDataReq",
                               Rs!encode([f EXCEPT !.rc = Rs!SRC, !.data = type \o <<0>>]), r.rest)

\* Number and quantity as they were asked, zeros where the frame is too short; the
\* number of the clock is never asked for.
recvDataReqShort ==
    \E r \in {Rs!receive(toMeter)} : \E f \in {Rs!decode(r.frame)} :
        LET asked == f.data \o <<0, 0, 0>>
            value == encodeRsBus(Register(256 * asked[2] + asked[1]))
            dump == [i \in 1 .. asked[3] |-> IF i <= 4 THEN value[i] ELSE 0]
        IN  CASE r.result = "failed" -> Fail(r.rest)
              [] r.result # "frame" \/ ~f.ok -> Stay(r.rest)
              [] OTHER -> IF f.rc # Rs!RDP THEN Fail(r.rest)
                          ELSE Answer(busState, Rs!encode([f EXCEPT !.data = dump]), r.rest)

\* A damaged request ends the session, but its CRC is not what tells.
recvDataReqLong ==
    \E r \in {Rs!receiveLong(toMeter)} : \E f \in {Rs!decodeReqLong(r.frame)} :
        CASE r.result \in {"nothing", "invalid"} -> Stay(r.rest)
          [] r.result = "frame" /\ f.ok ->
               IF f.rc # Rs!RM4 \/ f.tag # Rs!TAG_PNUM THEN Fail(r.rest)
               ELSE Answer(busState,
                           Rs!encodeRspLong([f EXCEPT !.tag = Rs!TAG_IEEFloat,
                                                !.data = Register(256 * f.data[3] + f.data[2])]),
                           r.rest)
          [] OTHER -> Fail(r.rest)

\* RsBusServerFsm::process
RsBusProcess ==
    \/ busState = "init" /\ init
    \/ busState = "recvStartSequence" /\ recvStartSequence
    \/ busState = "recvSessionReq" /\ recvSessionReq
    \/ busState = "recvDataReq" /\ IF setup.bus = "m4" THEN recvDataReqLong ELSE recvDataReqShort

Process ==
    /\ server = "process"
    /\ IF setup.bus = "sps" THEN SpBusProcess ELSE RsBusProcess
    /\ UNCHANGED <<setup, client_, faults>>

\* The other states of ServerFsm.
Accept ==
    /\ server = "accept"
    /\ pending > 0
    /\ pending' = pending - 1
    /\ server' = "process"
    /\ UNCHANGED <<setup, busState, startSequenceCounter, client_, conn, toMeter, toClient, faults>>

Restart ==
    /\ \/ server = "error" /\ server' = "init"
       \/ server = "init" /\ server' = "accept"
    /\ UNCHANGED <<setup, busState, startSequenceCounter, client_, line_, faults>>

MeterTick == Process \/ Accept \/ Restart

-----------------------------------------------------------------------------
\* The gate.

\* link->close()
HangUp ==
    /\ conn' = "down"
    /\ toMeter' = IF conn = "up" THEN Append(toMeter, End) ELSE toMeter
    /\ toClient' = <<>>
    /\ UNCHANGED pending

\* client.reset(), and the wait that follows it.
Reset ==
    /\ HangUp
    /\ client' = "idle"
    /\ UNCHANGED <<sent, deviceType, left, good, got>>

Connect ==
    /\ client = "idle"
    /\ pending < MaxPending
    /\ conn' = "up"
    /\ pending' = pending + 1
    /\ client' = IF setup.bus = "sps" THEN "sendDataReq" ELSE "sendStartSequence"
    /\ sent' = 0 /\ left' = Items /\ good' = 0 /\ got' = <<>>
    /\ UNCHANGED <<deviceType, toMeter, toClient>>

\* Into a connection the meter has closed nothing goes; the write may notice.
Send(frame, next) ==
    \/ /\ toMeter' = IF conn = "up" THEN toMeter \o frame ELSE toMeter
       /\ client' = next
       /\ UNCHANGED <<deviceType, left, good, got, conn, pending, toClient>>
    \/ /\ conn = "closed"
       /\ Reset

SendStartSequence ==
    /\ client = "sendStartSequence"
    /\ sent' = sent + 1
    /\ toMeter' = IF conn = "up" THEN Append(toMeter, startSymbol) ELSE toMeter
    /\ client' = IF sent >= StartSequenceLength THEN "sendSessionReq" ELSE client
    /\ UNCHANGED <<deviceType, left, good, got, conn, pending, toClient>>

SendSessionReq ==
    /\ client = "sendSessionReq"
    /\ Send(Rs!encode([nt |-> setup.dad, rc |-> Rs!SRC, data |-> <<0, 0, 0, 0>>]), "recvSessionRsp")
    /\ UNCHANGED sent

\* SpBusClient::send, sendShortDataReq, sendLongDataReq
Request ==
    CASE setup.bus = "sps" ->
            Sp!encode([dad |-> setup.dad, sad |-> setup.sad, fc |-> Sp!RDP, head |-> <<>>,
                       pointers |-> << <<Sp!Decimal(setup.chan), Sp!Decimal(setup.addr)>> >>,
                       infos |-> <<>>])
      [] deviceType = Rs!type741 ->
            Rs!encode([nt |-> setup.dad, rc |-> Rs!RDP,
                       data |-> <<setup.addr % 256, setup.addr \div 256, 4, 0>>])
      [] deviceType = Rs!type742 ->
            Rs!encodeReqLong([nt |-> setup.dad, rc |-> Rs!RM4, id |-> 0, atr |-> Rs!ATR,
                              tag |-> Rs!TAG_PNUM, ch |-> setup.chan, prm |-> setup.addr])

SendDataReq ==
    /\ client = "sendDataReq"
    /\ Send(Request, "recvDataRsp")
    /\ UNCHANGED sent

\* Whatever is not the answer is dropped, and the timer runs on.
Keep(rest) == /\ toClient' = rest
              /\ UNCHANGED <<client, deviceType, left, good, got, conn, pending, toMeter>>

RecvSessionRsp ==
    /\ client = "recvSessionRsp"
    /\ UNCHANGED sent
    /\ \E r \in {Rs!receive(toClient)} : \E f \in {Rs!decode(r.frame)} :
          CASE r.result = "failed" -> Reset
            [] /\ r.result = "frame" /\ f.ok /\ f.rc = Rs!SRC /\ Len(f.data) = 3
               /\ SubSeq(f.data, 1, 2) \in {Rs!type741, Rs!type742} ->
                  /\ deviceType' = SubSeq(f.data, 1, 2)
                  /\ client' = "sendDataReq"
                  /\ toClient' = r.rest
                  /\ UNCHANGED <<left, good, got, conn, pending, toMeter>>
            [] OTHER -> Keep(r.rest)

\* The next read, or the end of the session.
Advance(value, rest) ==
    /\ got' = value
    /\ good' = IF value = <<>> THEN good ELSE good + 1
    /\ left' = left - 1
    /\ client' = IF left = 1 THEN "disconnect" ELSE "sendDataReq"
    /\ toClient' = rest
    /\ UNCHANGED <<deviceType, conn, pending, toMeter>>

\* SpBusClient::receive; sscanf "%f" wants a digit.  A text without one counts as
\* an answer, what is not a response does not.
RecvSpBusRsp ==
    \E r \in {Sp!receive(toClient)} : \E f \in {Sp!decode(r.frame)} :
        CASE r.result = "failed" -> Reset
          [] r.result = "frame" /\ Sp!CrcHolds(r.frame) /\ f.state = "done" /\ f.fc = Sp!RSP ->
               Advance(IF f.infos # <<>> /\ Sp!Number(f.infos[1]) >= 0 THEN f.infos[1] ELSE <<>>,
                       r.rest)
          [] OTHER -> Keep(r.rest)

\* recvShortDataRsp and recvLongDataRsp: any complete frame counts as an answer.
TakeFrame(r, value) ==
    CASE r.result = "nothing" -> Keep(r.rest)
      [] r.result = "frame" -> Advance(value, r.rest)
      [] OTHER -> Reset

recvShortDataRsp ==
    \E r \in {Rs!receive(toClient)} : \E f \in {Rs!decode(r.frame)} :
        TakeFrame(r, IF f.ok /\ f.rc = Rs!RDP /\ Len(f.data) = 4 THEN decodeRsBus(f.data) ELSE <<>>)

recvLongDataRsp ==
    \E r \in {Rs!receiveLong(toClient)} : \E f \in {Rs!decodeRspLong(r.frame)} :
        TakeFrame(r, IF f.ok /\ f.rc = Rs!RM4 /\ f.tag = Rs!TAG_IEEFloat THEN f.data ELSE <<>>)

RecvDataRsp ==
    /\ client = "recvDataRsp"
    /\ CASE setup.bus = "sps" -> RecvSpBusRsp
         [] deviceType = Rs!type741 -> recvShortDataRsp
         [] deviceType = Rs!type742 -> recvLongDataRsp
    /\ UNCHANGED sent

Disconnect ==
    /\ client = "disconnect"
    /\ HangUp
    /\ client' = "idle"
    /\ UNCHANGED <<sent, deviceType, left, good, got>>

\* The receive timer: the session goes on with the next read, or ends if it was
\* not open yet.
Timeout ==
    \/ client = "recvDataRsp" /\ Advance(<<>>, toClient) /\ UNCHANGED sent
    \/ client = "recvSessionRsp" /\ Reset

Quiet == toMeter = <<>> /\ toClient = <<>>

GateTick ==
    /\ \/ Connect \/ SendStartSequence \/ SendSessionReq \/ SendDataReq
       \/ RecvSessionRsp \/ RecvDataRsp \/ Disconnect
       \/ Quiet /\ Timeout
    /\ UNCHANGED <<setup, server_, faults>>

-----------------------------------------------------------------------------
\* What goes wrong on the way, a limited number of times.

\* One byte is another, is missing, or has company: a pause or a start symbol
\* (DLE and FSC are the same).
Damaged(line) ==
    {[line EXCEPT ![i] = (@ + 1) % 256] : i \in {j \in DOMAIN line : line[j] \in Sp!Byte}}
    \cup {RemoveAt(line, i) : i \in {j \in DOMAIN line : line[j] \in Sp!Byte}}
    \cup {InsertAt(line, i, c) : i \in DOMAIN line, c \in {Sp!Gap, Sp!DLE}}

\* The connection breaks; the answer comes later than the timer allows.
Fault ==
    /\ faults > 0
    /\ faults' = faults - 1
    /\ \/ toMeter' \in Damaged(toMeter) /\ UNCHANGED <<client_, conn, pending, toClient>>
       \/ toClient' \in Damaged(toClient) /\ UNCHANGED <<client_, conn, pending, toMeter>>
       \/ /\ conn = "up"
          /\ conn' = "closed"
          /\ toMeter' = Append(toMeter, End)
          /\ toClient' = Append(toClient, End)
          /\ UNCHANGED <<client_, pending>>
       \/ ~Quiet /\ Timeout
    /\ UNCHANGED <<setup, server_>>

Next == MeterTick \/ GateTick \/ Fault

Safety == Init /\ [][Next]_vars

\* Both programs tick their machines round after round, and timers run out.
Spec == Safety /\ WF_vars(MeterTick) /\ WF_vars(GateTick)

-----------------------------------------------------------------------------
\* Properties.

\* No damage passes for a value: what the gate takes, it takes as the meter holds
\* it.  The long frames of "m4" are left out, as their CRC is not looked at
\* (RsBusClient!ReadyMeansUndamaged).
AcceptedIsOwn ==
    got # <<>> /\ setup.bus # "m4" =>
        got = IF setup.bus = "sps" THEN Printed(2048 * setup.chan + setup.addr) ELSE setup.value

\* What the buses can carry at all: no address is a DLE, which nothing stuffs, and
\* no short answer has an end symbol where the sum happens to be right.
Readable ==
    CASE setup.bus = "sps" -> Sp!DLE \notin {setup.dad, setup.sad}
      [] setup.bus = "m4short" ->
            LET answer == Rs!encode([nt |-> setup.dad, rc |-> Rs!RDP,
                                     data |-> encodeRsBus(setup.value)])
            IN  Rs!receive(answer).frame = answer
      [] OTHER -> TRUE

\* Whatever has gone wrong, meter and gate find back to sessions in which every
\* read gives a value.
KeepsAnswering == []<>(Readable => client = "disconnect" /\ good = Items)
===============================================================================
