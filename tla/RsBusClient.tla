----------------------------- MODULE RsBusClient -----------------------------
(***************************************************************************)
(* One "m4" gate: RsBusFsm driving RsBusClient.  A session starts with a    *)
(* sequence of wake-up symbols and a session request to the meter of the    *)
(* first item; its answer tells the type of the meter, and the type decides *)
(* the format of all requests and answers that follow.  As in SpBusClient,  *)
(* an answer is not compared with the request (the identifier of a long     *)
(* frame is always 0 and is not looked at).                                 *)
(*                                                                          *)
(* Here every complete frame counts as the answer to the current item, also *)
(* one that cannot be decoded.                                              *)
(***************************************************************************)
EXTENDS Naturals, Sequences

CONSTANTS NumItems,              \* storage.getNumItems()
          Config,                \* configurations of the gate and the meters it is set up for
          StartSequenceLength,   \* 16 in the program
          MaxNoise               \* bound on frames nobody asked for

Item == 0 .. (NumItems - 1)
NoItem == NumItems        \* a value damaged on the way, or none yet
Earlier == NumItems + 1   \* the value of an answer that an earlier session had asked for

\* The types fall in three classes: read with short frames (741, 941), read with
\* long frames (742, 743, 942, 943, 9411), and all others.
Supported == {"short", "long"}

ASSUME RsBusAssumption == /\ NumItems \in Nat \ {0}
                          /\ Config \subseteq [legal : [Item -> BOOLEAN],
                                               func : [Item -> {"RDP", "RM4"}],
                                               type : [Item -> Supported \cup {"other"}]]
                          /\ StartSequenceLength \in Nat
                          /\ MaxNoise \in Nat

VARIABLES state,                  \* RsBusFsm::state
          expired,                \* has the timer the state looks at run out
          startSequenceCounter,
          deviceType,             \* class of RsBusClient::deviceType
          currentParamId,
          status,                 \* status register of each item
          value,                  \* the item whose value stands in the value registers,
                                  \* or NoItem, or Earlier (see Origin)
          link,                   \* "down", "up", or "broken" by the peer
          heard,                  \* wake-up symbols the meters have heard, up to the
                                  \* number they need
          asked,                  \* requests not answered yet
          wire,                   \* frames on their way to the client
          faulty,                 \* can meters, gateway and network still fail
          config                  \* legal: has the meter of each item an address that
                                  \* validateNt lets pass; func: function code of each item, RDP (0x52) or RM4
                                  \* (0x72); type: that of the meter the item belongs to

clientVars == <<state, expired, startSequenceCounter, deviceType, currentParamId, status, value>>
linkVars == <<link, heard, asked, wire>>
vars == <<state, expired, startSequenceCounter, deviceType, currentParamId, status, value,
          link, heard, asked, wire, faulty, config>>

FsmState == {"init", "idle", "waitingForLinkLock", "connect", "sendStartSequence",
             "sendSessionReq", "recvSessionRsp", "sendDataReq", "recvDataRsp",
             "disconnect", "error"}

\* A request for a session, or for an item in one of the two formats; old if it is
\* of an earlier session than the one going on.
Request == [what : {"session"}, old : BOOLEAN]
           \cup [what : Supported, about : Item, old : BOOLEAN]

\* A frame as RsBusRx and RsBusCodec see it: a session answer; a value in one of the
\* formats, of no item if it was damaged on the way; a complete frame of no use; and
\* one that stops in the middle.
Useless == [kind : {"junk", "cut"}]
Frame == [kind : {"session"}, type : Supported \cup {"other"}, old : BOOLEAN]
         \cup [kind : Supported, about : Item \cup {NoItem}, old : BOOLEAN]
         \cup Useless

TypeOK ==
    /\ state \in FsmState
    /\ expired \in BOOLEAN
    /\ startSequenceCounter \in 0 .. StartSequenceLength
    /\ deviceType \in Supported \cup {"other"}
    /\ currentParamId \in Item
    /\ status \in [Item -> {"undef", "timeout", "invalid", "ready"}]
    /\ value \in [Item -> Item \cup {NoItem, Earlier}]
    /\ link \in {"down", "up", "broken"}
    /\ heard \in 0 .. StartSequenceLength
    /\ asked \in Seq(Request)
    /\ wire \in Seq(Frame)
    /\ faulty \in BOOLEAN
    /\ config \in Config

\* deviceType starts as 0xffff, which is no supported type.
Init ==
    /\ state = "init"
    /\ expired = FALSE
    /\ startSequenceCounter = 0
    /\ deviceType = "other"
    /\ currentParamId = 0
    /\ status = [i \in Item |-> "undef"]
    /\ value = [i \in Item |-> NoItem]
    /\ link = "down"
    /\ heard = 0
    /\ asked = <<>>
    /\ wire = <<>>
    /\ faulty = TRUE
    /\ config \in Config

-----------------------------------------------------------------------------
\* The operations of RsBusClient that RsBusFsm calls.

\* Operators named Bad... are faulty variants of the definition that follows
\* them; PROJECT.json (mutants) says which property notices each.

\* The connection is left to the next session with what is under way on it.
BadCloseLink == /\ link' = "down"
                /\ heard' = 0
                /\ UNCHANGED <<asked, wire>>

CloseLink == /\ link' = "down"
             /\ heard' = 0
             /\ asked' = <<>>
             /\ wire' = <<>>

SetStatus(i, s) == status' = [status EXCEPT ![i] = s]

SetValue(i, v) == /\ value' = [value EXCEPT ![i] = v]
                  /\ SetStatus(i, "ready")

\* bus.reset(), and the timer and state that follow it everywhere.
Reset ==
    /\ status' = [i \in Item |-> "timeout"]
    /\ currentParamId' = 0
    /\ CloseLink
    /\ expired' = FALSE
    /\ state' = "error"
    /\ UNCHANGED <<startSequenceCounter, value>>

Advance ==
    IF currentParamId + 1 = NumItems
    THEN currentParamId' = 0 /\ state' = "disconnect"
    ELSE currentParamId' = currentParamId + 1 /\ state' = "sendDataReq"

\* A timeout ends the scan.
BadTimeout ==
    /\ SetStatus(currentParamId, "timeout")
    /\ currentParamId' = 0
    /\ state' = "disconnect"
    /\ UNCHANGED <<expired, value>>

\* bus.timeout()
Timeout ==
    /\ SetStatus(currentParamId, "timeout")
    /\ Advance
    /\ UNCHANGED <<expired, value>>

\* No answer in this tick: the timer decides.
NoAnswer ==
    IF expired THEN Timeout ELSE UNCHANGED <<state, expired, currentParamId, status, value>>

\* decode compares the checksum of a short frame (one byte, so that one damaged
\* frame in 256 passes; that is left out).  decodeRspLong computes the CRC of a long
\* one over size() - 1 bytes, and as nothing has been read yet that is -1: no byte
\* enters the CRC, and every frame passes.
Decodes(f) == f.kind = deviceType /\ (f.kind = "short" => f.about # NoItem)

\* What the value of a frame is recorded as.
Origin(f) == IF f.old THEN Earlier ELSE f.about

\* recvShortDataRsp and recvLongDataRsp for a complete frame.
TakeFrame(f) ==
    /\ IF Decodes(f)
       THEN SetValue(currentParamId, Origin(f))
       ELSE SetStatus(currentParamId, "invalid") /\ UNCHANGED value
    /\ Advance
    /\ UNCHANGED expired

\* The function code the configuration must give an item for this type of meter.
FuncOf(type) == IF type = "short" THEN "RDP" ELSE "RM4"

\* A write succeeds, and is lost if the peer has already broken the connection.
Write(r) ==
    /\ link # "down"
    /\ asked' = IF link = "up" THEN Append(asked, r) ELSE asked
    /\ UNCHANGED <<link, heard, wire>>

-----------------------------------------------------------------------------
\* The handlers of RsBusFsm.

\* idleTimer runs since the construction of the gate.
LeaveInit ==
    /\ state = "init"
    /\ state' = "idle"
    /\ UNCHANGED <<expired, startSequenceCounter, deviceType, currentParamId, status, value, linkVars>>

Idle ==
    /\ state = "idle"
    /\ expired
    /\ state' = "waitingForLinkLock"
    /\ UNCHANGED <<expired, startSequenceCounter, deviceType, currentParamId, status, value, linkVars>>

WaitingForLinkLock ==
    /\ state = "waitingForLinkLock"
    /\ state' = "connect"
    /\ UNCHANGED <<expired, startSequenceCounter, deviceType, currentParamId, status, value, linkVars>>

AsOld(x) == IF x \in Useless THEN x ELSE [x EXCEPT !.old = TRUE]

\* What is under way when a session begins is of an earlier one.
MarkOld ==
    /\ asked' = [k \in DOMAIN asked |-> AsOld(asked[k])]
    /\ wire' = [k \in DOMAIN wire |-> AsOld(wire[k])]

\* The counter is not rewound: only the first session wakes the meters.
BadConnect ==
    /\ state = "connect"
    /\ \/ faulty /\ Reset
       \/ /\ link' = "up"
          /\ MarkOld
          /\ expired' = FALSE
          /\ state' = "sendStartSequence"
          /\ UNCHANGED <<startSequenceCounter, currentParamId, status, value, heard>>
    /\ UNCHANGED deviceType

Connect ==
    /\ state = "connect"
    /\ \/ faulty /\ Reset
       \/ /\ link' = "up"
          /\ MarkOld
          /\ startSequenceCounter' = 0
          /\ expired' = FALSE
          /\ state' = "sendStartSequence"
          /\ UNCHANGED <<currentParamId, status, value, heard>>
    /\ UNCHANGED deviceType

\* Compared with > instead of >=.
BadSendStartSequence ==
    /\ state = "sendStartSequence"
    /\ expired
    /\ \/ link # "up" /\ Reset
       \/ /\ link # "down"
          /\ heard' = IF link = "up" /\ heard < StartSequenceLength THEN heard + 1 ELSE heard
          /\ IF startSequenceCounter > StartSequenceLength
             THEN /\ state' = "sendSessionReq"
                  /\ UNCHANGED <<expired, startSequenceCounter>>
             ELSE /\ expired' = FALSE
                  /\ startSequenceCounter' = startSequenceCounter + 1
                  /\ UNCHANGED state
          /\ UNCHANGED <<currentParamId, status, value, link, asked, wire>>
    /\ UNCHANGED deviceType

\* One symbol every startSeqSendPeriodMs; the counter is compared after sending.
SendStartSequence ==
    /\ state = "sendStartSequence"
    /\ expired
    /\ \/ link # "up" /\ Reset
       \/ /\ link # "down"
          /\ heard' = IF link = "up" /\ heard < StartSequenceLength THEN heard + 1 ELSE heard
          /\ IF startSequenceCounter >= StartSequenceLength
             THEN /\ state' = "sendSessionReq"
                  /\ UNCHANGED <<expired, startSequenceCounter>>
             ELSE /\ expired' = FALSE
                  /\ startSequenceCounter' = startSequenceCounter + 1
                  /\ UNCHANGED state
          /\ UNCHANGED <<currentParamId, status, value, link, asked, wire>>
    /\ UNCHANGED deviceType

\* encode fails on an address that validateNt refuses.
SendSessionReq ==
    /\ state = "sendSessionReq"
    /\ \/ (link # "up" \/ ~config.legal[currentParamId]) /\ Reset
       \/ /\ config.legal[currentParamId]
          /\ Write([what |-> "session", old |-> FALSE])
          /\ expired' = FALSE
          /\ state' = "recvSessionRsp"
          /\ UNCHANGED <<startSequenceCounter, currentParamId, status, value>>
    /\ UNCHANGED deviceType

\* An unsupported type is noted and the session goes on.
BadRecvSessionRsp ==
    /\ state = "recvSessionRsp"
    /\ \/ link # "up" /\ wire = <<>> /\ Reset /\ UNCHANGED deviceType
       \/ link = "up" /\ wire = <<>> /\ expired /\ Reset /\ UNCHANGED deviceType
       \/ /\ link # "down" /\ wire # <<>>
          /\ deviceType' = IF Head(wire).kind = "session" THEN Head(wire).type ELSE deviceType
          /\ wire' = Tail(wire)
          /\ state' = IF Head(wire).kind = "session" THEN "sendDataReq" ELSE state
          /\ UNCHANGED <<expired, startSequenceCounter, currentParamId, status, value,
                         link, heard, asked>>

\* The frame is read and the type noted first, then the timer is looked at: a
\* late answer leaves its type behind, but the session is over.
RecvSessionRsp ==
    /\ state = "recvSessionRsp"
    /\ \/ link # "up" /\ wire = <<>> /\ Reset /\ UNCHANGED deviceType
       \/ /\ link = "up" /\ wire = <<>>
          /\ expired
          /\ Reset
          /\ UNCHANGED deviceType
       \/ /\ link # "down" /\ wire # <<>>
          /\ deviceType' = IF Head(wire).kind = "session" THEN Head(wire).type ELSE deviceType
          /\ IF expired
             THEN Reset
             ELSE /\ wire' = Tail(wire)
                  /\ state' = IF Head(wire).kind = "session" /\ deviceType' \in Supported
                              THEN "sendDataReq" ELSE state
                  /\ UNCHANGED <<expired, startSequenceCounter, currentParamId, status, value,
                                 link, heard, asked>>

\* The current item can be asked for: its function code is the one for the type of the
\* meter, and encode or encodeReqLong accepts its address.
CanAsk == /\ deviceType \in Supported
          /\ config.func[currentParamId] = FuncOf(deviceType)
          /\ config.legal[currentParamId]

\* sendShortDataReq or sendLongDataReq by the type of the meter; an item that cannot
\* be asked for fails, and with it the session.
SendDataReq ==
    /\ state = "sendDataReq"
    /\ \/ (link # "up" \/ ~CanAsk) /\ Reset
       \/ /\ CanAsk
          /\ Write([what |-> deviceType, about |-> currentParamId, old |-> FALSE])
          /\ expired' = FALSE
          /\ state' = "recvDataRsp"
          /\ UNCHANGED <<startSequenceCounter, currentParamId, status, value>>
    /\ UNCHANGED deviceType

\* A frame cut short is forgotten by receive and reported as invalid, which ends
\* the session, by receiveLong.
RecvDataRsp ==
    /\ state = "recvDataRsp"
    /\ \/ link # "up" /\ wire = <<>> /\ Reset
       \/ /\ link = "up" /\ wire = <<>>
          /\ NoAnswer
          /\ UNCHANGED <<startSequenceCounter, linkVars>>
       \/ /\ link # "down" /\ wire # <<>> /\ Head(wire).kind = "cut" /\ deviceType = "short"
          /\ wire' = Tail(wire)
          /\ NoAnswer
          /\ UNCHANGED <<startSequenceCounter, link, heard, asked>>
       \/ /\ link # "down" /\ wire # <<>> /\ Head(wire).kind = "cut" /\ deviceType = "long"
          /\ Reset
       \/ /\ link # "down" /\ wire # <<>> /\ Head(wire).kind # "cut"
          /\ wire' = Tail(wire)
          /\ TakeFrame(Head(wire))
          /\ UNCHANGED <<startSequenceCounter, link, heard, asked>>
    /\ UNCHANGED deviceType

Disconnect ==
    /\ state = "disconnect"
    /\ CloseLink
    /\ expired' = FALSE
    /\ state' = "idle"
    /\ UNCHANGED <<startSequenceCounter, deviceType, currentParamId, status, value>>

Error ==
    /\ state = "error"
    /\ expired
    /\ expired' = FALSE
    /\ state' = "idle"
    /\ UNCHANGED <<startSequenceCounter, deviceType, currentParamId, status, value, linkVars>>

Handler == \/ LeaveInit \/ Idle \/ WaitingForLinkLock \/ Connect
           \/ SendStartSequence \/ SendSessionReq \/ RecvSessionRsp
           \/ SendDataReq \/ RecvDataRsp \/ Disconnect \/ Error

Tick == Handler /\ UNCHANGED <<faulty, config>>

-----------------------------------------------------------------------------
\* The world: meters, network, time.

\* What a meter makes of a request: it answers a session request once it has
\* heard the whole wake-up sequence (RsBusServerFsm::recvStartSequence), and a
\* data request in the format of its type.  While things are wrong, a meter that
\* is not the configured one may give any type.
Answers(r) ==
    IF r.what = "session"
    THEN {[kind |-> "session", type |-> t, old |-> r.old] :
              t \in IF heard < StartSequenceLength THEN {}
                    ELSE IF faulty THEN Supported \cup {"other"} ELSE {config.type[0]}}
    ELSE IF r.what = config.type[r.about] THEN {[kind |-> r.what, about |-> r.about, old |-> r.old]} ELSE {}

MeterAnswers ==
    /\ asked # <<>>
    /\ \/ \E f \in Answers(Head(asked)) : wire' = Append(wire, f)
       \/ Answers(Head(asked)) = {} /\ UNCHANGED wire
    /\ asked' = Tail(asked)
    /\ UNCHANGED <<clientVars, link, heard, faulty, config>>

\* A request or its answer is lost, what arrives is of no use, or its value is damaged.
AnswerLost ==
    /\ faulty
    /\ asked # <<>>
    /\ asked' = Tail(asked)
    /\ \/ wire' \in {wire} \cup {Append(wire, [kind |-> k]) : k \in {"junk", "cut"}}
       \/ /\ Head(asked).what # "session"
          /\ \E f \in Answers(Head(asked)) : wire' = Append(wire, [f EXCEPT !.about = NoItem])
    /\ UNCHANGED <<clientVars, link, heard, faulty, config>>

Noise ==
    /\ faulty
    /\ link = "up"
    /\ Len(wire) < MaxNoise
    /\ \E k \in {"junk", "cut"} : wire' = Append(wire, [kind |-> k])
    /\ UNCHANGED <<clientVars, link, heard, asked, faulty, config>>

PeerBreaks ==
    /\ faulty
    /\ link = "up"
    /\ link' = "broken"
    /\ asked' = <<>>
    /\ wire' \in {wire, <<>>}
    /\ UNCHANGED <<clientVars, heard, faulty, config>>

FaultsEnd ==
    /\ faulty
    /\ faulty' = FALSE
    /\ UNCHANGED <<clientVars, linkVars, config>>

\* Once the faults have ended the meters are faster than the receive timer.
Expire ==
    /\ ~expired
    /\ state \in {"init", "idle", "sendStartSequence", "recvSessionRsp", "recvDataRsp", "error"}
    /\ (~faulty /\ state \in {"recvSessionRsp", "recvDataRsp"}) => asked = <<>> /\ wire = <<>>
    /\ expired' = TRUE
    /\ UNCHANGED <<state, startSequenceCounter, deviceType, currentParamId, status, value,
                   linkVars, faulty, config>>

World == MeterAnswers \/ AnswerLost \/ Noise \/ PeerBreaks \/ FaultsEnd

Next == Tick \/ World \/ Expire

Safety == Init /\ [][Next]_vars

\* The main loop ticks the gate, the lock comes round (BusGate!ImplementsLinkLock),
\* timers run out, also while the meters are slow: a meter that keeps a request
\* for ever has lost it.
Spec == Safety /\ WF_vars(Tick) /\ WF_vars(Expire) /\ WF_vars(MeterAnswers)

-----------------------------------------------------------------------------
\* Properties.

\* Data is asked for and waited for only with the type of the meter known:
\* recvDataRsp has no default case and would return an indeterminate result.
DeviceTypeKnown == state \in {"sendDataReq", "recvDataRsp"} => deviceType \in Supported

\* No answer of an earlier session is taken in a later one: none that tells a type of
\* meter waits where it is read, and what is marked as valid was asked for in the
\* session that took it, at this item or at one before it (or was damaged in it).
LateAnswerStaysInSession ==
    /\ state = "recvSessionRsp" =>
          \A k \in DOMAIN wire : wire[k].kind = "session" => ~wire[k].old
    /\ \A i \in Item : status[i] = "ready" => value[i] \in (0 .. i) \cup {NoItem}

\* What is marked as valid came as the meter had sent it.
ReadyMeansUndamaged == \A i \in Item : status[i] = "ready" => value[i] # NoItem

SessionOpen == state \notin {"init", "idle", "waitingForLinkLock", "error"}
Untreated == IF SessionOpen /\ state # "disconnect"
             THEN {i \in Item : i >= currentParamId} ELSE {}

Poll == INSTANCE PollSession WITH open <- SessionOpen, left <- Untreated

\* Every session treats every item once or marks them all, and sessions neither
\* hang nor stop coming.
ImplementsPollSession == Poll!Spec

\* The gate recovers by itself: once the bus is sound, again and again a session
\* ends with every parameter read and valid.
RecoversOnSoundBus == []<>(state = "disconnect" /\ \A i \in Item : status[i] = "ready")

\* The addresses are meters', the function codes are those the meters need, and the
\* meters are all of the type of the first, the only one a session is opened with.
Fits == \A i \in Item : /\ config.legal[i]
                        /\ config.type[i] = config.type[0]
                        /\ config.type[i] \in Supported
                        /\ config.func[i] = FuncOf(config.type[i])

\* It does so with every configuration that fits.
RecoversIfConfigured == (Fits /\ <>~faulty) => RecoversOnSoundBus
=============================================================================
