--------------------------- MODULE RsBusClientProofs ---------------------------
(***************************************************************************)
(* Proofs about RsBusClient for every number of parameters, every           *)
(* configuration, every length of the wake-up sequence and any amount of    *)
(* noise: types, that the meter's type is known where data is waited for,   *)
(* that no answer outlives its session, and that the sessions are those of  *)
(* PollSession.tla.                                                         *)
(***************************************************************************)
EXTENDS RsBusClient, TLAPS

\* A request for item i, or an answer with a value of it, is under way.
AskedFor(i) == \E k \in DOMAIN asked : asked[k].what # "session" /\ asked[k].about = i
Answered(i) == \E k \in DOMAIN wire : wire[k].kind \in Supported /\ wire[k].about = i
UnderWay(i) == AskedFor(i) \/ Answered(i)

\* What is under way was asked for in this scan, at the current item or before it.
ThisScanOnly ==
    \A i \in Item : UnderWay(i) =>
        \/ state = "disconnect"
        \/ state \in {"sendDataReq", "recvDataRsp"} /\ i <= currentParamId

\* Was asked for in an earlier session.
OldFrame(f) == f \notin Useless /\ f.old

\* Nothing under way was, for a connection starts with nothing under way.
SessionsApart ==
    /\ \A k \in DOMAIN asked : ~asked[k].old
    /\ \A k \in DOMAIN wire : ~OldFrame(wire[k])
    /\ state \in {"init", "idle", "waitingForLinkLock", "connect", "error"} =>
          link = "down" /\ asked = <<>> /\ wire = <<>>

\* Outside a scan the cursor stands at the first item, so a session leaves none out.
ScanStart == state \notin {"sendDataReq", "recvDataRsp"} => currentParamId = 0

IInv == /\ TypeOK /\ DeviceTypeKnown /\ ScanStart
        /\ ThisScanOnly /\ SessionsApart /\ LateAnswerStaysInSession

-----------------------------------------------------------------------------
\* What the data are.

LEMMA ItemFacts ==
    0 \in Item /\ NoItem \notin Item /\ Earlier \notin Item /\ Item \subseteq Nat
BY RsBusAssumption DEF Item, NoItem, Earlier

LEMMA RequestKinds ==
    ASSUME NEW r \in Request
    PROVE  (r.what = "session" \/ (r.what \in Supported /\ r.about \in Item)) /\ r.old \in BOOLEAN
BY DEF Request

LEMMA FrameKinds ==
    ASSUME NEW f \in Frame
    PROVE  /\ f.kind \in {"session", "junk", "cut"} \cup Supported
           /\ f.kind = "session" => f.type \in Supported \cup {"other"}
           /\ f.kind \in Supported => f.about \in Item \cup {NoItem} /\ f \notin Useless
           /\ f.kind = "session" => f \notin Useless
BY DEF Frame, Supported, Useless

\* A meter's answer is a frame about what it was asked.
LEMMA AnswerFrames ==
    ASSUME NEW r \in Request, config \in Config, NEW f \in Answers(r)
    PROVE  /\ f \in Frame
           /\ f.kind \in Supported => r.what # "session" /\ f.about = r.about
           /\ f.old = r.old
           /\ r.what # "session" => [f EXCEPT !.about = NoItem] \in Frame
                                    /\ [f EXCEPT !.about = NoItem].about = NoItem
                                    /\ [f EXCEPT !.about = NoItem].old = r.old
<1>1. CASE r.what = "session"
  <2>1. config.type[0] \in Supported \cup {"other"}
    BY RsBusAssumption, ItemFacts
  <2>2. \E t \in Supported \cup {"other"} : f = [kind |-> "session", type |-> t, old |-> r.old]
    BY <1>1, <2>1 DEF Answers
  <2> QED BY <1>1, <2>2, RequestKinds DEF Frame, Supported
<1>2. CASE r.what # "session"
  <2>1. r.what \in Supported /\ r.about \in Item /\ r.old \in BOOLEAN
    BY <1>2, RequestKinds
  <2>2. f = [kind |-> r.what, about |-> r.about, old |-> r.old]
    BY <1>2 DEF Answers
  <2>3. [f EXCEPT !.about = NoItem] = [kind |-> r.what, about |-> NoItem, old |-> r.old]
    BY <2>2
  <2> QED BY <1>2, <2>1, <2>2, <2>3 DEF Frame
<1> QED BY <1>1, <1>2

LEMMA HeadElement ==
    ASSUME NEW S, NEW q \in Seq(S), q # <<>>
    PROVE  1 \in DOMAIN q /\ Head(q) = q[1] /\ Head(q) \in S
OBVIOUS

LEMMA FewerElements ==
    ASSUME NEW S, NEW q \in Seq(S), NEW p, p \in {q, <<>>} \/ (q # <<>> /\ p = Tail(q))
    PROVE  p \in Seq(S) /\ \A k \in DOMAIN p : \E j \in DOMAIN q : p[k] = q[j]
<1>1. CASE p = q
  BY <1>1
<1>2. CASE p = <<>>
  BY <1>2
<1>3. CASE q # <<>> /\ p = Tail(q)
  <2>1. p \in Seq(S) /\ \A k \in DOMAIN p : k + 1 \in DOMAIN q /\ p[k] = q[k + 1]
    BY <1>3
  <2> QED BY <2>1
<1> QED BY <1>1, <1>2, <1>3

LEMMA AppendElements ==
    ASSUME NEW S, NEW q \in Seq(S), NEW e \in S
    PROVE  /\ Append(q, e) \in Seq(S)
           /\ \A k \in DOMAIN Append(q, e) :
                 \/ k \in DOMAIN q /\ Append(q, e)[k] = q[k]
                 \/ Append(q, e)[k] = e
OBVIOUS

-----------------------------------------------------------------------------
\* What a step does to the requests and frames under way.

LEMMA FewerAsked ==
    ASSUME TypeOK, asked' \in {asked, <<>>} \/ (asked # <<>> /\ asked' = Tail(asked))
    PROVE  asked' \in Seq(Request) /\ \A i \in Item : AskedFor(i)' => AskedFor(i)
<1>1. asked' \in Seq(Request) /\ \A k \in DOMAIN asked' : \E j \in DOMAIN asked : asked'[k] = asked[j]
  BY FewerElements DEF TypeOK
<1> QED BY <1>1 DEF AskedFor

LEMMA FewerAnswered ==
    ASSUME TypeOK, wire' \in {wire, <<>>} \/ (wire # <<>> /\ wire' = Tail(wire))
    PROVE  wire' \in Seq(Frame) /\ \A i \in Item : Answered(i)' => Answered(i)
<1>1. wire' \in Seq(Frame) /\ \A k \in DOMAIN wire' : \E j \in DOMAIN wire : wire'[k] = wire[j]
  BY FewerElements DEF TypeOK
<1> QED BY <1>1 DEF Answered

LEMMA OneMoreAsked ==
    ASSUME TypeOK, NEW r \in Request, asked' = Append(asked, r)
    PROVE  /\ asked' \in Seq(Request)
           /\ \A i \in Item : AskedFor(i)' => AskedFor(i) \/ (r.what # "session" /\ r.about = i)
<1>1. /\ asked' \in Seq(Request)
      /\ \A k \in DOMAIN asked' : (k \in DOMAIN asked /\ asked'[k] = asked[k]) \/ asked'[k] = r
  BY AppendElements DEF TypeOK
<1> QED BY <1>1 DEF AskedFor

LEMMA OneMoreAnswered ==
    ASSUME TypeOK, NEW f \in Frame, wire' = Append(wire, f)
    PROVE  /\ wire' \in Seq(Frame)
           /\ \A i \in Item : Answered(i)' => Answered(i) \/ (f.kind \in Supported /\ f.about = i)
<1>1. /\ wire' \in Seq(Frame)
      /\ \A k \in DOMAIN wire' : (k \in DOMAIN wire /\ wire'[k] = wire[k]) \/ wire'[k] = f
  BY AppendElements DEF TypeOK
<1> QED BY <1>1 DEF Answered

\* Frames nobody sent as an answer are about no item.
LEMMA JunkFrames ==
    ASSUME NEW k \in {"junk", "cut"}
    PROVE  [kind |-> k] \in Frame /\ [kind |-> k] \in Useless /\ [kind |-> k].kind \notin Supported
BY DEF Frame, Supported, Useless

\* Marked as old, a request or a frame is about the same item.
LEMMA OldRequests ==
    \A r \in Request : /\ AsOld(r) \in Request /\ AsOld(r).what = r.what
                       /\ r.what # "session" => AsOld(r).about = r.about
BY DEF AsOld, Request, Useless, Supported

LEMMA OldFrames ==
    \A f \in Frame : /\ AsOld(f) \in Frame /\ AsOld(f).kind = f.kind
                     /\ f.kind \in Supported => AsOld(f).about = f.about
<1> SUFFICES ASSUME NEW f \in Frame, f \notin Useless
             PROVE  /\ AsOld(f) \in Frame /\ AsOld(f).kind = f.kind
                    /\ f.kind \in Supported => AsOld(f).about = f.about
  BY DEF AsOld
<1>1. AsOld(f) = [f EXCEPT !.old = TRUE]
  BY DEF AsOld
<1>2. CASE f \in [kind : {"session"}, type : Supported \cup {"other"}, old : BOOLEAN]
  <2>1. /\ [f EXCEPT !.old = TRUE] \in [kind : {"session"}, type : Supported \cup {"other"}, old : BOOLEAN]
        /\ [f EXCEPT !.old = TRUE].kind = "session" /\ f.kind = "session"
    BY <1>2
  <2> QED BY <1>1, <2>1 DEF Frame, Supported
<1>3. CASE f \in [kind : Supported, about : Item \cup {NoItem}, old : BOOLEAN]
  <2>1. /\ [f EXCEPT !.old = TRUE] \in [kind : Supported, about : Item \cup {NoItem}, old : BOOLEAN]
        /\ [f EXCEPT !.old = TRUE].kind = f.kind /\ [f EXCEPT !.old = TRUE].about = f.about
    BY <1>3
  <2> QED BY <1>1, <2>1 DEF Frame
<1> QED BY <1>2, <1>3 DEF Frame

LEMMA MarkOldQueues ==
    ASSUME TypeOK, MarkOld
    PROVE  /\ asked' \in Seq(Request) /\ wire' \in Seq(Frame)
           /\ \A i \in Item : UnderWay(i)' => UnderWay(i)
           /\ asked = <<>> => asked' = <<>>
           /\ wire = <<>> => wire' = <<>>
<1>1. asked \in Seq(Request) /\ wire \in Seq(Frame)
  BY DEF TypeOK
<1>2. /\ \A k \in DOMAIN asked : asked[k] \in Request
      /\ \A k \in DOMAIN wire : wire[k] \in Frame
  BY <1>1
<1>3. \A k \in DOMAIN asked : AsOld(asked[k]) \in Request
  BY <1>2, OldRequests, Zenon
<1>4. \A k \in DOMAIN wire : AsOld(wire[k]) \in Frame
  BY <1>2, OldFrames, Zenon
<1>5. asked' \in Seq(Request)
  BY <1>1, <1>3 DEF MarkOld
<1>6. wire' \in Seq(Frame)
  BY <1>1, <1>4 DEF MarkOld
<1>7. (asked = <<>> => asked' = <<>>) /\ (wire = <<>> => wire' = <<>>)
  BY DEF MarkOld
<1>8. ASSUME NEW i \in Item, UnderWay(i)' PROVE UnderWay(i)
  <2>1. CASE AskedFor(i)'
    <3>1. PICK k \in DOMAIN asked' : asked'[k].what # "session" /\ asked'[k].about = i
      BY <2>1 DEF AskedFor
    <3>2. k \in DOMAIN asked /\ asked'[k] = AsOld(asked[k]) /\ asked[k] \in Request
      BY <1>1, <3>1 DEF MarkOld
    <3>3. asked[k].what # "session" /\ asked[k].about = i
      BY <3>1, <3>2, OldRequests, Zenon
    <3> QED BY <3>2, <3>3 DEF UnderWay, AskedFor
  <2>2. CASE Answered(i)'
    <3>1. PICK k \in DOMAIN wire' : wire'[k].kind \in Supported /\ wire'[k].about = i
      BY <2>2 DEF Answered
    <3>2. k \in DOMAIN wire /\ wire'[k] = AsOld(wire[k]) /\ wire[k] \in Frame
      BY <1>1, <3>1 DEF MarkOld
    <3>3. wire[k].kind \in Supported /\ wire[k].about = i
      BY <3>1, <3>2, OldFrames, Zenon
    <3> QED BY <3>2, <3>3 DEF UnderWay, Answered
  <2> QED BY <1>8, <2>1, <2>2 DEF UnderWay
<1> QED BY <1>5, <1>6, <1>7, <1>8

\* The queues hold requests and frames, and the only handler that adds something about
\* an item is sendDataReq, which asks for the current one.
LEMMA HandlerQueues ==
    ASSUME TypeOK, Tick
    PROVE  /\ asked' \in Seq(Request) /\ wire' \in Seq(Frame)
           /\ \A i \in Item : UnderWay(i)' =>
                 \/ UnderWay(i)
                 \/ state = "sendDataReq" /\ state' = "recvDataRsp" /\ i = currentParamId
<1>0. CASE MarkOld
  BY <1>0, MarkOldQueues
<1> SUFFICES ASSUME ~MarkOld
             PROVE  /\ asked' \in Seq(Request) /\ wire' \in Seq(Frame)
                    /\ \A i \in Item : UnderWay(i)' =>
                          \/ UnderWay(i)
                          \/ state = "sendDataReq" /\ state' = "recvDataRsp" /\ i = currentParamId
  BY <1>0
<1> USE DEF Tick, Handler, LeaveInit, Idle, WaitingForLinkLock, Connect, SendStartSequence,
            SendSessionReq, RecvSessionRsp, SendDataReq, RecvDataRsp, Disconnect, Error,
            Reset, CloseLink, Write, CanAsk, linkVars
<1>1. wire' \in {wire, <<>>} \/ (wire # <<>> /\ wire' = Tail(wire))
  OBVIOUS
<1>2. \/ asked' \in {asked, <<>>}
      \/ asked' = Append(asked, [what |-> "session", old |-> FALSE])
      \/ /\ asked' = Append(asked, [what |-> deviceType, about |-> currentParamId, old |-> FALSE])
         /\ deviceType \in Supported
         /\ state = "sendDataReq" /\ state' = "recvDataRsp"
  OBVIOUS
<1> HIDE DEF Tick
<1>3. wire' \in Seq(Frame) /\ \A i \in Item : Answered(i)' => Answered(i)
  BY <1>1, FewerAnswered
<1>4. CASE asked' \in {asked, <<>>}
  BY <1>3, <1>4, FewerAsked DEF UnderWay
<1>5. CASE asked' = Append(asked, [what |-> "session", old |-> FALSE])
  <2>1. [what |-> "session", old |-> FALSE] \in Request
    BY DEF Request
  <2> QED BY <1>3, <1>5, <2>1, OneMoreAsked DEF UnderWay
<1>6. CASE /\ asked' = Append(asked, [what |-> deviceType, about |-> currentParamId, old |-> FALSE])
           /\ deviceType \in Supported
           /\ state = "sendDataReq" /\ state' = "recvDataRsp"
  <2>1. [what |-> deviceType, about |-> currentParamId, old |-> FALSE] \in Request
    BY <1>6 DEF Request, TypeOK
  <2> QED BY <1>3, <1>6, <2>1, OneMoreAsked DEF UnderWay
<1> QED BY <1>2, <1>4, <1>5, <1>6

\* The world answers what it was asked, or less.
LEMMA WorldQueues ==
    ASSUME TypeOK, World \/ Expire
    PROVE  /\ asked' \in Seq(Request) /\ wire' \in Seq(Frame)
           /\ \A i \in Item : UnderWay(i)' => UnderWay(i)
<1>1. CASE MeterAnswers \/ AnswerLost
  <2>1. asked # <<>> /\ asked' = Tail(asked)
    BY <1>1 DEF MeterAnswers, AnswerLost
  <2>2. asked' \in Seq(Request) /\ \A i \in Item : AskedFor(i)' => AskedFor(i)
    BY <2>1, FewerAsked
  <2>3. 1 \in DOMAIN asked /\ Head(asked) = asked[1] /\ Head(asked) \in Request
    BY <2>1, HeadElement DEF TypeOK
  <2>4. CASE wire' = wire
    BY <2>2, <2>4, FewerAnswered DEF UnderWay
  <2>5. ASSUME NEW f \in Answers(Head(asked)), wire' = Append(wire, f)
        PROVE  /\ wire' \in Seq(Frame)
               /\ \A i \in Item : Answered(i)' => Answered(i) \/ AskedFor(i)
    <3>1. f \in Frame /\ (f.kind \in Supported => Head(asked).what # "session" /\ f.about = Head(asked).about)
      BY <2>3, AnswerFrames DEF TypeOK
    <3>2. f.kind \in Supported => AskedFor(f.about)
      BY <2>3, <3>1 DEF AskedFor
    <3> QED BY <2>5, <3>1, <3>2, OneMoreAnswered
  <2>6. ASSUME NEW k \in {"junk", "cut"}, wire' = Append(wire, [kind |-> k])
        PROVE  wire' \in Seq(Frame) /\ \A i \in Item : Answered(i)' => Answered(i)
    BY <2>6, JunkFrames, OneMoreAnswered
  <2>7. ASSUME NEW f \in Answers(Head(asked)), Head(asked).what # "session",
               wire' = Append(wire, [f EXCEPT !.about = NoItem])
        PROVE  wire' \in Seq(Frame) /\ \A i \in Item : Answered(i)' => Answered(i)
    <3> DEFINE g == [f EXCEPT !.about = NoItem]
    <3>1. g \in Frame /\ g.about = NoItem
      BY <2>3, <2>7, AnswerFrames DEF TypeOK
    <3> HIDE DEF g
    <3> QED BY <2>7, <3>1, OneMoreAnswered, ItemFacts DEF g
  <2> QED BY <1>1, <2>2, <2>4, <2>5, <2>6, <2>7 DEF MeterAnswers, AnswerLost, UnderWay
<1>2. CASE Noise \/ PeerBreaks \/ FaultsEnd \/ Expire
  <2>1. asked' \in {asked, <<>>}
    BY <1>2 DEF Noise, PeerBreaks, FaultsEnd, Expire, linkVars
  <2>2. CASE wire' \in {wire, <<>>}
    BY <2>1, <2>2, FewerAsked, FewerAnswered DEF UnderWay
  <2>3. ASSUME NEW k \in {"junk", "cut"}, wire' = Append(wire, [kind |-> k])
        PROVE  wire' \in Seq(Frame) /\ \A i \in Item : Answered(i)' => Answered(i)
    BY <2>3, JunkFrames, OneMoreAnswered
  <2> QED BY <1>2, <2>1, <2>2, <2>3, FewerAsked
             DEF Noise, PeerBreaks, FaultsEnd, Expire, linkVars, UnderWay
<1> QED BY <1>1, <1>2 DEF World

-----------------------------------------------------------------------------
\* Types.

LEMMA AdvanceType ==
    ASSUME TypeOK, Advance
    PROVE  currentParamId' \in Item /\ state' \in {"sendDataReq", "disconnect"}
<1>1. CASE currentParamId + 1 = NumItems
  BY <1>1, ItemFacts DEF Advance
<1>2. CASE currentParamId + 1 # NumItems
  <2>1. currentParamId + 1 \in Item
    BY <1>2, RsBusAssumption DEF TypeOK, Item
  <2> QED BY <1>2, <2>1 DEF Advance
<1> QED BY <1>1, <1>2

LEMMA CounterFacts ==
    /\ 0 \in 0 .. StartSequenceLength
    /\ \A n \in 0 .. StartSequenceLength :
          n < StartSequenceLength \/ ~(n >= StartSequenceLength) => n + 1 \in 0 .. StartSequenceLength
BY RsBusAssumption

LEMMA ResetType ==
    ASSUME TypeOK, Reset
    PROVE  /\ state' \in FsmState /\ expired' \in BOOLEAN /\ currentParamId' \in Item
           /\ startSequenceCounter' \in 0 .. StartSequenceLength
           /\ status' \in [Item -> {"undef", "timeout", "invalid", "ready"}]
           /\ value' \in [Item -> Item \cup {NoItem, Earlier}]
           /\ link' \in {"down", "up", "broken"} /\ heard' \in 0 .. StartSequenceLength
BY CounterFacts, ItemFacts DEF TypeOK, Reset, CloseLink, FsmState

\* The registers and the cursor after a frame or a timeout.
LEMMA TakeType ==
    ASSUME TypeOK, NoAnswer \/ \E f \in Frame : TakeFrame(f)
    PROVE  /\ state' \in FsmState \cup {state} /\ expired' \in BOOLEAN /\ currentParamId' \in Item
           /\ status' \in [Item -> {"undef", "timeout", "invalid", "ready"}]
           /\ value' \in [Item -> Item \cup {NoItem, Earlier}]
<1>1. CASE NoAnswer
  BY <1>1, AdvanceType DEF NoAnswer, Timeout, SetStatus, TypeOK, FsmState
<1>2. ASSUME NEW f \in Frame, TakeFrame(f)
      PROVE  /\ state' \in FsmState \cup {state} /\ expired' \in BOOLEAN /\ currentParamId' \in Item
             /\ status' \in [Item -> {"undef", "timeout", "invalid", "ready"}]
             /\ value' \in [Item -> Item \cup {NoItem, Earlier}]
  <2>1. Decodes(f) => Origin(f) \in Item \cup {NoItem, Earlier}
    BY FrameKinds DEF Decodes, TypeOK, Supported, Origin
  <2>2. UNCHANGED expired /\ currentParamId' \in Item /\ state' \in {"sendDataReq", "disconnect"}
    BY <1>2, AdvanceType DEF TakeFrame
  <2>3. /\ status' \in [Item -> {"undef", "timeout", "invalid", "ready"}]
        /\ value' \in [Item -> Item \cup {NoItem, Earlier}]
    BY <1>2, <2>1 DEF TakeFrame, SetValue, SetStatus, TypeOK
  <2> QED BY <2>2, <2>3 DEF TypeOK, FsmState
<1> QED BY <1>1, <1>2

LEMMA TypeNext == TypeOK /\ [Next]_vars => TypeOK'
<1> SUFFICES ASSUME TypeOK, [Next]_vars PROVE TypeOK'
  OBVIOUS
<1>1. CASE UNCHANGED vars
  BY <1>1 DEF vars, TypeOK
<1>2. CASE World \/ Expire
  <2>1. asked' \in Seq(Request) /\ wire' \in Seq(Frame)
    BY <1>2, WorldQueues
  <2> QED BY <1>2, <2>1 DEF World, MeterAnswers, AnswerLost, Noise, PeerBreaks, FaultsEnd, Expire,
                            clientVars, linkVars, TypeOK
<1>3. CASE Tick
  <2>1. asked' \in Seq(Request) /\ wire' \in Seq(Frame) /\ UNCHANGED <<faulty, config>>
    BY <1>3, HandlerQueues DEF Tick
  <2>2. wire # <<>> => Head(wire) \in Frame
    BY HeadElement DEF TypeOK
  <2>3. CASE Reset
    <3>1. deviceType' \in Supported \cup {"other"}
      BY <1>3, <2>2, FrameKinds DEF Tick, Handler, LeaveInit, Idle, WaitingForLinkLock, Connect,
            SendStartSequence, SendSessionReq, RecvSessionRsp, SendDataReq, RecvDataRsp,
            Disconnect, Error, TypeOK
    <3> QED BY <2>1, <2>3, <3>1, ResetType DEF TypeOK
  <2>4. CASE LeaveInit \/ Idle \/ WaitingForLinkLock \/ Disconnect \/ Error
    <3>1. /\ UNCHANGED <<startSequenceCounter, deviceType, currentParamId, status, value>>
          /\ link' \in {link, "down"} /\ heard' \in {heard, 0}
          /\ expired' \in {expired, FALSE}
          /\ state' \in FsmState
      BY <2>4 DEF LeaveInit, Idle, WaitingForLinkLock, Disconnect, Error, CloseLink, linkVars,
                  FsmState
    <3> QED BY <2>1, <3>1, CounterFacts DEF TypeOK
  <2>5. CASE (Connect \/ SendSessionReq \/ SendDataReq) /\ ~Reset
    <3>1. /\ UNCHANGED <<deviceType, currentParamId, status, value, heard>>
          /\ startSequenceCounter' \in {startSequenceCounter, 0}
          /\ link' \in {link, "up"} /\ expired' = FALSE
          /\ state' \in FsmState
      BY <2>5 DEF Connect, SendSessionReq, SendDataReq, Write, FsmState
    <3> QED BY <2>1, <3>1, CounterFacts DEF TypeOK
  <2>6. CASE SendStartSequence /\ ~Reset
    <3>1. /\ heard' = heard \/ (heard < StartSequenceLength /\ heard' = heard + 1)
          /\ \/ UNCHANGED startSequenceCounter
             \/ /\ ~(startSequenceCounter >= StartSequenceLength)
                /\ startSequenceCounter' = startSequenceCounter + 1
          /\ UNCHANGED <<deviceType, currentParamId, status, value, link>>
          /\ expired' \in {expired, FALSE}
          /\ state' \in {"sendSessionReq", state}
      BY <2>6 DEF SendStartSequence
    <3>2. heard' \in 0 .. StartSequenceLength /\ startSequenceCounter' \in 0 .. StartSequenceLength
      BY <3>1, CounterFacts DEF TypeOK
    <3> QED BY <2>1, <3>1, <3>2 DEF TypeOK, FsmState
  <2>7. CASE RecvSessionRsp /\ ~Reset
    <3>1. deviceType' \in Supported \cup {"other"}
      BY <2>2, <2>7, FrameKinds DEF RecvSessionRsp, TypeOK
    <3> QED BY <2>1, <2>7, <3>1 DEF RecvSessionRsp, TypeOK, FsmState
  <2>8. CASE RecvDataRsp /\ ~Reset
    <3>1. NoAnswer \/ \E f \in Frame : TakeFrame(f)
      BY <2>2, <2>8 DEF RecvDataRsp
    <3> QED BY <2>1, <2>8, <3>1, TakeType DEF RecvDataRsp, linkVars, TypeOK
  <2> QED BY <1>3, <2>3, <2>4, <2>5, <2>6, <2>7, <2>8 DEF Tick, Handler
<1> QED BY <1>1, <1>2, <1>3 DEF Next

-----------------------------------------------------------------------------
\* The rest of the invariant.

LEMMA DeviceTypeStep == DeviceTypeKnown /\ [Next]_vars => DeviceTypeKnown'
<1> USE DEF DeviceTypeKnown
<1>1. ASSUME DeviceTypeKnown, Tick PROVE DeviceTypeKnown'
  BY <1>1 DEF Tick, Handler, LeaveInit, Idle, WaitingForLinkLock, Connect, SendStartSequence,
              SendSessionReq, RecvSessionRsp, SendDataReq, RecvDataRsp, Disconnect, Error, Reset,
              NoAnswer, Timeout, TakeFrame, Advance
<1>2. ASSUME DeviceTypeKnown, World \/ Expire \/ UNCHANGED vars PROVE DeviceTypeKnown'
  BY <1>2 DEF World, MeterAnswers, AnswerLost, Noise, PeerBreaks, FaultsEnd, Expire,
              clientVars, vars
<1> QED BY <1>1, <1>2 DEF Next

LEMMA ScanStartStep == ScanStart /\ [Next]_vars => ScanStart'
<1> USE DEF ScanStart
<1>1. ASSUME ScanStart, Tick PROVE ScanStart'
  BY <1>1 DEF Tick, Handler, LeaveInit, Idle, WaitingForLinkLock, Connect, SendStartSequence,
              SendSessionReq, RecvSessionRsp, SendDataReq, RecvDataRsp, Disconnect, Error, Reset,
              NoAnswer, Timeout, TakeFrame, Advance
<1>2. ASSUME ScanStart, World \/ Expire \/ UNCHANGED vars PROVE ScanStart'
  BY <1>2 DEF World, MeterAnswers, AnswerLost, Noise, PeerBreaks, FaultsEnd, Expire,
              clientVars, vars
<1> QED BY <1>1, <1>2 DEF Next

LEMMA ThisScanStep ==
    ASSUME TypeOK, ScanStart, ThisScanOnly, [Next]_vars
    PROVE  ThisScanOnly'
<1>1. CASE UNCHANGED vars
  BY <1>1 DEF vars, ThisScanOnly, UnderWay, AskedFor, Answered
<1>2. CASE World \/ Expire
  <2>1. UNCHANGED <<state, currentParamId>>
    BY <1>2 DEF World, MeterAnswers, AnswerLost, Noise, PeerBreaks, FaultsEnd, Expire, clientVars
  <2> QED BY <1>2, <2>1, WorldQueues DEF ThisScanOnly
<1>3. CASE Tick
  <2>1. CASE Reset \/ Disconnect
    BY <2>1 DEF Reset, Disconnect, CloseLink, ThisScanOnly, UnderWay, AskedFor, Answered
  <2> SUFFICES ASSUME NEW i \in Item, UnderWay(i)', ~Reset, ~Disconnect
               PROVE  \/ state' = "disconnect"
                      \/ state' \in {"sendDataReq", "recvDataRsp"} /\ i <= currentParamId'
    BY <2>1 DEF ThisScanOnly
  <2>2. \/ UnderWay(i)
        \/ state = "sendDataReq" /\ state' = "recvDataRsp" /\ i = currentParamId
    BY <1>3, HandlerQueues
  <2>3. i \in Nat /\ currentParamId \in Nat
    BY ItemFacts DEF TypeOK
  <2>4. CASE UnderWay(i)
    <3>1. state \in {"sendDataReq", "recvDataRsp", "disconnect"}
          /\ (state # "disconnect" => i <= currentParamId)
      BY <2>4 DEF ThisScanOnly
    <3>2. SendDataReq \/ RecvDataRsp
      BY <1>3, <3>1 DEF Tick, Handler, LeaveInit, Idle, WaitingForLinkLock, Connect,
                        SendStartSequence, SendSessionReq, RecvSessionRsp, Error
    <3>3. \/ state' \in {"sendDataReq", "recvDataRsp"}
             /\ currentParamId' \in {currentParamId, currentParamId + 1}
          \/ state' = "disconnect"
      BY <3>2 DEF SendDataReq, RecvDataRsp, NoAnswer, Timeout, TakeFrame, Advance
    <3>4. state # "disconnect"
      BY <3>2 DEF SendDataReq, RecvDataRsp
    <3> QED BY <2>3, <3>1, <3>3, <3>4
  <2>5. CASE state = "sendDataReq" /\ state' = "recvDataRsp" /\ i = currentParamId
    <3>1. SendDataReq
      BY <1>3, <2>5 DEF Tick, Handler, LeaveInit, Idle, WaitingForLinkLock, Connect,
                        SendStartSequence, SendSessionReq, RecvSessionRsp, RecvDataRsp, Error
    <3>2. UNCHANGED currentParamId
      BY <3>1 DEF SendDataReq
    <3> QED BY <2>3, <2>5, <3>2
  <2> QED BY <2>2, <2>4, <2>5
<1> QED BY <1>1, <1>2, <1>3 DEF Next

\* Every request is one of the session going on, and so is every answer to it.
LEMMA SessionsStep ==
    ASSUME TypeOK, SessionsApart, [Next]_vars
    PROVE  SessionsApart'
<1>0. asked \in Seq(Request) /\ wire \in Seq(Frame) /\ config \in Config
  BY DEF TypeOK
<1>1. CASE UNCHANGED vars
  BY <1>1 DEF vars, SessionsApart, OldFrame
<1>2. ASSUME UNCHANGED state, UNCHANGED link \/ link' = "broken",
             asked' \in {asked, <<>>} \/ (asked # <<>> /\ asked' = Tail(asked)),
             \/ wire' \in {wire, <<>>}
             \/ /\ asked # <<>> \/ link = "up"
                /\ \E f \in Frame : ~OldFrame(f) /\ wire' = Append(wire, f),
             link' = "broken" => link = "up" \/ UNCHANGED link
      PROVE  SessionsApart'
  <2>1. \A k \in DOMAIN asked' : \E j \in DOMAIN asked : asked'[k] = asked[j]
    BY <1>0, <1>2, FewerElements
  <2>2. \A k \in DOMAIN wire' : ~OldFrame(wire'[k])
    <3>1. CASE wire' \in {wire, <<>>}
      BY <3>1 DEF SessionsApart
    <3>2. ASSUME NEW f \in Frame, ~OldFrame(f), wire' = Append(wire, f)
          PROVE  \A k \in DOMAIN wire' : ~OldFrame(wire'[k])
      BY <1>0, <3>2, AppendElements DEF SessionsApart
    <3> QED BY <1>2, <3>1, <3>2
  <2>3. state' \in {"init", "idle", "waitingForLinkLock", "connect", "error"} =>
            link' = "down" /\ asked' = <<>> /\ wire' = <<>>
    BY <1>2 DEF SessionsApart
  <2>4. \A k \in DOMAIN asked' : ~asked'[k].old
    BY <2>1 DEF SessionsApart
  <2> QED BY <2>2, <2>3, <2>4 DEF SessionsApart, OldFrame
<1>3. CASE MeterAnswers \/ AnswerLost
  <2>1. asked # <<>> /\ asked' = Tail(asked) /\ UNCHANGED <<state, link>>
    BY <1>3 DEF MeterAnswers, AnswerLost, clientVars
  <2>2. Head(asked) \in Request /\ ~Head(asked).old
    BY <1>0, <2>1, HeadElement DEF SessionsApart
  <2>3. ASSUME NEW f \in Answers(Head(asked))
        PROVE  /\ f \in Frame /\ ~OldFrame(f)
               /\ Head(asked).what # "session" =>
                     [f EXCEPT !.about = NoItem] \in Frame /\ ~OldFrame([f EXCEPT !.about = NoItem])
    BY <1>0, <2>2, AnswerFrames DEF OldFrame
  <2>4. \A k \in {"junk", "cut"} : [kind |-> k] \in Frame /\ ~OldFrame([kind |-> k])
    BY JunkFrames DEF OldFrame
  <2>5. wire' = wire \/ \E f \in Frame : ~OldFrame(f) /\ wire' = Append(wire, f)
    BY <1>3, <2>3, <2>4 DEF MeterAnswers, AnswerLost
  <2> QED BY <1>2, <2>1, <2>5
<1>4. CASE Noise
  <2>1. \A k \in {"junk", "cut"} : [kind |-> k] \in Frame /\ ~OldFrame([kind |-> k])
    BY JunkFrames DEF OldFrame
  <2>2. \E f \in Frame : ~OldFrame(f) /\ wire' = Append(wire, f)
    BY <1>4, <2>1 DEF Noise
  <2> QED BY <1>2, <1>4, <2>2 DEF Noise, clientVars
<1>5. CASE PeerBreaks \/ FaultsEnd \/ Expire
  BY <1>2, <1>5 DEF PeerBreaks, FaultsEnd, Expire, clientVars, linkVars
<1>6. CASE Tick
  <2>1. CASE Reset \/ Disconnect
    BY <2>1 DEF Reset, Disconnect, CloseLink, SessionsApart
  <2>2. CASE MarkOld /\ state = "connect" /\ state' = "sendStartSequence"
    BY <2>2, MarkOldQueues DEF SessionsApart
  <2>3. CASE LeaveInit \/ Idle \/ WaitingForLinkLock \/ Error
    BY <2>3 DEF LeaveInit, Idle, WaitingForLinkLock, Error, linkVars, SessionsApart, OldFrame
  <2>4. CASE (SendStartSequence \/ SendSessionReq \/ RecvSessionRsp \/ SendDataReq \/ RecvDataRsp)
             /\ ~Reset
    <3>1. state' \notin {"init", "idle", "waitingForLinkLock", "connect", "error"}
      BY <2>4 DEF SendStartSequence, SendSessionReq, RecvSessionRsp, SendDataReq, RecvDataRsp,
                  NoAnswer, Timeout, TakeFrame, Advance
    <3>2. wire' = wire \/ (wire # <<>> /\ wire' = Tail(wire))
      BY <2>4 DEF SendStartSequence, SendSessionReq, RecvSessionRsp, SendDataReq, RecvDataRsp,
                  Write, linkVars
    <3>3. \A k \in DOMAIN wire' : ~OldFrame(wire'[k])
      <4>1. \A k \in DOMAIN wire' : \E j \in DOMAIN wire : wire'[k] = wire[j]
        BY <1>0, <3>2, FewerElements
      <4> QED BY <4>1 DEF SessionsApart
    <3>4. \/ asked' = asked
          \/ \E r \in Request : ~r.old /\ asked' = Append(asked, r)
      <4>1. /\ [what |-> "session", old |-> FALSE] \in Request
            /\ deviceType \in Supported =>
                  [what |-> deviceType, about |-> currentParamId, old |-> FALSE] \in Request
        BY DEF Request, TypeOK
      <4>2. SendDataReq /\ ~Reset => deviceType \in Supported
        BY DEF SendDataReq, CanAsk
      <4> QED BY <2>4, <4>1, <4>2 DEF SendStartSequence, SendSessionReq, RecvSessionRsp,
                                      SendDataReq, RecvDataRsp, Write, linkVars
    <3>5. \A k \in DOMAIN asked' : ~asked'[k].old
      <4>1. CASE asked' = asked
        BY <4>1 DEF SessionsApart
      <4>2. ASSUME NEW r \in Request, ~r.old, asked' = Append(asked, r)
            PROVE  \A k \in DOMAIN asked' : ~asked'[k].old
        BY <1>0, <4>2, AppendElements DEF SessionsApart
      <4> QED BY <3>4, <4>1, <4>2
    <3> QED BY <3>1, <3>3, <3>5 DEF SessionsApart, OldFrame
  <2> QED BY <1>6, <2>1, <2>2, <2>3, <2>4 DEF Tick, Handler, Connect
<1> QED BY <1>1, <1>3, <1>4, <1>5, <1>6 DEF Next, World

\* A value that came back was asked for at the item it is taken for, or before it.
LEMMA LateStep ==
    ASSUME TypeOK, TypeOK', ThisScanOnly, SessionsApart, SessionsApart', LateAnswerStaysInSession,
           [Next]_vars
    PROVE  LateAnswerStaysInSession'
<1>0. \A k \in DOMAIN wire' : wire'[k].kind = "session" => ~wire'[k].old
  <2>1. \A k \in DOMAIN wire' : wire'[k] \in Frame
    BY DEF TypeOK
  <2> QED BY <2>1, FrameKinds DEF SessionsApart, OldFrame
<1>1. CASE UNCHANGED value /\ \A i \in Item : status'[i] = "ready" => status[i] = "ready"
  BY <1>0, <1>1 DEF LateAnswerStaysInSession
<1>2. CASE World \/ Expire \/ UNCHANGED vars
  BY <1>1, <1>2 DEF World, MeterAnswers, AnswerLost, Noise, PeerBreaks, FaultsEnd, Expire,
                    clientVars, vars
<1>3. CASE Tick
  <2>1. CASE RecvDataRsp /\ wire # <<>> /\ TakeFrame(Head(wire)) /\ Decodes(Head(wire))
    <3>1. 1 \in DOMAIN wire /\ Head(wire) = wire[1] /\ Head(wire) \in Frame
      BY <2>1, HeadElement DEF TypeOK
    <3>2. Head(wire).kind \in Supported /\ Head(wire).about \in Item \cup {NoItem}
      BY <2>1, <3>1, FrameKinds DEF Decodes, TypeOK, Supported
    <3>3. Head(wire).about \in Item => UnderWay(Head(wire).about)
      BY <3>1, <3>2 DEF UnderWay, Answered
    <3>4. Head(wire).about \in Item => Head(wire).about <= currentParamId
      BY <2>1, <3>3 DEF ThisScanOnly, RecvDataRsp
    <3>5. ~Head(wire).old
      BY <3>1, <3>2, FrameKinds DEF SessionsApart, OldFrame
    <3>6. Origin(Head(wire)) \in (0 .. currentParamId) \cup {NoItem}
      <4>1. Origin(Head(wire)) = Head(wire).about
        BY <3>5 DEF Origin
      <4>2. currentParamId \in Nat /\ Item \subseteq Nat
        BY ItemFacts DEF TypeOK
      <4>3. CASE Head(wire).about \in Item
        <5>1. \A a, c \in Nat : a <= c => a \in 0 .. c
          OBVIOUS
        <5>2. Head(wire).about \in Nat /\ Head(wire).about <= currentParamId
          BY <3>4, <4>2, <4>3, Zenon
        <5>3. Head(wire).about \in 0 .. currentParamId
          BY <4>2, <5>1, <5>2, Zenon
        <5> QED BY <4>1, <5>3, Zenon
      <4>4. CASE Head(wire).about = NoItem
        BY <4>1, <4>4
      <4> QED BY <3>2, <4>3, <4>4
    <3>7. /\ status' = [status EXCEPT ![currentParamId] = "ready"]
          /\ value' = [value EXCEPT ![currentParamId] = Origin(Head(wire))]
      BY <2>1 DEF TakeFrame, SetValue, SetStatus
    <3> QED BY <1>0, <3>6, <3>7 DEF LateAnswerStaysInSession, TypeOK
  <2>2. CASE ~(RecvDataRsp /\ wire # <<>> /\ TakeFrame(Head(wire)) /\ Decodes(Head(wire)))
    BY <1>1, <1>3, <2>2
       DEF Tick, Handler, LeaveInit, Idle, WaitingForLinkLock, Connect, SendStartSequence,
           SendSessionReq, RecvSessionRsp, SendDataReq, RecvDataRsp, Disconnect, Error, Reset,
           NoAnswer, Timeout, TakeFrame, SetStatus, TypeOK
  <2> QED BY <2>1, <2>2
<1> QED BY <1>2, <1>3 DEF Next

\* The inductive invariant holds in every reachable state.
THEOREM Invariance == Safety => []IInv
<1>1. Init => IInv
  <2> SUFFICES ASSUME Init PROVE IInv
    OBVIOUS
  <2>1. TypeOK
    BY CounterFacts, ItemFacts DEF Init, TypeOK, FsmState
  <2>2. ThisScanOnly
    BY DEF Init, ThisScanOnly, UnderWay, AskedFor, Answered
  <2> QED BY <2>1, <2>2 DEF Init, IInv, DeviceTypeKnown, ScanStart, SessionsApart,
                            LateAnswerStaysInSession
<1>2. IInv /\ [Next]_vars => IInv'
  BY TypeNext, DeviceTypeStep, ScanStartStep, ThisScanStep, SessionsStep, LateStep DEF IInv
<1> QED BY <1>1, <1>2, PTL DEF Safety

\* Every variable keeps its type; the cursor never leaves the items of the gate and the
\* wake-up symbols are at most StartSequenceLength + 1 (counted from 0).
THEOREM TypeCorrect == Safety => []TypeOK
<1>1. IInv => TypeOK
  BY DEF IInv
<1> QED BY <1>1, Invariance, PTL

\* recvDataRsp is entered only with a supported type, also over timeouts, late session
\* answers and broken connections: its switch without a default returns no indeterminate
\* result.
THEOREM DeviceTypes == Safety => []DeviceTypeKnown
<1>1. IInv => DeviceTypeKnown
  BY DEF IInv
<1> QED BY <1>1, Invariance, PTL

\* However late an answer comes, closing the connection after each session keeps it
\* within the scan it was asked for in: what is stored at an item was asked for in the
\* session that took it, at this item or before it, unless it was damaged on the way, and
\* no session learns the type of the meter from an answer to an earlier one.
THEOREM LateAnswers == Safety => []LateAnswerStaysInSession
<1>1. IInv => LateAnswerStaysInSession
  BY DEF IInv
<1> QED BY <1>1, Invariance, PTL

-----------------------------------------------------------------------------
\* The client implements PollSession.tla.

\* The current item gets its status, and the next one is the first that is left.
LEMMA AdvanceTreats ==
    ASSUME TypeOK, state = "recvDataRsp", Advance,
           NEW s \in {"timeout", "invalid", "ready"}, SetStatus(currentParamId, s)
    PROVE  Poll!Treat(currentParamId)
<1>1. currentParamId \in Item /\ currentParamId \in Nat /\ NumItems \in Nat
  BY RsBusAssumption, ItemFacts DEF TypeOK
<1>2. SessionOpen /\ SessionOpen'
  BY DEF SessionOpen, Advance
<1>3. Untreated = {i \in Item : i >= currentParamId}
  BY DEF Untreated, SessionOpen
<1>4. Untreated' = Untreated \ {currentParamId}
  <2>1. CASE currentParamId + 1 = NumItems
    <3>1. Untreated' = {}
      BY <2>1 DEF Advance, Untreated
    <3>2. \A i \in Item : i >= currentParamId => i = currentParamId
      BY <1>1, <2>1 DEF Item
    <3> QED BY <1>3, <3>1, <3>2
  <2>2. CASE currentParamId + 1 # NumItems
    <3>1. Untreated' = {i \in Item : i >= currentParamId + 1}
      BY <2>2 DEF Advance, Untreated, SessionOpen
    <3>2. \A i \in Item : i >= currentParamId + 1 <=> i >= currentParamId /\ i # currentParamId
      BY <1>1, ItemFacts
    <3> QED BY <1>3, <3>1, <3>2
  <2> QED BY <2>1, <2>2
<1>5. currentParamId \in Untreated
  BY <1>1, <1>3
<1>6. s \in Poll!Status \ {"undef"} /\ status' = [status EXCEPT ![currentParamId] = s]
  BY DEF Poll!Status, SetStatus
<1> QED BY <1>2, <1>4, <1>5, <1>6 DEF Poll!Treat

\* Every handler is a step of a session, or leaves it as it is.
LEMMA HandlerPolls ==
    ASSUME TypeOK, ScanStart, Tick
    PROVE  Poll!Next \/ UNCHANGED Poll!vars
<1> USE DEF Poll!vars
<1>1. CASE Reset /\ SessionOpen
  <2>1. SessionOpen /\ SessionOpen' = FALSE /\ Untreated' = {}
        /\ status' = [i \in Item |-> "timeout"]
    BY <1>1 DEF Reset, SessionOpen, Untreated
  <2> QED BY <2>1 DEF Poll!Next, Poll!GoOn, Poll!BreakOff
<1>2. CASE WaitingForLinkLock
  <2>1. ~SessionOpen /\ SessionOpen' = TRUE /\ UNCHANGED status
        /\ Untreated' = {i \in Item : i >= 0}
    BY <1>2 DEF WaitingForLinkLock, SessionOpen, Untreated, ScanStart
  <2>2. \A i \in Item : i >= 0
    BY ItemFacts
  <2> QED BY <2>1, <2>2 DEF Poll!Next, Poll!Begin
<1>3. CASE Disconnect
  <2>1. SessionOpen /\ SessionOpen' = FALSE /\ Untreated = {} /\ Untreated' = {}
        /\ UNCHANGED status
    BY <1>3 DEF Disconnect, SessionOpen, Untreated
  <2> QED BY <2>1 DEF Poll!Next, Poll!GoOn, Poll!Finish
<1>4. CASE LeaveInit \/ Idle \/ Error
  BY <1>4 DEF LeaveInit, Idle, Error, SessionOpen, Untreated
<1>5. CASE (Connect \/ SendStartSequence \/ SendSessionReq \/ RecvSessionRsp \/ SendDataReq) /\ ~Reset
  <2>1. SessionOpen' = SessionOpen
    BY <1>5 DEF Connect, SendStartSequence, SendSessionReq, RecvSessionRsp, SendDataReq, SessionOpen
  <2>2. state # "disconnect" /\ state' # "disconnect" /\ UNCHANGED <<currentParamId, status>>
    BY <1>5 DEF Connect, SendStartSequence, SendSessionReq, RecvSessionRsp, SendDataReq
  <2> QED BY <2>1, <2>2 DEF Untreated
<1>6. CASE RecvDataRsp /\ ~Reset
  <2>1. state = "recvDataRsp"
    BY <1>6 DEF RecvDataRsp
  <2>2. CASE Timeout
    BY <2>1, <2>2, AdvanceTreats DEF Timeout, Poll!Next, Poll!GoOn, TypeOK
  <2>3. CASE \E f \in Frame : TakeFrame(f)
    BY <2>1, <2>3, AdvanceTreats DEF TakeFrame, SetValue, Poll!Next, Poll!GoOn, TypeOK
  <2>4. CASE UNCHANGED <<state, currentParamId, status>>
    BY <2>4 DEF SessionOpen, Untreated
  <2>5. wire # <<>> => Head(wire) \in Frame
    BY HeadElement DEF TypeOK
  <2> QED BY <1>6, <2>2, <2>3, <2>4, <2>5 DEF RecvDataRsp, NoAnswer
<1>7. (Connect \/ SendStartSequence \/ SendSessionReq \/ RecvSessionRsp \/ SendDataReq
       \/ RecvDataRsp) => SessionOpen
  BY DEF Connect, SendStartSequence, SendSessionReq, RecvSessionRsp, SendDataReq, RecvDataRsp,
         SessionOpen
<1> QED BY <1>1, <1>2, <1>3, <1>4, <1>5, <1>6, <1>7 DEF Tick, Handler

\* Every session treats each of the gate's items once, in any number, or marks them all,
\* whatever meters and network do.
THEOREM RefinesPollSession == Safety => Poll!Safety
<1>1. Init => Poll!Init
  BY DEF Init, Poll!Init, SessionOpen, Untreated
<1>2. IInv /\ [Next]_vars => [Poll!Next]_(Poll!vars)
  <2> SUFFICES ASSUME TypeOK, ScanStart, [Next]_vars
               PROVE  Poll!Next \/ UNCHANGED Poll!vars
    BY DEF IInv
  <2>1. CASE UNCHANGED <<state, currentParamId, status>>
    BY <2>1 DEF SessionOpen, Untreated, Poll!vars
  <2> QED BY <2>1, HandlerPolls DEF Next, World, MeterAnswers, AnswerLost, Noise, PeerBreaks,
                                    FaultsEnd, Expire, clientVars, vars
<1> QED BY <1>1, <1>2, Invariance, PTL DEF Safety, Poll!Safety
================================================================================
