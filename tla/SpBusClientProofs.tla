--------------------------- MODULE SpBusClientProofs ---------------------------
(***************************************************************************)
(* Proofs about SpBusClient for every number of parameters and any amount   *)
(* of noise.  The client compares no answer with its request; what keeps    *)
(* the values apart, if the meters are punctual, is that at most one        *)
(* request or answer is under way, and none when the cursor moves.  With    *)
(* any meters, a late answer stays in its session, and the sessions are     *)
(* those of PollSession.tla.                                                *)
(***************************************************************************)
EXTENDS SpBusClient, TLAPS

\* An answer on its way, of use or not.
Pending(k) == wire[k] # Broken

NothingUnderWay == asked = <<>> /\ \A k \in DOMAIN wire : ~Pending(k)

\* At most one exchange is under way, that of the current item, and none before the
\* request is sent or after the receive timer has run out.
OneExchange ==
    /\ state # "receive" \/ expired => NothingUnderWay
    /\ asked # <<>> => asked = <<Ask>> /\ \A k \in DOMAIN wire : ~Pending(k)
    /\ \A k \in DOMAIN wire : Pending(k) =>
          /\ wire[k].about = currentParamId /\ ~wire[k].old
          /\ \A j \in DOMAIN wire : Pending(j) => j = k

IInv == TypeOK /\ (punctual => OneExchange) /\ PunctualMeansOwnValue

-----------------------------------------------------------------------------
LEMMA FrameKinds ==
    ASSUME NEW f \in Frame, f # Broken
    PROVE  f.kind \in {"value", "noValue"} /\ f.about \in Item /\ f.old \in BOOLEAN
BY DEF Frame, Broken

LEMMA ItemFacts ==
    0 \in Item /\ NoItem \notin Item /\ Earlier \notin Item /\ Item \subseteq Nat
BY SpBusAssumption DEF Item, NoItem, Earlier

\* The first item, the next one, or the end of the scan: the cursor stays on an item.
LEMMA AdvanceType ==
    ASSUME TypeOK, Advance
    PROVE  currentParamId' \in Item /\ state' \in {"send", "disconnect"}
<1>1. CASE currentParamId + 1 = NumItems
  BY <1>1, ItemFacts DEF Advance
<1>2. CASE currentParamId + 1 # NumItems
  <2>1. currentParamId + 1 \in Item
    BY <1>2, SpBusAssumption DEF TypeOK, Item
  <2> QED BY <1>2, <2>1 DEF Advance
<1> QED BY <1>1, <1>2

\* Whatever a handler does to the registers when no answer is taken, no parameter is
\* marked as valid.
LEMMA ResetIInv ==
    ASSUME IInv, Reset, UNCHANGED <<faulty, punctual>>
    PROVE  IInv'
<1>1. TypeOK'
  BY ItemFacts DEF IInv, TypeOK, Reset, CloseLink, FsmState
<1>2. OneExchange'
  BY DEF Reset, CloseLink, OneExchange, NothingUnderWay, Pending
<1>3. PunctualMeansOwnValue'
  BY DEF Reset, PunctualMeansOwnValue, ReadyMeansOwnValue
<1> QED BY <1>1, <1>2, <1>3 DEF IInv

LEMMA TailElements ==
    ASSUME NEW q \in Seq(Frame), q # <<>>
    PROVE  /\ 1 \in DOMAIN q /\ Head(q) = q[1] /\ Head(q) \in Frame
           /\ Tail(q) \in Seq(Frame)
           /\ \A k \in DOMAIN Tail(q) : k \in Nat /\ k + 1 \in DOMAIN q /\ Tail(q)[k] = q[k + 1]
OBVIOUS

\* Without what is not pending at its head, wire holds the same answers.
LEMMA WireWithoutBroken ==
    ASSUME TypeOK, OneExchange,
           \/ wire' = wire
           \/ wire # <<>> /\ Head(wire) = Broken /\ wire' = Tail(wire),
           UNCHANGED <<asked, currentParamId>>
    PROVE  /\ NothingUnderWay => NothingUnderWay'
           /\ (\A k \in DOMAIN wire : ~Pending(k)) => \A k \in DOMAIN wire' : ~Pending(k)'
           /\ \A k \in DOMAIN wire' : Pending(k)' =>
                 /\ wire'[k].about = currentParamId /\ ~wire'[k].old
                 /\ \A j \in DOMAIN wire' : Pending(j)' => j = k
<1>1. CASE wire' = wire
  BY <1>1 DEF OneExchange, NothingUnderWay, Pending
<1>2. CASE wire # <<>> /\ Head(wire) = Broken /\ wire' = Tail(wire)
  <2>1. \A k \in DOMAIN wire' : k \in Nat /\ k + 1 \in DOMAIN wire /\ wire'[k] = wire[k + 1]
    BY <1>2, TailElements DEF TypeOK
  <2>2. (\A k \in DOMAIN wire : ~Pending(k)) => \A k \in DOMAIN wire' : ~Pending(k)'
    BY <2>1 DEF Pending
  <2>3. ASSUME NEW k \in DOMAIN wire', Pending(k)'
        PROVE  /\ wire'[k].about = currentParamId /\ ~wire'[k].old
               /\ \A j \in DOMAIN wire' : Pending(j)' => j = k
    <3>1. Pending(k + 1)
      BY <2>1, <2>3 DEF Pending
    <3>2. wire'[k].about = currentParamId /\ ~wire'[k].old
      BY <2>1, <3>1 DEF OneExchange
    <3>3. ASSUME NEW j \in DOMAIN wire', Pending(j)' PROVE j = k
      <4>1. Pending(j + 1)
        BY <2>1, <3>3 DEF Pending
      <4>2. j + 1 = k + 1
        BY <2>1, <3>1, <4>1 DEF OneExchange
      <4> QED BY <2>1, <4>2
    <3> QED BY <3>2, <3>3
  <2> QED BY <2>2, <2>3 DEF NothingUnderWay
<1> QED BY <1>1, <1>2

\* The receive timer has run out and nothing is under way, or nothing changes.
LEMMA NoAnswerIInv ==
    ASSUME IInv, state = "receive", NoAnswer, UNCHANGED <<asked, faulty, punctual>>,
           link' \in {"down", "up", "broken"},
           \/ wire' = wire
           \/ wire # <<>> /\ Head(wire) = Broken /\ wire' = Tail(wire)
    PROVE  IInv'
<1> USE DEF IInv
<1>1. wire' \in Seq(Frame)
  BY TailElements DEF TypeOK
<1>2. TypeOK'
  <2>1. CASE expired
    BY <1>1, <2>1, AdvanceType DEF NoAnswer, Timeout, SetStatus, TypeOK, FsmState
  <2>2. CASE ~expired
    BY <1>1, <2>2 DEF NoAnswer, TypeOK
  <2> QED BY <2>1, <2>2
<1>3. ASSUME punctual PROVE OneExchange'
  <2>1. CASE expired
    <3>1. NothingUnderWay
      BY <1>3, <2>1 DEF OneExchange
    <3>2. asked' = <<>> /\ \A k \in DOMAIN wire' : ~Pending(k)'
      <4>1. CASE wire' = wire
        BY <3>1, <4>1 DEF NothingUnderWay, Pending
      <4>2. CASE wire # <<>> /\ wire' = Tail(wire)
        BY <3>1, <4>2, TailElements DEF NothingUnderWay, Pending, TypeOK
      <4> QED BY <4>1, <4>2
    <3> QED BY <3>2 DEF OneExchange, NothingUnderWay
  <2>2. CASE ~expired
    <3>1. UNCHANGED <<state, expired, currentParamId, asked>>
      BY <2>2 DEF NoAnswer
    <3> QED BY <1>3, <3>1, WireWithoutBroken DEF OneExchange, Ask
  <2> QED BY <2>1, <2>2
<1>4. PunctualMeansOwnValue'
  BY DEF NoAnswer, Timeout, SetStatus, PunctualMeansOwnValue, ReadyMeansOwnValue, TypeOK
<1> QED BY <1>2, <1>3, <1>4

\* An answer is taken: it is the current item's, and none is left.
LEMMA TakeAnswerIInv ==
    ASSUME IInv, state = "receive", wire # <<>>, Head(wire) # Broken,
           TakeAnswer(Head(wire)), wire' = Tail(wire),
           UNCHANGED <<link, asked, faulty, punctual>>
    PROVE  IInv'
<1> USE DEF IInv
<1>1. 1 \in DOMAIN wire /\ Head(wire) = wire[1] /\ Head(wire) \in Frame
  BY TailElements DEF TypeOK
<1>2. /\ wire' \in Seq(Frame)
      /\ \A k \in DOMAIN wire' : k \in Nat /\ k + 1 \in DOMAIN wire /\ wire'[k] = wire[k + 1]
  BY TailElements DEF TypeOK
<1>3. /\ Head(wire).kind \in {"value", "noValue"} /\ Head(wire).about \in Item
      /\ Origin(Head(wire)) \in Item \cup {Earlier}
  BY <1>1, FrameKinds DEF Origin
<1>4. TypeOK'
  BY <1>2, <1>3, AdvanceType DEF TakeAnswer, SetValue, SetStatus, TypeOK, FsmState
<1>5. ASSUME punctual PROVE NothingUnderWay' /\ Origin(Head(wire)) = currentParamId
  <2>1. Pending(1)
    BY <1>1 DEF Pending
  <2>2. asked' = <<>>
    BY <1>1, <1>5, <2>1 DEF OneExchange
  <2>3. ASSUME NEW k \in DOMAIN wire' PROVE ~Pending(k)'
    <3>1. SUFFICES ASSUME Pending(k)' PROVE FALSE
      OBVIOUS
    <3>2. Pending(k + 1)
      BY <1>2, <3>1 DEF Pending
    <3>3. k + 1 = 1
      BY <1>1, <1>2, <1>5, <2>1, <3>2 DEF OneExchange
    <3> QED BY <1>2, <3>3
  <2> QED BY <1>1, <1>5, <2>1, <2>2, <2>3 DEF OneExchange, NothingUnderWay, Origin
<1>6. punctual' => OneExchange'
  BY <1>5 DEF OneExchange, NothingUnderWay
<1>7. PunctualMeansOwnValue'
  BY <1>3, <1>5 DEF TakeAnswer, SetValue, SetStatus, PunctualMeansOwnValue, ReadyMeansOwnValue, TypeOK
<1> QED BY <1>4, <1>6, <1>7

-----------------------------------------------------------------------------
LEMMA InitIInv == Init => IInv
BY ItemFacts DEF Init, IInv, TypeOK, OneExchange, NothingUnderWay, PunctualMeansOwnValue,
                 ReadyMeansOwnValue, FsmState

\* The handlers that touch neither registers nor connection, in states in which
\* nothing is under way.
LEMMA QuietIInv ==
    ASSUME IInv, state # "receive", state' \in FsmState \ {"receive"}, expired' \in BOOLEAN,
           UNCHANGED <<currentParamId, status, value, asked, wire, faulty, punctual>>,
           link' \in {"down", "up", "broken"}
    PROVE  IInv'
<1>1. TypeOK'
  BY DEF IInv, TypeOK
<1>2. punctual' => OneExchange'
  BY DEF IInv, OneExchange, NothingUnderWay, Pending
<1> QED BY <1>1, <1>2 DEF IInv, PunctualMeansOwnValue, ReadyMeansOwnValue

LEMMA OldRequest == \A r \in Request : AsOld(r) \in Request
BY DEF AsOld, Request, Broken

LEMMA OldFrame == \A f \in Frame : AsOld(f) \in Frame /\ (f = Broken => AsOld(f) = Broken)
<1> SUFFICES ASSUME NEW f \in Frame, f # Broken PROVE AsOld(f) \in Frame
  BY DEF AsOld
<1>1. f \in [kind : {"value", "noValue"}, about : Item, old : BOOLEAN]
  BY DEF Frame, Broken
<1>2. [f EXCEPT !.old = TRUE] \in [kind : {"value", "noValue"}, about : Item, old : BOOLEAN]
  BY <1>1
<1> QED BY <1>2 DEF Frame, AsOld

\* Marking what is under way as old leaves as much of it.
LEMMA MarkOldQueues ==
    ASSUME TypeOK, MarkOld
    PROVE  /\ asked' \in Seq(Request) /\ wire' \in Seq(Frame)
           /\ NothingUnderWay => NothingUnderWay'
<1>1. asked \in Seq(Request) /\ wire \in Seq(Frame)
  BY DEF TypeOK
<1>2. (\A k \in DOMAIN asked : AsOld(asked[k]) \in Request)
      /\ (\A k \in DOMAIN wire : AsOld(wire[k]) \in Frame)
  BY <1>1, OldRequest, OldFrame
<1>3. asked' \in Seq(Request)
  BY <1>1, <1>2 DEF MarkOld
<1>4. wire' \in Seq(Frame)
  BY <1>1, <1>2 DEF MarkOld
<1>5. NothingUnderWay => NothingUnderWay'
  BY <1>1, OldFrame DEF MarkOld, NothingUnderWay, Pending
<1> QED BY <1>3, <1>4, <1>5

LEMMA ConnectIInv ==
    ASSUME IInv, Connect, UNCHANGED <<faulty, punctual>>
    PROVE  IInv'
<1>1. CASE Reset
  BY <1>1, ResetIInv
<1>2. CASE link' = "up" /\ MarkOld /\ state' = "send" /\ UNCHANGED <<expired, currentParamId, status, value>>
  <2>1. TypeOK'
    BY <1>2, MarkOldQueues DEF IInv, TypeOK, FsmState
  <2>2. ASSUME punctual PROVE OneExchange'
    <3>1. NothingUnderWay'
      BY <1>2, <2>2, MarkOldQueues DEF Connect, IInv, OneExchange
    <3> QED BY <3>1 DEF OneExchange, NothingUnderWay
  <2> QED BY <1>2, <2>1, <2>2 DEF IInv, PunctualMeansOwnValue, ReadyMeansOwnValue
<1> QED BY <1>1, <1>2 DEF Connect

LEMMA SendIInv ==
    ASSUME IInv, Send, UNCHANGED <<faulty, punctual>>
    PROVE  IInv'
<1>1. CASE link # "up" /\ Reset
  BY <1>1, ResetIInv
<1>2. CASE link # "down" /\ state' = "receive"
  <2> USE DEF IInv
  <2>1. /\ UNCHANGED <<currentParamId, status, value, link, wire>> /\ expired' = FALSE
        /\ asked' \in {asked, Append(asked, Ask)}
    BY <1>2 DEF Send, Reset
  <2>2. asked' \in Seq(Request)
    <3>1. Ask \in Request /\ asked \in Seq(Request)
      BY DEF Ask, Request, TypeOK
    <3> QED BY <2>1, <3>1
  <2>3. TypeOK'
    BY <1>2, <2>1, <2>2 DEF TypeOK, FsmState
  <2>4. ASSUME punctual PROVE OneExchange'
    <3>1. NothingUnderWay
      BY <2>4 DEF Send, OneExchange
    <3>2. asked' # <<>> => asked' = <<Ask>>
      BY <2>1, <3>1 DEF NothingUnderWay
    <3> QED BY <1>2, <2>1, <3>1, <3>2 DEF OneExchange, NothingUnderWay, Pending, Ask
  <2> QED BY <2>1, <2>3, <2>4 DEF PunctualMeansOwnValue, ReadyMeansOwnValue
<1> QED BY <1>1, <1>2 DEF Send

LEMMA ReceiveIInv ==
    ASSUME IInv, Receive, UNCHANGED <<faulty, punctual>>
    PROVE  IInv'
<1>1. CASE Reset
  BY <1>1, ResetIInv
<1>2. CASE link' \in {"down", link} /\ UNCHANGED <<asked, wire>> /\ NoAnswer
  BY <1>2, NoAnswerIInv DEF Receive, IInv, TypeOK
<1>3. CASE /\ wire # <<>> /\ wire' = Tail(wire) /\ UNCHANGED <<link, asked>>
           /\ Head(wire) = Broken /\ NoAnswer
  BY <1>3, NoAnswerIInv DEF Receive, IInv, TypeOK
<1>4. CASE /\ wire # <<>> /\ wire' = Tail(wire) /\ UNCHANGED <<link, asked>>
           /\ Head(wire) # Broken /\ TakeAnswer(Head(wire))
  BY <1>4, TakeAnswerIInv DEF Receive
<1> QED BY <1>1, <1>2, <1>3, <1>4 DEF Receive

LEMMA HandlerIInv ==
    ASSUME IInv, Tick
    PROVE  IInv'
<1> USE DEF Tick
<1>1. CASE LeaveInit
  BY <1>1, QuietIInv DEF LeaveInit, FsmState, IInv, TypeOK
<1>2. CASE Idle
  BY <1>2, QuietIInv DEF Idle, FsmState, IInv, TypeOK
<1>3. CASE WaitingForLinkLock
  BY <1>3, QuietIInv DEF WaitingForLinkLock, FsmState, IInv, TypeOK
<1>4. CASE Connect
  BY <1>4, ConnectIInv
<1>5. CASE Send
  BY <1>5, SendIInv
<1>6. CASE Receive
  BY <1>6, ReceiveIInv
<1>7. CASE Disconnect
  <2>1. TypeOK'
    <3>1. asked' \in Seq(Request) /\ wire' \in Seq(Frame)
      BY <1>7 DEF Disconnect, CloseLink
    <3> QED BY <1>7, <3>1 DEF Disconnect, CloseLink, IInv, TypeOK, FsmState
  <2>2. OneExchange'
    BY <1>7 DEF Disconnect, CloseLink, OneExchange, NothingUnderWay, Pending
  <2> QED BY <1>7, <2>1, <2>2 DEF Disconnect, IInv, PunctualMeansOwnValue, ReadyMeansOwnValue
<1>8. CASE Error
  BY <1>8, QuietIInv DEF Error, FsmState, IInv, TypeOK
<1> QED BY <1>1, <1>2, <1>3, <1>4, <1>5, <1>6, <1>7, <1>8 DEF Handler

-----------------------------------------------------------------------------
\* The registers are the client's alone.
LEMMA WorldKeepsValues ==
    ASSUME IInv, UNCHANGED <<clientVars, punctual>>, TypeOK', punctual => OneExchange'
    PROVE  IInv'
BY DEF IInv, clientVars, PunctualMeansOwnValue, ReadyMeansOwnValue

LEMMA AppendElements ==
    ASSUME NEW q \in Seq(Frame), NEW f \in Frame
    PROVE  /\ Append(q, f) \in Seq(Frame)
           /\ \A k \in DOMAIN Append(q, f) :
                 \/ k \in DOMAIN q /\ Append(q, f)[k] = q[k]
                 \/ k = Len(q) + 1 /\ Append(q, f)[k] = f
OBVIOUS

\* The answer takes the place of its request.
LEMMA MeterAnswersIInv ==
    ASSUME IInv, MeterAnswers
    PROVE  IInv'
<1> USE DEF IInv
<1>1. PICK kind \in {"value", "noValue"} :
          wire' = Append(wire, [kind |-> kind, about |-> Head(asked).about, old |-> Head(asked).old])
  BY DEF MeterAnswers
<1> DEFINE f == [kind |-> kind, about |-> Head(asked).about, old |-> Head(asked).old]
<1>2. /\ asked # <<>> /\ asked' = Tail(asked)
      /\ Head(asked) \in Request /\ Tail(asked) \in Seq(Request)
  BY DEF MeterAnswers, TypeOK
<1>3. f \in Frame
  BY <1>2 DEF Frame, Request
<1>4. UNCHANGED <<state, expired, currentParamId, status, value, link, faulty, punctual>>
  BY DEF MeterAnswers, clientVars
<1>5. TypeOK'
  BY <1>1, <1>2, <1>3, <1>4, AppendElements DEF TypeOK
<1>6. ASSUME punctual PROVE OneExchange'
  <2>1. asked = <<Ask>> /\ (\A k \in DOMAIN wire : ~Pending(k))
    BY <1>2, <1>6 DEF OneExchange
  <2>2. state = "receive" /\ ~expired
    BY <1>2, <1>6 DEF OneExchange, NothingUnderWay
  <2>3. Head(asked) = Ask /\ asked' = <<>>
    BY <1>2, <2>1
  <2>4. ASSUME NEW k \in DOMAIN wire', Pending(k)'
        PROVE  k = Len(wire) + 1 /\ wire'[k] = f
    BY <1>1, <1>3, <2>1, <2>4, AppendElements DEF Pending, TypeOK
  <2>5. f.about = currentParamId /\ ~f.old
    BY <2>3 DEF Ask
  <2> QED BY <1>4, <2>2, <2>3, <2>4, <2>5 DEF OneExchange
<1> QED BY <1>4, <1>5, <1>6, WorldKeepsValues DEF clientVars

\* Broken frames and losses leave fewer answers under way.
LEMMA LossIInv ==
    ASSUME IInv, UNCHANGED <<clientVars, punctual>>,
           asked' \in {asked, <<>>} \/ (asked # <<>> /\ asked' = Tail(asked)),
           wire' \in {wire, <<>>, Append(wire, Broken)},
           link' \in {"down", "up", "broken"}, faulty' \in BOOLEAN
    PROVE  IInv'
<1> USE DEF IInv
<1>1. Broken \in Frame
  BY DEF Broken, Frame
<1>2. UNCHANGED <<state, expired, currentParamId, status, value, punctual>>
  BY DEF clientVars
<1>3. wire' \in Seq(Frame)
  <2>1. wire \in Seq(Frame)
    BY DEF TypeOK
  <2>2. Append(wire, Broken) \in Seq(Frame) /\ <<>> \in Seq(Frame)
    BY <1>1, <2>1
  <2> HIDE DEF IInv
  <2> QED BY <2>1, <2>2
<1>4. asked' \in Seq(Request)
  <2>1. asked \in Seq(Request) /\ <<>> \in Seq(Request)
    BY DEF TypeOK
  <2>2. ASSUME asked # <<>> PROVE Tail(asked) \in Seq(Request)
    BY <2>1, <2>2
  <2> HIDE DEF IInv
  <2> QED BY <2>1, <2>2
<1>5. TypeOK'
  BY <1>2, <1>3, <1>4 DEF TypeOK
<1>6. ASSUME punctual PROVE OneExchange'
  <2>1. asked' \in {asked, <<>>}
    <3>1. CASE asked # <<>> /\ asked' = Tail(asked)
      <4>1. asked = <<Ask>>
        BY <1>6, <3>1 DEF OneExchange
      <4> QED BY <3>1, <4>1
    <3> QED BY <3>1
  <2>2. ASSUME NEW k \in DOMAIN wire', Pending(k)'
        PROVE  k \in DOMAIN wire /\ wire'[k] = wire[k] /\ Pending(k)
    <3>1. wire \in Seq(Frame)
      BY DEF TypeOK
    <3>2. CASE wire' = Append(wire, Broken)
      BY <1>1, <2>2, <3>1, <3>2, AppendElements DEF Pending
    <3>3. CASE wire' \in {wire, <<>>}
      BY <2>2, <3>3 DEF Pending
    <3> QED BY <3>2, <3>3
  <2>3. NothingUnderWay => NothingUnderWay'
    BY <2>1, <2>2 DEF NothingUnderWay
  <2>4. asked' # <<>> => asked' = asked
    BY <2>1
  <2> QED BY <1>2, <1>6, <2>2, <2>3, <2>4 DEF OneExchange, Ask
<1> QED BY <1>5, <1>6, WorldKeepsValues

\* A punctual meter's answer is never late: the timer runs out only with nothing
\* under way.
LEMMA ExpireIInv ==
    ASSUME IInv, Expire
    PROVE  IInv'
<1> USE DEF IInv
<1>1. TypeOK'
  BY DEF Expire, TypeOK
<1>2. ASSUME punctual PROVE OneExchange'
  <2>1. NothingUnderWay
    BY <1>2 DEF Expire, OneExchange, NothingUnderWay, Pending
  <2> QED BY <2>1 DEF Expire, OneExchange, NothingUnderWay, Pending, Ask
<1> QED BY <1>1, <1>2 DEF Expire, PunctualMeansOwnValue, ReadyMeansOwnValue

LEMMA NextIInv == IInv /\ [Next]_vars => IInv'
<1> SUFFICES ASSUME IInv, [Next]_vars PROVE IInv'
  OBVIOUS
<1>1. CASE Tick
  BY <1>1, HandlerIInv
<1>2. CASE MeterAnswers
  BY <1>2, MeterAnswersIInv
<1>3. CASE AnswerLost
  BY <1>3, LossIInv DEF AnswerLost, IInv, TypeOK
<1>4. CASE Noise
  BY <1>4, LossIInv DEF Noise, IInv, TypeOK
<1>5. CASE PeerBreaks
  BY <1>5, LossIInv DEF PeerBreaks, IInv, TypeOK
<1>6. CASE FaultsEnd
  BY <1>6, LossIInv DEF FaultsEnd, IInv, TypeOK
<1>7. CASE Expire
  BY <1>7, ExpireIInv
<1>8. CASE UNCHANGED vars
  BY <1>8 DEF vars, IInv, TypeOK, OneExchange, NothingUnderWay, Pending, Ask,
              PunctualMeansOwnValue, ReadyMeansOwnValue
<1> QED BY <1>1, <1>2, <1>3, <1>4, <1>5, <1>6, <1>7, <1>8 DEF Next, World

\* The inductive invariant holds in every reachable state.
THEOREM Invariance == Safety => []IInv
<1> QED BY InitIInv, NextIInv, PTL DEF Safety

\* Every variable keeps its type; the cursor never leaves the items of the gate.
THEOREM TypeCorrect == Safety => []TypeOK
<1>1. IInv => TypeOK
  BY DEF IInv
<1> QED BY <1>1, Invariance, PTL

\* With meters that answer before the receive timer or never, a parameter marked as
\* valid holds its own value, however many parameters the gate has, whatever else is
\* lost, damaged or broken off.
THEOREM OwnValues == Safety => []PunctualMeansOwnValue
<1>1. IInv => PunctualMeansOwnValue
  BY DEF IInv
<1> QED BY <1>1, Invariance, PTL

-----------------------------------------------------------------------------
\* What a late answer can and cannot do, with no assumption on the meters.

\* A request or an answer of this session, for item n or one before it.
Own(r, n) == ~r.old /\ r.about <= n

\* All that is under way is.
UpTo(n) == /\ \A k \in DOMAIN asked : Own(asked[k], n)
           /\ \A k \in DOMAIN wire : Pending(k) => Own(wire[k], n)

\* Within a scan everything under way was asked for in it, at the current item or
\* before; outside a session nothing is.
ThisScanOnly ==
    /\ state \in {"send", "receive"} => UpTo(currentParamId)
    /\ state \notin {"send", "receive", "disconnect"} => NothingUnderWay

LateIInv == TypeOK /\ ThisScanOnly /\ LateAnswerStaysInSession

\* Losing requests and answers, and gaining broken frames, is harmless.
LEMMA LessUnderWay ==
    ASSUME TypeOK, NEW n,
           asked' \in {asked, <<>>} \/ (asked # <<>> /\ asked' = Tail(asked)),
           wire' \in {wire, <<>>, Append(wire, Broken)} \/ (wire # <<>> /\ wire' = Tail(wire))
    PROVE  /\ UpTo(n) => /\ \A k \in DOMAIN asked' : Own(asked'[k], n)
                         /\ \A k \in DOMAIN wire' : Pending(k)' => Own(wire'[k], n)
           /\ NothingUnderWay => NothingUnderWay'
<1>1. \A k \in DOMAIN asked' : \E j \in DOMAIN asked : asked'[k] = asked[j]
  <2>1. CASE asked # <<>> /\ asked' = Tail(asked)
    <3>1. asked \in Seq(Request)
      BY DEF TypeOK
    <3>2. \A k \in DOMAIN asked' : k + 1 \in DOMAIN asked /\ asked'[k] = asked[k + 1]
      BY <2>1, <3>1
    <3> QED BY <3>2
  <2> QED BY <2>1
<1>2. \A k \in DOMAIN wire' : Pending(k)' => \E j \in DOMAIN wire : wire'[k] = wire[j] /\ Pending(j)
  <2>1. CASE wire # <<>> /\ wire' = Tail(wire)
    BY <2>1, TailElements DEF Pending, TypeOK
  <2>2. CASE wire' = Append(wire, Broken)
    <3>1. Broken \in Frame
      BY DEF Broken, Frame
    <3> QED BY <2>2, <3>1, AppendElements DEF Pending, TypeOK
  <2>3. CASE wire' \in {wire, <<>>}
    BY <2>3 DEF Pending
  <2> QED BY <2>1, <2>2, <2>3
<1>3. UpTo(n) => /\ \A k \in DOMAIN asked' : Own(asked'[k], n)
                 /\ \A k \in DOMAIN wire' : Pending(k)' => Own(wire'[k], n)
  BY <1>1, <1>2 DEF UpTo
<1>4. NothingUnderWay => NothingUnderWay'
  <2> SUFFICES ASSUME NothingUnderWay PROVE NothingUnderWay'
    OBVIOUS
  <2>1. asked' = <<>>
    BY DEF NothingUnderWay
  <2> QED BY <1>2, <2>1 DEF NothingUnderWay
<1> QED BY <1>3, <1>4

\* A value that came back is taken for the current item or for one further on.
LEMMA ReceiveLate ==
    ASSUME LateIInv, TypeOK', Receive
    PROVE  LateIInv'
<1> USE DEF LateIInv
<1>1. /\ asked' \in {asked, <<>>}
      /\ wire' \in {wire, <<>>} \/ (wire # <<>> /\ wire' = Tail(wire))
  BY DEF Receive, Reset, CloseLink
<1>2. state = "receive" /\ UpTo(currentParamId)
  BY DEF Receive, ThisScanOnly
<1>3. /\ \A k \in DOMAIN asked' : Own(asked'[k], currentParamId)
      /\ \A k \in DOMAIN wire' : Pending(k)' => Own(wire'[k], currentParamId)
  BY <1>1, <1>2, LessUnderWay
<1>4. ThisScanOnly'
  <2>1. CASE Reset
    BY <2>1 DEF Reset, CloseLink, NothingUnderWay, ThisScanOnly, Pending
  <2>2. CASE UNCHANGED <<state, currentParamId>>
    BY <1>2, <1>3, <2>2 DEF UpTo, ThisScanOnly
  <2>3. CASE Advance
    <3>1. CASE currentParamId' = currentParamId + 1 /\ state' = "send"
      <4>1. \A n \in Nat : n <= currentParamId => n <= currentParamId'
        BY <3>1 DEF TypeOK, Item
      <4>2. \A k \in DOMAIN asked' : asked'[k].about \in Nat
        <5>1. asked' \in Seq(Request)
          BY DEF TypeOK
        <5>2. \A k \in DOMAIN asked' : asked'[k] \in Request
          BY <5>1
        <5> QED BY <5>2, ItemFacts DEF Request
      <4>3. \A k \in DOMAIN wire' : Pending(k)' => wire'[k].about \in Nat
        <5>1. \A k \in DOMAIN wire' : wire'[k] \in Frame
          BY DEF TypeOK
        <5> QED BY <5>1, FrameKinds DEF Pending, Item
      <4> QED BY <1>3, <3>1, <4>1, <4>2, <4>3 DEF UpTo, ThisScanOnly, Own
    <3>2. CASE state' = "disconnect"
      BY <3>2 DEF ThisScanOnly
    <3> QED BY <2>3, <3>1, <3>2 DEF Advance
  <2> QED BY <2>1, <2>2, <2>3 DEF Receive, NoAnswer, Timeout, TakeAnswer
<1>5. LateAnswerStaysInSession'
  <2>1. CASE UNCHANGED value /\ \A i \in Item : status'[i] = "ready" => status[i] = "ready"
    BY <2>1 DEF LateAnswerStaysInSession
  <2>2. CASE wire # <<>> /\ Head(wire) # Broken /\ TakeAnswer(Head(wire)) /\ Head(wire).kind = "value"
    <3>1. Pending(1) /\ 1 \in DOMAIN wire /\ Head(wire) = wire[1]
      BY <2>2, TailElements DEF Pending, TypeOK
    <3>2. Own(Head(wire), currentParamId) /\ Head(wire).about \in Nat
      BY <1>2, <2>2, <3>1, TailElements, FrameKinds DEF UpTo, TypeOK, Item
    <3>3. Origin(Head(wire)) \in 0 .. currentParamId
      BY <3>2, ItemFacts DEF Origin, Own, TypeOK
    <3>4. /\ status' = [status EXCEPT ![currentParamId] = "ready"]
          /\ value' = [value EXCEPT ![currentParamId] = Origin(Head(wire))]
      BY <2>2 DEF TakeAnswer, SetValue, SetStatus
    <3> QED BY <3>3, <3>4 DEF LateAnswerStaysInSession, TypeOK
  <2> QED BY <2>1, <2>2 DEF Receive, Reset, NoAnswer, Timeout, TakeAnswer, SetStatus, TypeOK
<1> QED BY <1>4, <1>5

\* The handlers other than receive mark no parameter as valid; only send adds to what
\* is under way, and that is the current item.
LEMMA HandlerLate ==
    ASSUME LateIInv, TypeOK', Tick, ~Receive
    PROVE  LateIInv'
<1> USE DEF LateIInv
<1>1. LateAnswerStaysInSession'
  BY DEF LateAnswerStaysInSession, Tick, Handler, LeaveInit, Idle, WaitingForLinkLock,
         Connect, Send, Reset, Disconnect, Error
<1>2. CASE Reset \/ Disconnect
  BY <1>1, <1>2 DEF Reset, Disconnect, CloseLink, ThisScanOnly, NothingUnderWay, Pending
<1>3. CASE /\ state \notin {"send", "receive", "disconnect"}
           /\ UNCHANGED <<asked, wire>> \/ MarkOld
  <2>1. NothingUnderWay'
    BY <1>3, MarkOldQueues DEF ThisScanOnly, NothingUnderWay, Pending
  <2> QED BY <1>1, <1>3, <2>1 DEF ThisScanOnly, NothingUnderWay, UpTo
<1>4. CASE /\ state = "send" /\ state' = "receive"
           /\ UNCHANGED <<currentParamId, wire>>
           /\ asked' \in {asked, Append(asked, Ask)}
  <2>1. UpTo(currentParamId) /\ asked \in Seq(Request) /\ currentParamId \in Nat
    BY <1>4 DEF ThisScanOnly, TypeOK, Item
  <2>3. Own(Ask, currentParamId) /\ Ask \in Request
    BY <2>1 DEF Own, Ask, Request, TypeOK
  <2>2. \A k \in DOMAIN asked' : Own(asked'[k], currentParamId)
    BY <1>4, <2>1, <2>3 DEF UpTo
  <2> QED BY <1>1, <1>4, <2>1, <2>2 DEF ThisScanOnly, UpTo, Pending
<1> QED BY <1>1, <1>2, <1>3, <1>4 DEF Tick, Handler, LeaveInit, Idle, WaitingForLinkLock,
                                      Connect, Send, Error

\* The meters answer what they were asked.
LEMMA WorldLate ==
    ASSUME LateIInv, TypeOK', World \/ Expire
    PROVE  LateIInv'
<1> USE DEF LateIInv
<1>1. LateAnswerStaysInSession'
  BY DEF LateAnswerStaysInSession, World, Expire, MeterAnswers, AnswerLost, Noise, PeerBreaks,
         FaultsEnd, clientVars
<1>2. UNCHANGED <<state, currentParamId>>
  BY DEF World, Expire, MeterAnswers, AnswerLost, Noise, PeerBreaks, FaultsEnd, clientVars
<1>3. CASE MeterAnswers
  <2>1. PICK kind \in {"value", "noValue"} :
            wire' = Append(wire, [kind |-> kind, about |-> Head(asked).about, old |-> Head(asked).old])
    BY <1>3 DEF MeterAnswers
  <2> DEFINE f == [kind |-> kind, about |-> Head(asked).about, old |-> Head(asked).old]
  <2>2. /\ asked # <<>> /\ 1 \in DOMAIN asked /\ Head(asked) = asked[1]
        /\ asked[1] \in Request /\ asked' = Tail(asked)
    BY <1>3 DEF MeterAnswers, TypeOK
  <2>3. f \in Frame /\ f.about = asked[1].about /\ f.old = asked[1].old
    BY <2>2 DEF Frame, Request
  <2>4. state \in {"send", "receive", "disconnect"}
    BY <2>2 DEF ThisScanOnly, NothingUnderWay
  <2>5. ASSUME UpTo(currentParamId)
        PROVE  /\ \A k \in DOMAIN asked' : Own(asked'[k], currentParamId)
               /\ \A k \in DOMAIN wire' : Pending(k)' => Own(wire'[k], currentParamId)
    <3>1. \A k \in DOMAIN asked' : k + 1 \in DOMAIN asked /\ asked'[k] = asked[k + 1]
      BY <2>2 DEF TypeOK
    <3>2. \A k \in DOMAIN wire' : (k \in DOMAIN wire /\ wire'[k] = wire[k]) \/ wire'[k] = f
      BY <2>1, <2>3, AppendElements DEF TypeOK
    <3>3. Own(f, currentParamId)
      BY <2>2, <2>3, <2>5 DEF UpTo, Own
    <3> HIDE DEF f
    <3> QED BY <2>3, <2>5, <3>1, <3>2, <3>3 DEF UpTo, Pending
  <2> QED BY <1>1, <1>2, <2>4, <2>5 DEF ThisScanOnly, UpTo
<1>4. CASE ~MeterAnswers
  <2>1. /\ asked' \in {asked, <<>>} \/ (asked # <<>> /\ asked' = Tail(asked))
        /\ wire' \in {wire, <<>>, Append(wire, Broken)}
    BY <1>4 DEF World, Expire, AnswerLost, Noise, PeerBreaks, FaultsEnd
  <2>2. /\ UpTo(currentParamId) =>
             /\ \A k \in DOMAIN asked' : Own(asked'[k], currentParamId)
             /\ \A k \in DOMAIN wire' : Pending(k)' => Own(wire'[k], currentParamId)
        /\ NothingUnderWay => NothingUnderWay'
    BY <2>1, LessUnderWay
  <2> QED BY <1>1, <1>2, <2>2 DEF ThisScanOnly, UpTo
<1> QED BY <1>3, <1>4

LEMMA NextLate == LateIInv /\ TypeOK' /\ [Next]_vars => LateIInv'
<1> SUFFICES ASSUME LateIInv, TypeOK', [Next]_vars PROVE LateIInv'
  OBVIOUS
<1>1. CASE UNCHANGED vars
  BY <1>1 DEF vars, LateIInv, ThisScanOnly, NothingUnderWay, UpTo, Pending,
              LateAnswerStaysInSession
<1> QED BY <1>1, ReceiveLate, HandlerLate, WorldLate DEF Next, Tick, Handler

\* However late an answer comes, closing the connection after each session keeps it
\* within the scan it was asked for in: the value that stands at an item was asked for
\* in the session that took it, at this item or before it, for any number of parameters
\* and any faults.
THEOREM LateAnswers == Safety => []LateAnswerStaysInSession
<1>1. Init => LateIInv
  BY InitIInv DEF Init, IInv, LateIInv, ThisScanOnly, NothingUnderWay, LateAnswerStaysInSession
<1>2. LateIInv => LateAnswerStaysInSession
  BY DEF LateIInv
<1> QED BY <1>1, <1>2, NextLate, TypeCorrect, PTL DEF Safety

-----------------------------------------------------------------------------
\* The client implements PollSession.tla.

\* Outside a scan the cursor stands at the first item, so a session leaves none out.
ScanStart == state \notin {"send", "receive"} => currentParamId = 0

LEMMA ScanStartStep == ScanStart /\ [Next]_vars => ScanStart'
<1> USE DEF ScanStart
<1>1. ASSUME ScanStart, Tick PROVE ScanStart'
  BY <1>1 DEF Tick, Handler, LeaveInit, Idle, WaitingForLinkLock, Connect, Send, Receive,
              Disconnect, Error, Reset, NoAnswer, Timeout, TakeAnswer, Advance
<1>2. ASSUME ScanStart, World \/ Expire \/ UNCHANGED vars PROVE ScanStart'
  BY <1>2 DEF World, MeterAnswers, AnswerLost, Noise, PeerBreaks, FaultsEnd, Expire,
              clientVars, vars
<1> QED BY <1>1, <1>2 DEF Next

\* The current item gets its status, and the next one is the first that is left.
LEMMA AdvanceTreats ==
    ASSUME TypeOK, state = "receive", Advance,
           NEW s \in {"timeout", "invalid", "ready"}, SetStatus(currentParamId, s)
    PROVE  Poll!Treat(currentParamId)
<1>1. currentParamId \in Item /\ currentParamId \in Nat /\ NumItems \in Nat
  BY SpBusAssumption, ItemFacts DEF TypeOK
<1>2. SessionOpen /\ SessionOpen'
  BY DEF SessionOpen, Advance
<1>3. Untreated = {i \in Item : i >= currentParamId}
  BY DEF Untreated
<1>4. Untreated' = Untreated \ {currentParamId}
  <2>1. CASE currentParamId + 1 = NumItems
    <3>1. Untreated' = {}
      BY <2>1 DEF Advance, Untreated
    <3>2. \A i \in Item : i >= currentParamId => i = currentParamId
      BY <1>1, <2>1 DEF Item
    <3> QED BY <1>3, <3>1, <3>2
  <2>2. CASE currentParamId + 1 # NumItems
    <3>1. Untreated' = {i \in Item : i >= currentParamId + 1}
      BY <2>2 DEF Advance, Untreated
    <3>2. \A i \in Item : i >= currentParamId + 1 <=> i >= currentParamId /\ i # currentParamId
      BY <1>1, ItemFacts
    <3> QED BY <1>3, <3>1, <3>2
  <2> QED BY <2>1, <2>2
<1>5. currentParamId \in Untreated
  BY <1>1, <1>3
<1>6. s \in Poll!Status \ {"undef"} /\ status' = [status EXCEPT ![currentParamId] = s]
  BY DEF Poll!Status, SetStatus
<1> QED BY <1>2, <1>4, <1>5, <1>6 DEF Poll!Treat

\* Every handler is a step of a session, or leaves it as it is.
LEMMA HandlerPolls ==
    ASSUME TypeOK, ScanStart, Tick
    PROVE  Poll!Next \/ UNCHANGED Poll!vars
<1> USE DEF Poll!vars
<1>1. CASE Reset /\ state \in {"connect", "send", "receive"}
  <2>1. SessionOpen /\ SessionOpen' = FALSE /\ Untreated' = {}
        /\ status' = [i \in Item |-> "timeout"]
    BY <1>1 DEF Reset, SessionOpen, Untreated
  <2> QED BY <2>1 DEF Poll!Next, Poll!GoOn, Poll!BreakOff
<1>2. CASE WaitingForLinkLock
  <2>1. ~SessionOpen /\ SessionOpen' = TRUE /\ UNCHANGED status /\ Untreated' = {i \in Item : i >= 0}
    BY <1>2 DEF WaitingForLinkLock, SessionOpen, Untreated, ScanStart
  <2>2. \A i \in Item : i >= 0
    BY ItemFacts
  <2> QED BY <2>1, <2>2 DEF Poll!Next, Poll!Begin
<1>3. CASE Disconnect
  <2>1. SessionOpen /\ SessionOpen' = FALSE /\ Untreated = {} /\ Untreated' = {} /\ UNCHANGED status
    BY <1>3 DEF Disconnect, SessionOpen, Untreated
  <2> QED BY <2>1 DEF Poll!Next, Poll!GoOn, Poll!Finish
<1>4. CASE LeaveInit \/ Idle \/ Error
  BY <1>4 DEF LeaveInit, Idle, Error, SessionOpen, Untreated
<1>5. CASE (Connect \/ Send) /\ ~Reset
  <2>1. SessionOpen' = SessionOpen
    BY <1>5 DEF Connect, Send, SessionOpen
  <2> QED BY <1>5, <2>1 DEF Connect, Send, Untreated
<1>6. CASE Receive /\ ~Reset
  <2>1. state = "receive"
    BY <1>6 DEF Receive
  <2>2. CASE Timeout
    BY <2>1, <2>2, AdvanceTreats DEF Timeout, Poll!Next, Poll!GoOn, TypeOK
  <2>3. CASE \E f \in Frame : TakeAnswer(f)
    BY <2>1, <2>3, AdvanceTreats DEF TakeAnswer, SetValue, Poll!Next, Poll!GoOn, TypeOK
  <2>4. CASE UNCHANGED <<state, currentParamId, status>>
    BY <2>4 DEF SessionOpen, Untreated
  <2>5. wire # <<>> => Head(wire) \in Frame
    BY TailElements DEF TypeOK
  <2> QED BY <1>6, <2>2, <2>3, <2>4, <2>5 DEF Receive, NoAnswer
<1> QED BY <1>1, <1>2, <1>3, <1>4, <1>5, <1>6 DEF Tick, Handler, Connect, Send, Receive

\* Every session treats each of the gate's items once, in any number, or marks them all,
\* whatever meters and network do.
THEOREM RefinesPollSession == Safety => Poll!Safety
<1>1. Init => ScanStart /\ Poll!Init
  BY DEF Init, ScanStart, Poll!Init, SessionOpen, Untreated
<1>2. TypeOK /\ ScanStart /\ [Next]_vars => [Poll!Next]_(Poll!vars)
  <2> SUFFICES ASSUME TypeOK, ScanStart, [Next]_vars
               PROVE  Poll!Next \/ UNCHANGED Poll!vars
    OBVIOUS
  <2>1. CASE UNCHANGED <<state, currentParamId, status>>
    BY <2>1 DEF SessionOpen, Untreated, Poll!vars
  <2> QED BY <2>1, HandlerPolls DEF Next, World, MeterAnswers, AnswerLost, Noise, PeerBreaks,
                                    FaultsEnd, Expire, clientVars, vars
<1> QED BY <1>1, <1>2, ScanStartStep, TypeCorrect, PTL DEF Safety, Poll!Safety
================================================================================
