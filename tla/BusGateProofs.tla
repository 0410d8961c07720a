----------------------------- MODULE BusGateProofs -----------------------------
(***************************************************************************)
(* What BusGate.tla promises for any number of gates, of either kind, with  *)
(* any number of parameters: types, mutual exclusion on the link lock;      *)
(* that the flag of LinkLocker implements the lock of LinkLock.tla; and in  *)
(* which order waiting gates are served (BusGateOrder.tla).                 *)
(***************************************************************************)
EXTENDS BusGateOrder, TLAPS


\* Before the first tick every variable has its type.
LEMMA TypeCorrectInit == Init => TypeOK
<1> SUFFICES ASSUME Init PROVE TypeOK
  OBVIOUS
<1>1. turn \in 1 .. (N + 1) /\ 0 \in 0 .. StartSequenceLength
  BY ConfigAssumption DEF Init
<1>2. \A g \in Gate : NumItems[g] \in Nat \ {0}
  BY ConfigAssumption
<1>3. \A g \in Gate : currentParamId[g] < NumItems[g]
  BY <1>2 DEF Init
<1>4. QED
  BY <1>1, <1>3 DEF Init, TypeOK, Mode, FsmState

\* Every variable keeps its type, and a cursor stays below the number of its
\* gate's items (currentParamId is compared with == in the code).
THEOREM TypeCorrect == Safety => []TypeOK
<1>1. Init => TypeOK
  BY TypeCorrectInit
<1>2. TypeOK /\ [Next]_vars => TypeOK'
  <2> SUFFICES ASSUME TypeOK, [Next]_vars PROVE TypeOK'
    OBVIOUS
  <2> USE ConfigAssumption
  <2>1. CASE ProcessInit
    BY <2>1 DEF ProcessInit, gateVars, TypeOK, Mode
  <2>2. CASE ServiceTick
    BY <2>2 DEF ServiceTick, gateVars, TypeOK, Mode
  <2>3. CASE LeaveMainLoop
    BY <2>3 DEF LeaveMainLoop, gateVars, TypeOK, Mode
  <2>4. ASSUME NEW g \in Gate, Expire(g) PROVE TypeOK'
    BY <2>4 DEF Expire, TypeOK
  <2>5. ASSUME NEW g \in Gate, GateTick(g) PROVE TypeOK'
    <3>1. mode' \in Mode /\ turn' \in 1 .. (N + 1)
      BY <2>5 DEF GateTick, NextInRound, TypeOK, Gate
    <3>2. Handler(g)
      BY <2>5 DEF GateTick
    <3> USE <3>1 DEF TypeOK, FsmState, Goto, SetTimer, Close, Unlock, TryLock
    <3> SUFFICES /\ busy' \in BOOLEAN
                 /\ state' \in [Gate -> FsmState]
                 /\ expired' \in [Gate -> BOOLEAN]
                 /\ link' \in [Gate -> BOOLEAN]
                 /\ currentParamId' \in [Gate -> Nat]
                 /\ \A h \in Gate : currentParamId'[h] < NumItems[h]
                 /\ startSequenceCounter' \in [Gate -> 0 .. StartSequenceLength]
      OBVIOUS
    <3>3. CASE LeaveInit(g)
      BY <3>3 DEF LeaveInit
    <3>4. CASE Idle(g)
      BY <3>4 DEF Idle
    <3>5. CASE WaitingForLinkLock(g)
      BY <3>5 DEF WaitingForLinkLock
    <3>6. CASE Reset(g)
      <4>1. \A h \in Gate : 0 < NumItems[h]
        OBVIOUS
      <4>2. \A h \in Gate : currentParamId'[h] < NumItems[h]
        BY <3>6, <4>1 DEF Reset
      <4>3. QED
        BY <3>6, <4>2 DEF Reset
    <3>7. CASE Connect(g) /\ ~Reset(g)
      <4>1. \/ /\ Goto(g, "send")
               /\ UNCHANGED <<expired, startSequenceCounter>>
            \/ /\ SetTimer(g)
               /\ startSequenceCounter' = [startSequenceCounter EXCEPT ![g] = 0]
               /\ Goto(g, "sendStartSequence")
        BY <3>7 DEF Connect
      <4>2. link' = [link EXCEPT ![g] = TRUE] /\ UNCHANGED <<busy, currentParamId>>
        BY <3>7 DEF Connect
      <4>3. state' \in [Gate -> FsmState] /\ expired' \in [Gate -> BOOLEAN]
        BY <4>1
      <4>4. startSequenceCounter' \in [Gate -> 0 .. StartSequenceLength]
        BY <4>1
      <4>5. QED
        BY <4>2, <4>3, <4>4
    <3>8. CASE SendStartSequence(g) /\ ~Reset(g)
      <4>1. \/ UNCHANGED gateVars
            \/ /\ Goto(g, "sendSessionReq")
               /\ UNCHANGED <<busy, expired, link, currentParamId, startSequenceCounter>>
            \/ /\ SetTimer(g)
               /\ startSequenceCounter[g] < StartSequenceLength
               /\ startSequenceCounter' = [startSequenceCounter EXCEPT ![g] = @ + 1]
               /\ UNCHANGED <<busy, state, link, currentParamId>>
        BY <3>8 DEF SendStartSequence
      <4>2. state' \in [Gate -> FsmState] /\ expired' \in [Gate -> BOOLEAN]
        BY <4>1 DEF gateVars
      <4>3. startSequenceCounter' \in [Gate -> 0 .. StartSequenceLength]
        BY <4>1 DEF gateVars
      <4>4. UNCHANGED <<busy, link, currentParamId>>
        BY <4>1 DEF gateVars
      <4>5. QED
        BY <4>2, <4>3, <4>4
    <3>9. CASE SendSessionReq(g) /\ ~Reset(g)
      <4>1. /\ SetTimer(g) /\ Goto(g, "recvSessionRsp")
            /\ UNCHANGED <<busy, link, currentParamId, startSequenceCounter>>
        BY <3>9 DEF SendSessionReq
      <4>2. QED
        BY <4>1
    <3>10. CASE RecvSessionRsp(g) /\ ~Reset(g)
      BY <3>10 DEF RecvSessionRsp
    <3>11. CASE SendRequest(g) /\ ~Reset(g)
      BY <3>11 DEF SendRequest, RecvState
    <3>12. CASE ReceiveAnswer(g) /\ ~Reset(g)
      <4>1. link' \in [Gate -> BOOLEAN]
        BY <3>12 DEF ReceiveAnswer, ReadNothing
      <4>2. Advance(g) \/ UNCHANGED <<busy, state, expired, currentParamId, startSequenceCounter>>
        BY <3>12 DEF ReceiveAnswer
      <4>3. QED
        BY <4>1, <4>2 DEF Advance, SendState
    <3>13. CASE Disconnect(g)
      BY <3>13 DEF Disconnect
    <3>14. CASE Error(g)
      BY <3>14 DEF Error
    <3>15. QED
      BY <3>2, <3>3, <3>4, <3>5, <3>6, <3>7, <3>8, <3>9, <3>10, <3>11, <3>12,
         <3>13, <3>14 DEF Handler
  <2>6. CASE UNCHANGED vars
    BY <2>6 DEF vars, TypeOK
  <2>7. QED
    BY <2>1, <2>2, <2>3, <2>4, <2>5, <2>6 DEF Next, MainLoop
<1>3. QED
  BY <1>1, <1>2, PTL DEF Safety

-----------------------------------------------------------------------------
\* A call of a handler, seen from the lock: one of four kinds of step.

Takes(g) == /\ state[g] = "waitingForLinkLock"
            /\ busy = FALSE
            /\ busy' = TRUE
            /\ state' = [state EXCEPT ![g] = "connect"]
            /\ UNCHANGED <<link, currentParamId>>

Leaves(g) == /\ state[g] \in Session
             /\ busy' = FALSE
             /\ \E s \in {"idle", "error"} : state' = [state EXCEPT ![g] = s]
             /\ link' = [link EXCEPT ![g] = FALSE]
             /\ \/ currentParamId' = [currentParamId EXCEPT ![g] = 0]
                \/ state[g] = "disconnect" /\ UNCHANGED currentParamId

StaysIn(g) == /\ state[g] \in Session
              /\ busy' = busy
              /\ \E s \in Session \ {"connect"} :
                    /\ state' = [state EXCEPT ![g] = s]
                    /\ s = "disconnect" => currentParamId'[g] = 0
              /\ \A h \in Gate \ {g} : /\ link'[h] = link[h]
                                       /\ currentParamId'[h] = currentParamId[h]

StaysOut(g) == /\ state[g] \notin Session
               /\ busy' = busy
               /\ \E s \in FsmState \ Session :
                     /\ state' = [state EXCEPT ![g] = s]
                     /\ state[g] = "waitingForLinkLock" =>
                            s = "waitingForLinkLock" /\ busy = TRUE
               /\ UNCHANGED <<link, currentParamId>>

\* Whatever handler runs, it is one of these steps.
LEMMA HandlerStep ==
    ASSUME TypeOK, NEW g \in Gate, Handler(g)
    PROVE  Takes(g) \/ Leaves(g) \/ StaysIn(g) \/ StaysOut(g)
<1> USE DEF TypeOK, Goto, SetTimer, Close, Unlock, TryLock, Session, FsmState
<1>1. CASE LeaveInit(g)
  BY <1>1 DEF LeaveInit, StaysOut
<1>2. CASE Idle(g)
  BY <1>2 DEF Idle, StaysOut
<1>3. CASE WaitingForLinkLock(g)
  BY <1>3 DEF WaitingForLinkLock, Takes, StaysOut
<1>4. CASE Reset(g) /\ state[g] \in Session
  BY <1>4 DEF Reset, Leaves
<1>5. CASE Connect(g) /\ ~Reset(g)
  BY <1>5 DEF Connect, StaysIn
<1>6. CASE SendStartSequence(g) /\ ~Reset(g)
  BY <1>6 DEF SendStartSequence, gateVars, StaysIn
<1>7. CASE SendSessionReq(g) /\ ~Reset(g)
  BY <1>7 DEF SendSessionReq, StaysIn
<1>8. CASE RecvSessionRsp(g) /\ ~Reset(g)
  BY <1>8 DEF RecvSessionRsp, StaysIn
<1>9. CASE SendRequest(g) /\ ~Reset(g)
  BY <1>9 DEF SendRequest, SendState, RecvState, StaysIn
<1>10. CASE ReceiveAnswer(g) /\ ~Reset(g)
  BY <1>10 DEF ReceiveAnswer, ReadNothing, Advance, SendState, RecvState, StaysIn
<1>11. CASE Disconnect(g)
  BY <1>11 DEF Disconnect, Leaves
<1>12. CASE Error(g)
  BY <1>12 DEF Error, StaysOut
<1>13. ASSUME Reset(g)
       PROVE  \/ state[g] \in Session
              \/ ~(\/ Connect(g) \/ SendStartSequence(g) \/ SendSessionReq(g)
                   \/ RecvSessionRsp(g) \/ SendRequest(g) \/ ReceiveAnswer(g))
  BY DEF Connect, SendStartSequence, SendSessionReq, RecvSessionRsp, SendRequest,
         ReceiveAnswer, SendState, RecvState
<1>14. QED
  BY <1>1, <1>2, <1>3, <1>4, <1>5, <1>6, <1>7, <1>8, <1>9, <1>10, <1>11, <1>12,
     <1>13 DEF Handler

-----------------------------------------------------------------------------
\* The inductive invariant.  MutualExclusion is not inductive by itself: that a
\* free lock means an idle bus has to be carried along, and for the cursor the
\* state from which Disconnect starts.

ScanDone == \A g \in Gate : state[g] = "disconnect" => currentParamId[g] = 0

IInv == /\ TypeOK
        /\ MutualExclusion
        /\ LockMatchesSession
        /\ NothingLeftBehind
        /\ ScanDone

LEMMA HandlerKeepsIInv ==
    ASSUME IInv, TypeOK', NEW g \in Gate, Handler(g)
    PROVE  IInv'
<1> USE DEF IInv, MutualExclusion, LockMatchesSession, NothingLeftBehind, ScanDone,
        InSession
<1>1. state \in [Gate -> FsmState] /\ link \in [Gate -> BOOLEAN]
      /\ currentParamId \in [Gate -> Nat] /\ busy \in BOOLEAN
  BY DEF TypeOK
<1>2. CASE Takes(g)
  BY <1>1, <1>2 DEF Takes, Session, FsmState
<1>3. CASE Leaves(g)
  BY <1>1, <1>3 DEF Leaves, Session, FsmState
<1>4. CASE StaysIn(g)
  BY <1>1, <1>4 DEF StaysIn, Session, FsmState
<1>5. CASE StaysOut(g)
  BY <1>1, <1>5 DEF StaysOut, Session, FsmState
<1>6. QED
  BY HandlerStep, <1>2, <1>3, <1>4, <1>5

\* The invariant of the main loop.
THEOREM Invariance == Safety => []IInv
<1>1. Init => IInv
  <2> SUFFICES ASSUME Init PROVE IInv
    OBVIOUS
  <2>1. Init => TypeOK
    BY TypeCorrectInit
  <2>2. MutualExclusion /\ LockMatchesSession /\ NothingLeftBehind /\ ScanDone
    BY DEF Init, MutualExclusion, LockMatchesSession, NothingLeftBehind, ScanDone,
           InSession, Session
  <2>3. QED
    BY <2>1, <2>2 DEF IInv
<1>2. IInv /\ TypeOK' /\ [Next]_vars => IInv'
  <2> SUFFICES ASSUME IInv, TypeOK', [Next]_vars PROVE IInv'
    OBVIOUS
  <2>1. ASSUME NEW g \in Gate, GateTick(g) PROVE IInv'
    BY <2>1, HandlerKeepsIInv DEF GateTick
  <2>2. CASE UNCHANGED <<busy, state, link, currentParamId>>
    BY <2>2 DEF IInv, MutualExclusion, LockMatchesSession, NothingLeftBehind, ScanDone,
                InSession
  <2>3. QED
    BY <2>1, <2>2 DEF Next, MainLoop, ProcessInit, ServiceTick, LeaveMainLoop, Expire,
                      gateVars, vars
<1>3. QED
  BY <1>1, <1>2, TypeCorrect, PTL DEF Safety

\* At most one gate is in a session, whatever the number of gates.
THEOREM OneGateOnTheBus == Safety => []MutualExclusion
<1>1. IInv => MutualExclusion
  BY DEF IInv
<1>2. QED
  BY <1>1, Invariance, PTL

\* The lock is never leaked and never given up early.
THEOREM LockNeverLeaks == Safety => []LockMatchesSession
<1>1. IInv => LockMatchesSession
  BY DEF IInv
<1>2. QED
  BY <1>1, Invariance, PTL

\* Every way out of a session closes the socket and rewinds the scan.
THEOREM SessionsStartClean == Safety => []NothingLeftBehind
<1>1. IInv => NothingLeftBehind
  BY DEF IInv
<1>2. QED
  BY <1>1, Invariance, PTL

-----------------------------------------------------------------------------
\* The refinement of LinkLock.tla: every tick of a gate is a step of the
\* abstract lock or leaves it alone.

LEMMA HandlerRefinesLock ==
    ASSUME IInv, TypeOK', NEW g \in Gate, Handler(g), mode = "run", mode' = "run"
    PROVE  Lock!Next \/ UNCHANGED Lock!vars
<1> DEFINE stage == [h \in Gate |-> LockStage(h)]
           Moves(t) == stage' = [stage EXCEPT ![g] = t]
<1> USE DEF IInv, LockStage, InSession
<1>1. state \in [Gate -> FsmState] /\ state' \in [Gate -> FsmState]
  BY DEF TypeOK
<1>2. (mode \in {"init", "run"})' = (mode \in {"init", "run"}) /\ mode \in {"init", "run"}
  OBVIOUS
<1>3. CASE Takes(g)
  <2>1. stage[g] = "wants" /\ Moves("holds")
    BY <1>1, <1>3 DEF Takes, Session, FsmState
  <2>2. \A h \in Gate : stage[h] # "holds"
    BY <1>3 DEF Takes, LockMatchesSession
  <2>3. Lock!Grant(g)
    BY <2>1, <2>2, <1>2 DEF Lock!Grant, Lock!Free
  <2>4. QED
    BY <2>3 DEF Lock!Next
<1>4. CASE Leaves(g)
  <2>1. stage[g] = "holds" /\ Moves("away")
    BY <1>1, <1>4 DEF Leaves, Session, FsmState
  <2>2. Lock!Release(g)
    BY <2>1, <1>2 DEF Lock!Release
  <2>3. QED
    BY <2>2 DEF Lock!Next
<1>5. CASE StaysIn(g)
  <2>1. UNCHANGED stage
    BY <1>1, <1>5 DEF StaysIn, Session, FsmState
  <2>2. QED
    BY <2>1, <1>2 DEF Lock!vars
<1>6. CASE StaysOut(g)
  <2>1. \/ UNCHANGED stage
        \/ stage[g] = "away" /\ Moves("wants")
    <3>1. PICK s \in FsmState \ Session : state' = [state EXCEPT ![g] = s]
      BY <1>6 DEF StaysOut
    <3>2. state[g] \notin Session
          /\ (state[g] = "waitingForLinkLock" => state'[g] = "waitingForLinkLock")
      BY <1>1, <1>6 DEF StaysOut
    <3>3. CASE (s = "waitingForLinkLock") = (state[g] = "waitingForLinkLock")
      BY <1>1, <3>1, <3>2, <3>3
    <3>4. CASE s = "waitingForLinkLock" /\ state[g] # "waitingForLinkLock"
      BY <1>1, <3>1, <3>2, <3>4
    <3>5. QED
      BY <1>1, <3>1, <3>2, <3>3, <3>4
  <2>2. CASE UNCHANGED stage
    BY <2>2, <1>2 DEF Lock!vars
  <2>3. CASE stage[g] = "away" /\ Moves("wants")
    <3>1. Lock!Want(g)
      BY <2>3, <1>2 DEF Lock!Want
    <3>2. QED
      BY <3>1 DEF Lock!Next
  <2>4. QED
    BY <2>1, <2>2, <2>3
<1>7. QED
  BY HandlerStep, <1>3, <1>4, <1>5, <1>6

\* The flag of LinkLocker.hpp, used as the handlers use it, is the lock of
\* LinkLock.tla: taken only when free, given back only by its holder.
THEOREM RefinesLinkLock == Safety => Lock!Safety
<1>1. Init => Lock!Init
  BY DEF Init, Lock!Init, LockStage, InSession, Session
<1>2. IInv /\ TypeOK' /\ [Next]_vars => [Lock!Next]_(Lock!vars)
  <2> SUFFICES ASSUME IInv, TypeOK', [Next]_vars
               PROVE  Lock!Next \/ UNCHANGED Lock!vars
    OBVIOUS
  <2>1. ASSUME NEW g \in Gate, GateTick(g) PROVE Lock!Next \/ UNCHANGED Lock!vars
    BY <2>1, HandlerRefinesLock DEF GateTick
  <2>2. CASE UNCHANGED state
    <3>1. UNCHANGED [h \in Gate |-> LockStage(h)]
      BY <2>2 DEF LockStage, InSession
    <3>2. CASE UNCHANGED (mode \in {"init", "run"})
      BY <3>1, <3>2 DEF Lock!vars
    <3>3. CASE mode \in {"init", "run"} /\ mode' \notin {"init", "run"}
      BY <3>1, <3>3 DEF Lock!Next, Lock!Close
    <3>4. mode' \in {"init", "run"} => mode \in {"init", "run"}
      BY <2>2 DEF Next, MainLoop, ProcessInit, ServiceTick, LeaveMainLoop, Expire,
                  GateTick, vars
    <3>5. QED
      BY <3>2, <3>3, <3>4
  <2>3. QED
    BY <2>1, <2>2 DEF Next, MainLoop, ProcessInit, ServiceTick, LeaveMainLoop, Expire,
                      gateVars, vars
<1>3. QED
  BY <1>1, <1>2, TypeCorrect, Invariance, PTL DEF Safety, Lock!Safety

-----------------------------------------------------------------------------
\* One tick brings every other gate's turn one step nearer, also over the end of
\* the round.
LEMMA DistStep ==
    ASSUME NEW g \in Gate
    PROVE  /\ \A x \in 1 .. (N + 1) : Dist(x, g) \in Nat
           /\ \A t \in Gate : t # g => Dist(t + 1, g) < Dist(t, g)
           /\ Dist(1, g) < Dist(N + 1, g)
  BY ConfigAssumption DEF Dist, Gate

\* A behaviour with the history is a behaviour of the main loop.
LEMMA HistoryIsHarmless == OrderSpec => Safety
<1>1. OrderInit => Init
  BY DEF OrderInit
<1>2. [OrderNext]_hvars => [Next]_vars
  BY DEF OrderNext, hvars
<1>3. QED
  BY <1>1, <1>2, PTL DEF OrderSpec, Safety

\* A tick of a gate: t is the one whose turn it is, g some gate that waits before
\* and after.
LEMMA GateTickKeepsOrder ==
    ASSUME IInv, IInv', OrderInv, NEW t \in Gate, GateTick(t), OrderNext,
           NEW g \in Gate, Waiting(g), Waiting(g)',
           NEW k \in passed'[g]
    PROVE  /\ k \in Gate
           /\ k # g
           /\ ~busy' => Dist(k, g) > Dist(turn', g)
           /\ \A h \in Gate : InSession(h)' => k = h \/ Dist(k, g) > Dist(h, g)
<1> USE DEF Waiting, InSession
<1>1. turn = t /\ turn' = t + 1 /\ Handler(t)
  BY DEF GateTick, NextInRound
<1>2. state \in [Gate -> FsmState] /\ TypeOK /\ LockMatchesSession
      /\ MutualExclusion /\ LockMatchesSession'
  BY DEF IInv, TypeOK
<1>3. passed'[g] = passed[g] \cup {h \in Gate : Acquires(h)}
  BY DEF OrderNext, Acquires
<1>4. ASSUME NEW j \in passed[g]
      PROVE  /\ j \in Gate
             /\ j # g
             /\ ~busy => Dist(j, g) > Dist(t, g)
             /\ \A h \in Gate : InSession(h) => j = h \/ Dist(j, g) > Dist(h, g)
  BY <1>1 DEF OrderInv
<1>5. \A x \in 1 .. (N + 1) : Dist(x, g) \in Nat
  BY DistStep
<1>6. t # g => Dist(t + 1, g) < Dist(t, g)
  BY DistStep
<1>7. \A j \in Gate : Dist(j, g) \in Nat /\ t + 1 \in 1 .. (N + 1)
  BY <1>5, ConfigAssumption DEF Gate
<1>8. Dist(t + 1, g) \in Nat
  BY <1>5, <1>7
<1>9. CASE Takes(t)
  <2>1. t # g
    BY <1>2, <1>9 DEF Takes
  <2>2. \A h \in Gate : Acquires(h) <=> h = t
    BY <1>2, <1>9 DEF Takes, Acquires
  <2>3. \A h \in Gate : InSession(h)' => h = t
    BY <1>2, <1>9 DEF Takes, LockMatchesSession
  <2>4. busy' = TRUE /\ busy = FALSE
    BY <1>9 DEF Takes
  <2>5. k = t \/ k \in passed[g]
    BY <1>3, <2>2
  <2>6. QED
    BY <2>1, <2>3, <2>4, <2>5, <1>4
<1>10. CASE Leaves(t)
  <2>1. t # g
    BY <1>10 DEF Leaves, Session
  <2>2. k \in passed[g]
    BY <1>2, <1>3, <1>10 DEF Leaves, Acquires
  <2>3. \A h \in Gate : ~InSession(h)'
    BY <1>2, <1>10 DEF Leaves, LockMatchesSession
  <2>4. k = t \/ Dist(k, g) > Dist(t, g)
    BY <1>4, <1>10, <2>2 DEF Leaves
  <2>5. QED
    BY <2>1, <2>2, <2>3, <2>4, <1>1, <1>4, <1>6, <1>7, <1>8
<1>11. CASE StaysIn(t)
  <2>1. busy' = busy /\ busy = TRUE
    BY <1>2, <1>11 DEF StaysIn, LockMatchesSession, TypeOK
  <2>2. \A h \in Gate : InSession(h)' => InSession(h)
    BY <1>2, <1>11 DEF StaysIn
  <2>3. k \in passed[g]
    BY <1>2, <1>3, <1>11 DEF StaysIn, Acquires, Session
  <2>4. QED
    BY <2>1, <2>2, <2>3, <1>4
<1>12. CASE StaysOut(t)
  <2>1. busy' = busy /\ (t = g => busy = TRUE)
    BY <1>12 DEF StaysOut
  <2>2. \A h \in Gate : InSession(h)' => InSession(h)
    BY <1>2, <1>12 DEF StaysOut
  <2>3. k \in passed[g]
    BY <1>2, <1>3, <1>12 DEF StaysOut, Acquires, Session
  <2>4. QED
    BY <2>1, <2>2, <2>3, <1>1, <1>4, <1>6, <1>7, <1>8
<1>13. QED
  BY <1>1, <1>2, HandlerStep, <1>9, <1>10, <1>11, <1>12

\* The order in which gates are served: whoever has overtaken a waiting gate
\* comes after it from then on.
THEOREM OrderInvariance == OrderSpec => []OrderInv
<1>1. OrderInit => OrderInv
  BY DEF OrderInit, OrderInv, Init, Waiting
<1>2. IInv /\ IInv' /\ OrderInv /\ [OrderNext]_hvars => OrderInv'
  <2> SUFFICES ASSUME IInv, IInv', OrderInv, [OrderNext]_hvars PROVE OrderInv'
    OBVIOUS
  <2>1. CASE UNCHANGED hvars
    BY <2>1 DEF hvars, vars, OrderInv, Waiting, InSession, Dist
  <2> SUFFICES ASSUME OrderNext,
                      NEW g \in Gate, Waiting(g)', NEW k \in passed'[g]
               PROVE  /\ k \in Gate
                      /\ k # g
                      /\ ~busy' => Dist(k, g) > Dist(turn', g)
                      /\ \A h \in Gate : InSession(h)' =>
                             k = h \/ Dist(k, g) > Dist(h, g)
    BY <2>1 DEF OrderInv, Dist
  <2>2. Waiting(g) /\ passed'[g] = passed[g] \cup {h \in Gate : Acquires(h)}
    BY DEF OrderNext, Acquires
  <2>3. ASSUME NEW t \in Gate, GateTick(t)
        PROVE  /\ k \in Gate
               /\ k # g
               /\ ~busy' => Dist(k, g) > Dist(turn', g)
               /\ \A h \in Gate : InSession(h)' => k = h \/ Dist(k, g) > Dist(h, g)
    BY <2>2, <2>3, GateTickKeepsOrder
  <2>4. ASSUME UNCHANGED <<busy, state>> PROVE passed'[g] = passed[g]
    BY <2>2, <2>4 DEF Acquires, Waiting
  <2>5. CASE ServiceTick
    <3>1. turn = N + 1 /\ turn' = 1 /\ UNCHANGED <<busy, state>>
      BY <2>5 DEF ServiceTick, gateVars
    <3>2. Dist(1, g) < Dist(N + 1, g) /\ Dist(1, g) \in Nat /\ Dist(N + 1, g) \in Nat
      BY DistStep, ConfigAssumption DEF Gate
    <3>3. k \in passed[g]
      BY <2>4, <3>1
    <3>4. k \in Gate
      BY <2>2, <3>3 DEF OrderInv
    <3>5. Dist(k, g) \in Nat
      BY <3>4, DistStep, ConfigAssumption DEF Gate
    <3>6. QED
      BY <2>2, <3>1, <3>2, <3>3, <3>5 DEF OrderInv, InSession
  <2>6. CASE UNCHANGED <<turn, busy, state>>
    BY <2>2, <2>4, <2>6 DEF OrderInv, InSession
  <2>7. QED
    BY <2>3, <2>5, <2>6 DEF OrderNext, Next, MainLoop, ProcessInit, LeaveMainLoop,
                            Expire, gateVars
<1>3. QED
  BY <1>1, <1>2, HistoryIsHarmless, Invariance, PTL DEF OrderSpec

\* A waiting gate is overtaken at most once by each other gate: no gate starves,
\* although LinkLocker keeps no queue.
THEOREM NoGateOvertakesTwice == OrderSpec => OvertakenOnce
<1> DEFINE Once == \A g, h \in Gate :
                     g # h /\ Waiting(g) /\ Acquires(h) => h \notin passed[g]
<1>1. IInv /\ OrderInv /\ [OrderNext]_hvars => [Once]_hvars
  <2> SUFFICES ASSUME IInv, OrderInv, OrderNext,
                      NEW g \in Gate, NEW h \in Gate, g # h, Waiting(g), Acquires(h)
               PROVE  h \notin passed[g]
    BY DEF hvars
  <2>1. state[h] = "waitingForLinkLock" /\ state'[h] = "connect"
    BY DEF Acquires, Waiting
  <2>2. PICK t \in Gate : GateTick(t)
    BY <2>1 DEF OrderNext, Next, MainLoop, ProcessInit, ServiceTick, LeaveMainLoop,
                Expire, gateVars
  <2>3. turn = t /\ Handler(t) /\ TypeOK /\ state \in [Gate -> FsmState]
    BY <2>2 DEF GateTick, IInv, TypeOK
  <2>4. Takes(t) /\ t = h
    BY <2>1, <2>3, HandlerStep DEF Takes, Leaves, StaysIn, StaysOut, Session
  <2>5. ~busy /\ turn = h
    BY <2>3, <2>4 DEF Takes
  <2>6. Dist(h, g) \in Nat
    BY DistStep, ConfigAssumption DEF Gate
  <2>7. QED
    BY <2>5, <2>6 DEF OrderInv
<1>2. QED
  BY <1>1, OrderInvariance, HistoryIsHarmless, Invariance, PTL DEF OrderSpec, OvertakenOnce
=============================================================================
