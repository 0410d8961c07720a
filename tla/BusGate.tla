-------------------------------- MODULE BusGate --------------------------------
(***************************************************************************)
(* The main loop of spgate.  BusGate::tickInd is called every 10 ms; in     *)
(* state "run" it ticks the gates in the order of their index, then the     *)
(* Modbus server and the CLI.  A gate polls its meters with one of two      *)
(* state machines, ClientFsm ("sps" gates) or RsBusFsm ("m4" gates), and    *)
(* all gates share one LinkLocker.                                          *)
(*                                                                          *)
(* A step of this module is one call of a gate's tickInd, with everything   *)
(* the handler of its current state does: the outcome of the socket calls   *)
(* is a choice, the timers run out when the environment says so.  Registers *)
(* and frames are the matter of SpBusClient.tla and RsBusClient.tla.        *)
(***************************************************************************)
EXTENDS Naturals

CONSTANTS N,                    \* configured gates (at most maxNumGates = 8)
          Kind,                 \* Kind[g]: "sps" or "m4"
          NumItems,             \* NumItems[g]: parameters read through gate g
          StartSequenceLength   \* startSequenceLength, 16 in the program

Gate == 1 .. N

ASSUME ConfigAssumption ==
    /\ N \in Nat \ {0}
    /\ Kind \in [Gate -> {"sps", "m4"}]
    /\ NumItems \in [Gate -> Nat \ {0}]   \* GateStorage::configure
    /\ StartSequenceLength \in Nat

VARIABLES mode,                  \* BusGateState, and "exit" for a finished main loop
          turn,                  \* who is ticked next: a gate, or N + 1
          busy,                  \* LinkLocker::busy
          state,                 \* state of each gate's machine
          expired,               \* has the timer its state looks at run out
          link,                  \* is the gate's socket connected
          currentParamId,        \* cursor over the gate's items, from 0
          startSequenceCounter   \* RsBusFsm::startSequenceCounter

gateVars == <<busy, state, expired, link, currentParamId, startSequenceCounter>>
vars == <<mode, turn, busy, state, expired, link, currentParamId, startSequenceCounter>>

-----------------------------------------------------------------------------
\* States of the machines.

Mode == {"init", "run", "error", "shutdown", "exit"}

FsmState == {"init", "idle", "waitingForLinkLock", "connect",
             "send", "receive",
             "sendStartSequence", "sendSessionReq", "recvSessionRsp",
             "sendDataReq", "recvDataRsp",
             "disconnect", "error"}

\* The states between a successful tryLock and the unlock.
Session == FsmState \ {"init", "idle", "waitingForLinkLock", "error"}

\* The states that look at a timer.
Timed == {"idle", "receive", "sendStartSequence", "recvSessionRsp", "recvDataRsp", "error"}

\* The state that asks for the current item, and the one that waits for it.
SendState(g) == IF Kind[g] = "sps" THEN "send" ELSE "sendDataReq"
RecvState(g) == IF Kind[g] = "sps" THEN "receive" ELSE "recvDataRsp"

TypeOK ==
    /\ mode \in Mode
    /\ turn \in 1 .. (N + 1)
    /\ busy \in BOOLEAN
    /\ state \in [Gate -> FsmState]
    /\ expired \in [Gate -> BOOLEAN]
    /\ link \in [Gate -> BOOLEAN]
    /\ currentParamId \in [Gate -> Nat]
    /\ \A g \in Gate : currentParamId[g] < NumItems[g]
    /\ startSequenceCounter \in [Gate -> 0 .. StartSequenceLength]

Init ==
    /\ mode = "init"
    /\ turn = 1
    /\ busy = FALSE
    /\ state = [g \in Gate |-> "init"]
    /\ expired = [g \in Gate |-> FALSE]
    /\ link = [g \in Gate |-> FALSE]
    /\ currentParamId = [g \in Gate |-> 0]
    /\ startSequenceCounter = [g \in Gate |-> 0]

-----------------------------------------------------------------------------
\* LinkLocker and the parts the handlers share.

\* Operators named Bad... are faulty variants of the definition that follows
\* them; PROJECT.json (mutants) says which property notices each.

\* The flag is set without being looked at.
BadTryLock == busy' = TRUE

TryLock == /\ ~busy
           /\ busy' = TRUE

Unlock == busy' = FALSE

Goto(g, s) == state' = [state EXCEPT ![g] = s]
SetTimer(g) == expired' = [expired EXCEPT ![g] = FALSE]
Close(g) == link' = [link EXCEPT ![g] = FALSE]

\* unlock forgotten on the error path.
BadResetLocked(g) ==
    /\ Close(g)
    /\ currentParamId' = [currentParamId EXCEPT ![g] = 0]
    /\ SetTimer(g)
    /\ Goto(g, "error")
    /\ UNCHANGED <<busy, startSequenceCounter>>

\* The cursor survives the error.
BadResetCursor(g) ==
    /\ Unlock
    /\ Close(g)
    /\ SetTimer(g)
    /\ Goto(g, "error")
    /\ UNCHANGED <<currentParamId, startSequenceCounter>>

\* SpBusClient::reset and RsBusClient::reset, with the two lines that follow
\* each call of them in the machines.
Reset(g) ==
    /\ Unlock
    /\ Close(g)
    /\ currentParamId' = [currentParamId EXCEPT ![g] = 0]
    /\ SetTimer(g)
    /\ Goto(g, "error")
    /\ UNCHANGED startSequenceCounter

\* The end of receive and of timeout: the next item, or the end of the scan.
Advance(g) ==
    /\ IF currentParamId[g] + 1 = NumItems[g]
       THEN /\ currentParamId' = [currentParamId EXCEPT ![g] = 0]
            /\ Goto(g, "disconnect")
       ELSE /\ currentParamId' = [currentParamId EXCEPT ![g] = @ + 1]
            /\ Goto(g, SendState(g))
    /\ UNCHANGED <<busy, expired, startSequenceCounter>>

\* A read that brings no answer.  In an sps gate the peer may turn out to be
\* gone in the middle of a frame: SpBusRx reports that as an invalid frame, the
\* socket is closed, and only the next read or write fails.
ReadNothing(g) ==
    link' \in {link} \cup (IF Kind[g] = "sps" THEN {[link EXCEPT ![g] = FALSE]} ELSE {})

-----------------------------------------------------------------------------
\* The handlers of the two machines.

\* tick is 0 in the first call, so the machine leaves init at once.
LeaveInit(g) ==
    /\ state[g] = "init"
    /\ SetTimer(g)
    /\ Goto(g, "idle")
    /\ UNCHANGED <<busy, link, currentParamId, startSequenceCounter>>

Idle(g) ==
    /\ state[g] = "idle"
    /\ IF expired[g] THEN Goto(g, "waitingForLinkLock") ELSE UNCHANGED state
    /\ UNCHANGED <<busy, expired, link, currentParamId, startSequenceCounter>>

WaitingForLinkLock(g) ==
    /\ state[g] = "waitingForLinkLock"
    /\ \/ TryLock /\ Goto(g, "connect")
       \/ busy /\ UNCHANGED <<busy, state>>
    /\ UNCHANGED <<expired, link, currentParamId, startSequenceCounter>>

Connect(g) ==
    /\ state[g] = "connect"
    /\ \/ Reset(g)
       \/ /\ link' = [link EXCEPT ![g] = TRUE]
          /\ \/ /\ Kind[g] = "sps"
                /\ Goto(g, "send")
                /\ UNCHANGED <<expired, startSequenceCounter>>
             \/ /\ Kind[g] = "m4"
                /\ SetTimer(g)
                /\ startSequenceCounter' = [startSequenceCounter EXCEPT ![g] = 0]
                /\ Goto(g, "sendStartSequence")
          /\ UNCHANGED <<busy, currentParamId>>

\* > for >=.
BadSendStartSequence(g) ==
    /\ state[g] = "sendStartSequence"
    /\ expired[g]
    /\ IF startSequenceCounter[g] > StartSequenceLength
       THEN /\ Goto(g, "sendSessionReq")
            /\ UNCHANGED <<expired, startSequenceCounter>>
       ELSE /\ SetTimer(g)
            /\ startSequenceCounter' = [startSequenceCounter EXCEPT ![g] = @ + 1]
            /\ UNCHANGED state
    /\ UNCHANGED <<busy, link, currentParamId>>

SendStartSequence(g) ==
    /\ state[g] = "sendStartSequence"
    /\ \/ ~expired[g] /\ UNCHANGED gateVars
       \/ expired[g] /\ Reset(g)
       \/ /\ expired[g]
          /\ IF startSequenceCounter[g] >= StartSequenceLength
             THEN /\ Goto(g, "sendSessionReq")
                  /\ UNCHANGED <<expired, startSequenceCounter>>
             ELSE /\ SetTimer(g)
                  /\ startSequenceCounter' = [startSequenceCounter EXCEPT ![g] = @ + 1]
                  /\ UNCHANGED state
          /\ UNCHANGED <<busy, link, currentParamId>>

SendSessionReq(g) ==
    /\ state[g] = "sendSessionReq"
    /\ \/ Reset(g)
       \/ /\ SetTimer(g)
          /\ Goto(g, "recvSessionRsp")
          /\ UNCHANGED <<busy, link, currentParamId, startSequenceCounter>>

\* The timer is looked at before the answer: an answer that comes in the tick
\* in which the timer has run out does not save the session.
RecvSessionRsp(g) ==
    /\ state[g] = "recvSessionRsp"
    /\ \/ Reset(g)
       \/ /\ ~expired[g]
          /\ state' \in {state, [state EXCEPT ![g] = "sendDataReq"]}
          /\ UNCHANGED <<busy, expired, link, currentParamId, startSequenceCounter>>

\* ClientFsm::send and RsBusFsm::sendDataReq.  A write on a dead socket fails.
SendRequest(g) ==
    /\ state[g] = SendState(g)
    /\ \/ Reset(g)
       \/ /\ link[g]
          /\ SetTimer(g)
          /\ Goto(g, RecvState(g))
          /\ UNCHANGED <<busy, link, currentParamId, startSequenceCounter>>

\* ClientFsm::receive and RsBusFsm::recvDataRsp: the bus fails (always on a
\* dead socket), or an answer is taken, or there is none and the timer decides.
ReceiveAnswer(g) ==
    /\ state[g] = RecvState(g)
    /\ \/ Reset(g)
       \/ link[g] /\ UNCHANGED link /\ Advance(g)
       \/ /\ link[g]
          /\ ReadNothing(g)
          /\ IF expired[g]
             THEN Advance(g)
             ELSE UNCHANGED <<busy, state, expired, currentParamId, startSequenceCounter>>

Disconnect(g) ==
    /\ state[g] = "disconnect"
    /\ Unlock
    /\ Close(g)
    /\ SetTimer(g)
    /\ Goto(g, "idle")
    /\ UNCHANGED <<currentParamId, startSequenceCounter>>

\* The pause after an error is started anew instead of ending.
BadError(g) ==
    /\ state[g] = "error"
    /\ SetTimer(g)
    /\ UNCHANGED <<busy, state, link, currentParamId, startSequenceCounter>>

Error(g) ==
    /\ state[g] = "error"
    /\ IF expired[g]
       THEN SetTimer(g) /\ Goto(g, "idle")
       ELSE UNCHANGED <<expired, state>>
    /\ UNCHANGED <<busy, link, currentParamId, startSequenceCounter>>

Handler(g) ==
    \/ LeaveInit(g)
    \/ Idle(g)
    \/ WaitingForLinkLock(g)
    \/ Connect(g)
    \/ SendStartSequence(g)
    \/ SendSessionReq(g)
    \/ RecvSessionRsp(g)
    \/ SendRequest(g)
    \/ ReceiveAnswer(g)
    \/ Disconnect(g)
    \/ Error(g)

-----------------------------------------------------------------------------
\* The main loop.

\* processInit: any of the steps that read the configuration may fail for good,
\* and a gate without parameters throws out of the main loop.
ProcessInit ==
    /\ mode = "init"
    /\ mode' \in {"run", "error", "exit"}
    /\ UNCHANGED <<turn, gateVars>>

\* The round starts over as soon as a session has ended.
BadNextInRound == turn' = IF busy /\ ~busy' THEN 1 ELSE turn + 1

\* for (auto& gate : gates): the gates are ticked in the order of their index.
NextInRound == turn' = turn + 1

GateTick(g) ==
    /\ mode = "run"
    /\ turn = g
    /\ Handler(g)
    /\ NextInRound
    /\ UNCHANGED mode

\* modbus->tickInd and cli->tickInd; the shutdown command of the CLI calls
\* BusGate::shutdown.
ServiceTick ==
    /\ mode = "run"
    /\ turn = N + 1
    /\ turn' = 1
    /\ mode' \in {"run", "shutdown"}
    /\ UNCHANGED gateVars

\* tickInd returns 1 after a shutdown, or SIGINT has set done.
LeaveMainLoop ==
    /\ turn = 1
    /\ mode # "exit"
    /\ mode' = "exit"
    /\ UNCHANGED <<turn, gateVars>>

\* Time passes: the timer that gate g looks at runs out.
Expire(g) ==
    /\ state[g] \in Timed
    /\ ~expired[g]
    /\ expired' = [expired EXCEPT ![g] = TRUE]
    /\ UNCHANGED <<mode, turn, busy, state, link, currentParamId, startSequenceCounter>>

MainLoop == ProcessInit \/ (\E g \in Gate : GateTick(g)) \/ ServiceTick

Next ==
    \/ MainLoop
    \/ LeaveMainLoop
    \/ \E g \in Gate : Expire(g)

Safety == Init /\ [][Next]_vars

\* The loop of spgate_main.cpp keeps ticking (a tick returns: every socket call
\* has a time limit), and every timer runs out.
Spec == /\ Safety
        /\ WF_vars(MainLoop)
        /\ \A g \in Gate : WF_vars(Expire(g))

-----------------------------------------------------------------------------
\* Properties.

InSession(g) == state[g] \in Session

\* At most one gate talks to its meters at any time: the gates may stand for
\* the same serial bus behind one gateway, where two requests would collide.
\* LinkLocker has no owner, so this rests on every path through the handlers.
MutualExclusion ==
    \A g, h \in Gate : InSession(g) /\ InSession(h) => g = h

\* The lock is busy exactly while some gate is in a session: no handler leaves a
\* session with the lock held (every gate would wait for ever), none gives up
\* the lock and goes on talking.
LockMatchesSession == busy <=> \E g \in Gate : InSession(g)

\* A gate outside a session keeps no connection and no place in its scan: the
\* socket is closed on every way out, and the next session starts with the first
\* parameter.
NothingLeftBehind ==
    \A g \in Gate : ~InSession(g) \/ state[g] = "connect"
                        => ~link[g] /\ currentParamId[g] = 0

\* The flag and the order of the ticks give what LinkLock.tla promises.
LockStage(g) == IF InSession(g) THEN "holds"
                ELSE IF state[g] = "waitingForLinkLock" THEN "wants" ELSE "away"

Lock == INSTANCE LinkLock WITH stage <- [g \in Gate |-> LockStage(g)],
                               open <- mode \in {"init", "run"}

\* Safety of the lock protocol, and no starvation under it: a session ends, and a
\* waiting gate gets its turn although tryLock keeps no queue.
ImplementsLinkLock == Lock!Spec

\* While the program runs, every gate opens one session after another, whatever
\* the meters and the network do.
EveryGateKeepsPolling ==
    \A g \in Gate : (mode = "run") ~> (InSession(g) \/ mode # "run")
=============================================================================
