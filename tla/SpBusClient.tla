----------------------------- MODULE SpBusClient -----------------------------
(***************************************************************************)
(* One "sps" gate: ClientFsm driving SpBusClient over a TCP link to the     *)
(* gateway of the meters.  The client asks for one parameter at a time and  *)
(* stores what comes back under the parameter it is waiting for: the        *)
(* answer's device address, channel and parameter number are decoded but    *)
(* compared with nothing.  So the model keeps, for every request and        *)
(* answer under way, which item it is about, and whether it was asked for   *)
(* in an earlier session than the one going on.                             *)
(*                                                                          *)
(* The shared lock is a choice here (BusGate.tla has it in full).           *)
(***************************************************************************)
EXTENDS Naturals, Sequences

CONSTANTS NumItems,   \* storage.getNumItems()
          MaxNoise    \* bound on broken frames waiting on the link

ASSUME SpBusAssumption == NumItems \in Nat \ {0} /\ MaxNoise \in Nat

VARIABLES state,            \* ClientFsm::state
          expired,          \* has the timer the state looks at run out
          currentParamId,   \* cursor over the items
          status,           \* status register of each item
          value,            \* the item whose value stands in the value registers, or
                            \* Earlier (see Origin)
          link,             \* the socket: "down", "up", or "broken" by the peer
          asked,            \* requests the meters have not answered yet
          wire,             \* frames on their way to the client
          faulty,           \* can meters, gateway and network still fail
          punctual          \* is this a bus whose meters answer before the receive
                            \* timer, or never; chosen at the start

vars == <<state, expired, currentParamId, status, value, link, asked, wire, faulty, punctual>>

Item == 0 .. (NumItems - 1)
NoItem == NumItems        \* the value registers have not been written
Earlier == NumItems + 1   \* they hold what an earlier session had asked for

FsmState == {"init", "idle", "waitingForLinkLock", "connect", "send", "receive",
             "disconnect", "error"}

\* old: asked for in an earlier session.
Request == [about : Item, old : BOOLEAN]

\* What a frame turns out to be when SpBusRx and SpBusCodec have had it: a
\* response with a value of the configured type, a response without one, or
\* nothing usable (CRC, syntax, function code, cut off).
Frame == [kind : {"value", "noValue"}, about : Item, old : BOOLEAN] \cup [kind : {"broken"}]
Broken == [kind |-> "broken"]

TypeOK ==
    /\ state \in FsmState
    /\ expired \in BOOLEAN
    /\ currentParamId \in Item
    /\ status \in [Item -> {"undef", "timeout", "invalid", "ready"}]
    /\ value \in [Item -> Item \cup {NoItem, Earlier}]
    /\ link \in {"down", "up", "broken"}
    /\ asked \in Seq(Request)
    /\ wire \in Seq(Frame)
    /\ faulty \in BOOLEAN
    /\ punctual \in BOOLEAN

Init ==
    /\ state = "init"
    /\ expired = FALSE
    /\ currentParamId = 0
    /\ status = [i \in Item |-> "undef"]
    /\ value = [i \in Item |-> NoItem]
    /\ link = "down"
    /\ asked = <<>>
    /\ wire = <<>>
    /\ faulty = TRUE
    /\ punctual \in BOOLEAN

-----------------------------------------------------------------------------
\* The operations of SpBusClient that ClientFsm calls.

\* Operators named Bad... are faulty variants of the definition that follows
\* them; PROJECT.json (mutants) says which property notices each.

\* The connection is left to the next session with what is under way on it.
BadCloseLink == /\ link' = "down"
                /\ UNCHANGED <<asked, wire>>

\* link->close(): what is still under way on the connection is gone.  (That the
\* gateway does not keep an answer for the connection that follows is assumed.)
CloseLink == /\ link' = "down"
             /\ asked' = <<>>
             /\ wire' = <<>>

SetStatus(i, s) == status' = [status EXCEPT ![i] = s]

\* RegAccessor::setValue writes the value and the status.
SetValue(i, v) == /\ value' = [value EXCEPT ![i] = v]
                  /\ SetStatus(i, "ready")

\* Only the item that was being read is marked.
BadReset ==
    /\ SetStatus(currentParamId, "timeout")
    /\ currentParamId' = 0
    /\ CloseLink
    /\ expired' = FALSE
    /\ state' = "error"
    /\ UNCHANGED value

\* client.reset(), and the timer and state that follow it everywhere.
Reset ==
    /\ status' = [i \in Item |-> "timeout"]
    /\ currentParamId' = 0
    /\ CloseLink
    /\ expired' = FALSE
    /\ state' = "error"
    /\ UNCHANGED value

\* The comparison with the number of items is one off.
BadAdvance ==
    IF currentParamId + 1 >= NumItems - 1
    THEN currentParamId' = 0 /\ state' = "disconnect"
    ELSE currentParamId' = currentParamId + 1 /\ state' = "send"

\* > for ==: the scan runs past the last item.
BadAdvanceFar ==
    IF currentParamId + 1 > NumItems
    THEN currentParamId' = 0 /\ state' = "disconnect"
    ELSE currentParamId' = currentParamId + 1 /\ state' = "send"

\* The next item, or the end of the scan (result progress or done).
Advance ==
    IF currentParamId + 1 = NumItems
    THEN currentParamId' = 0 /\ state' = "disconnect"
    ELSE currentParamId' = currentParamId + 1 /\ state' = "send"

\* client.timeout()
Timeout ==
    /\ SetStatus(currentParamId, "timeout")
    /\ Advance
    /\ UNCHANGED <<expired, value>>

\* What the value of a frame is recorded as.
Origin(f) == IF f.old THEN Earlier ELSE f.about

\* The receive of SpBusClient for a frame that has been read completely.
TakeAnswer(f) ==
    /\ IF f.kind = "value"
       THEN SetValue(currentParamId, Origin(f))
       ELSE SetStatus(currentParamId, "invalid") /\ UNCHANGED value
    /\ Advance
    /\ UNCHANGED expired

\* Result waitForData: the timer decides.
NoAnswer ==
    IF expired THEN Timeout ELSE UNCHANGED <<state, expired, currentParamId, status, value>>

-----------------------------------------------------------------------------
\* The handlers of ClientFsm.

LeaveInit ==
    /\ state = "init"
    /\ expired' = FALSE
    /\ state' = "idle"
    /\ UNCHANGED <<currentParamId, status, value, link, asked, wire>>

Idle ==
    /\ state = "idle"
    /\ expired
    /\ state' = "waitingForLinkLock"
    /\ UNCHANGED <<expired, currentParamId, status, value, link, asked, wire>>

WaitingForLinkLock ==
    /\ state = "waitingForLinkLock"
    /\ state' = "connect"
    /\ UNCHANGED <<expired, currentParamId, status, value, link, asked, wire>>

AsOld(x) == IF x = Broken THEN x ELSE [x EXCEPT !.old = TRUE]

\* What is under way when a session begins was asked for in an earlier one.
MarkOld ==
    /\ asked' = [k \in DOMAIN asked |-> AsOld(asked[k])]
    /\ wire' = [k \in DOMAIN wire |-> AsOld(wire[k])]

Connect ==
    /\ state = "connect"
    /\ \/ faulty /\ Reset
       \/ /\ link' = "up"
          /\ MarkOld
          /\ state' = "send"
          /\ UNCHANGED <<expired, currentParamId, status, value>>

\* The request for the current item.
Ask == [about |-> currentParamId, old |-> FALSE]

\* recvTimer.set() forgotten.
BadSend ==
    /\ state = "send"
    /\ \/ link # "up" /\ Reset
       \/ /\ link # "down"
          /\ asked' = IF link = "up" THEN Append(asked, Ask) ELSE asked
          /\ state' = "receive"
          /\ UNCHANGED <<expired, currentParamId, status, value, link, wire>>

\* A write fails on a socket that is down, and may fail or be lost on one the
\* peer has broken.
Send ==
    /\ state = "send"
    /\ \/ link # "up" /\ Reset
       \/ /\ link # "down"
          /\ asked' = IF link = "up" THEN Append(asked, Ask) ELSE asked
          /\ expired' = FALSE
          /\ state' = "receive"
          /\ UNCHANGED <<currentParamId, status, value, link, wire>>

Receive ==
    /\ state = "receive"
    /\ \/ link = "down" /\ Reset
       \/ link = "broken" /\ wire = <<>> /\ Reset
       \/ \* the connection ends inside a frame: an invalid frame for SpBusRx
          link = "broken" /\ wire = <<>> /\ link' = "down" /\ NoAnswer
          /\ UNCHANGED <<asked, wire>>
       \/ /\ link = "up" /\ wire = <<>>
          /\ NoAnswer
          /\ UNCHANGED <<link, asked, wire>>
       \/ /\ link # "down" /\ wire # <<>>
          /\ wire' = Tail(wire)
          /\ IF Head(wire) = Broken THEN NoAnswer ELSE TakeAnswer(Head(wire))
          /\ UNCHANGED <<link, asked>>

Disconnect ==
    /\ state = "disconnect"
    /\ CloseLink
    /\ expired' = FALSE
    /\ state' = "idle"
    /\ UNCHANGED <<currentParamId, status, value>>

Error ==
    /\ state = "error"
    /\ expired
    /\ expired' = FALSE
    /\ state' = "idle"
    /\ UNCHANGED <<currentParamId, status, value, link, asked, wire>>

Handler == \/ LeaveInit \/ Idle \/ WaitingForLinkLock \/ Connect
           \/ Send \/ Receive \/ Disconnect \/ Error

Tick == Handler /\ UNCHANGED <<faulty, punctual>>

-----------------------------------------------------------------------------
\* The world: meters, network, time.

clientVars == <<state, expired, currentParamId, status, value>>

MeterAnswers ==
    /\ asked # <<>>
    /\ \E k \in {"value"} \cup (IF faulty THEN {"noValue"} ELSE {}) :
          wire' = Append(wire, [kind |-> k, about |-> Head(asked).about, old |-> Head(asked).old])
    /\ asked' = Tail(asked)
    /\ UNCHANGED <<clientVars, link, faulty, punctual>>

\* A request or its answer is lost, or only a broken frame comes out of it.
AnswerLost ==
    /\ faulty
    /\ asked # <<>>
    /\ asked' = Tail(asked)
    /\ wire' \in {wire, Append(wire, Broken)}
    /\ UNCHANGED <<clientVars, link, faulty, punctual>>

Noise ==
    /\ faulty
    /\ link = "up"
    /\ Len(wire) < MaxNoise
    /\ wire' = Append(wire, Broken)
    /\ UNCHANGED <<clientVars, link, asked, faulty, punctual>>

\* The gateway closes or resets the connection; a reset also discards what has
\* arrived.
PeerBreaks ==
    /\ faulty
    /\ link = "up"
    /\ link' = "broken"
    /\ asked' = <<>>
    /\ wire' \in {wire, <<>>}
    /\ UNCHANGED <<clientVars, faulty, punctual>>

\* With punctual meters the receive timer is long enough for every answer that
\* comes at all.
Expire ==
    /\ ~expired
    /\ state \in {"idle", "receive", "error"}
    /\ (punctual /\ state = "receive")
           => asked = <<>> /\ \A k \in DOMAIN wire : wire[k] = Broken
    /\ expired' = TRUE
    /\ UNCHANGED <<state, currentParamId, status, value, link, asked, wire, faulty, punctual>>

\* The trouble ends.
FaultsEnd ==
    /\ faulty
    /\ faulty' = FALSE
    /\ UNCHANGED <<clientVars, link, asked, wire, punctual>>

World == MeterAnswers \/ AnswerLost \/ Noise \/ PeerBreaks \/ FaultsEnd

Next == Tick \/ World \/ Expire

Safety == Init /\ [][Next]_vars

\* The main loop ticks the gate for ever, the lock comes round
\* (BusGate!ImplementsLinkLock), timers run out.  Of the world nothing is asked but
\* that a punctual meter answers, or that its answer is lost.
Spec == /\ Safety
        /\ WF_vars(Tick) /\ WF_vars(Expire)
        /\ WF_vars(punctual /\ MeterAnswers)

-----------------------------------------------------------------------------
\* Properties.

\* A status of 3 says that the registers hold the current value of this
\* parameter, as the comment in default.ini has it.
ReadyMeansOwnValue == \A i \in Item : status[i] = "ready" => value[i] = i

\* Since the answer is not compared with the request, that rests on the receive
\* timer: it is true if no answer comes after its request was given up, whatever
\* else is lost, damaged or broken off.
PunctualMeansOwnValue == punctual => ReadyMeansOwnValue

\* What a late answer cannot do: closing the connection after each session throws
\* it away, so it is at worst taken for a parameter further on in the same scan.  What
\* is marked as valid was asked for in the session that took it, at this parameter
\* or at one before it.
LateAnswerStaysInSession == \A i \in Item : status[i] = "ready" => value[i] \in 0 .. i

\* The sessions as a reader of the registers sees them.
SessionOpen == state \in {"connect", "send", "receive", "disconnect"}
Untreated == IF state \in {"connect", "send", "receive"}
             THEN {i \in Item : i >= currentParamId} ELSE {}

Poll == INSTANCE PollSession WITH open <- SessionOpen, left <- Untreated

\* Every session treats every item once or marks them all, whatever meters and
\* network do, and sessions neither hang nor stop coming.
ImplementsPollSession == Poll!Spec

\* The gate recovers by itself from whatever has happened: once a punctual bus is
\* sound, again and again a session ends with every parameter read and valid.
RecoversOnSoundBus ==
    (punctual /\ <>~faulty)
        => []<>(state = "disconnect" /\ \A i \in Item : status[i] = "ready")
=============================================================================
