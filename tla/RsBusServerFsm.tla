---------------------------- MODULE RsBusServerFsm ----------------------------
(***************************************************************************)
(* The two machines of an emulated meter, one inside the other: ServerFsm    *)
(* serves one connection after the other, and RsBusServerFsm follows the     *)
(* session on a connection.  The inner one is told nothing of connections.   *)
(* What makes the machines move is in EmulatedMeter.tla.                     *)
(***************************************************************************)
EXTENDS Naturals

CONSTANT StartSequenceLength

VARIABLES server,               \* ServerFsm::state of the meter
          busState,             \* RsBusServerFsm::state
          startSequenceCounter

server_ == <<server, busState, startSequenceCounter>>

\* The counter is set before it is first read.
MachinesStart == server = "init" /\ busState = "init" /\ startSequenceCounter = 0

\* RsBusServerFsm::init
AwaitStartSequence ==
    /\ startSequenceCounter' = 0
    /\ busState' = "recvStartSequence"
    /\ UNCHANGED server

\* One more start symbol.
CountSymbol ==
    /\ startSequenceCounter' = startSequenceCounter + 1
    /\ busState' = IF startSequenceCounter' = StartSequenceLength
                   THEN "recvSessionReq" ELSE busState
    /\ UNCHANGED server

\* A failure of the bus in any state: ServerFsm is told, and the inner machine starts over.
BreakOff ==
    /\ server' = "error"
    /\ busState' = "init"
    /\ UNCHANGED startSequenceCounter

\* RsBusServerFsm has no operation to start over: it must have done so itself
\* before the next connection is accepted, whatever ended the last one.
SessionPerConnection == server # "process" => busState = "init"
===============================================================================
