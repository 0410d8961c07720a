------------------------------- MODULE MCModbus -------------------------------
(***************************************************************************)
(* Three registers, those of one parameter, a limit of three registers      *)
(* for reads and of two for multi-writes, and requests on either side of    *)
(* every bound the commands look at.                                        *)
(***************************************************************************)
EXTENDS ModbusServer

BoundaryRequests ==
    {ReadRequest(0, 2), ReadRequest(1, 2), ReadRequest(0, 3),
     WriteRequest(2, 1), WriteRequest(3, 1),
     MultiWriteRequest(0, <<1, 1>>), MultiWriteRequest(1, <<1, 1>>),
     MultiWriteRequest(0, <<1, 1, 1>>),
     [MultiWriteRequest(0, <<1>>) EXCEPT !.bytes = 1],
     [fc |-> "other"]}

FewRequests == {ReadRequest(0, 1), WriteRequest(0, 1)}

\* The second parameter has no place in three registers.
Reading == [param |-> 0, val |-> <<0, 1>>]
Stores == {Reading, [param |-> 0, status |-> timeout], [param |-> 1, val |-> <<1, 1>>]}

CONSTANTS m1, m2

\* One master that keeps to the protocol and asks on both sides of every bound; and
\* two that compete for the server, pause in their frames and vanish.
Settings ==
    {[masters |-> {m1}, requests |-> BoundaryRequests, stores |-> Stores,
      whole |-> TRUE, vanish |-> FALSE],
     [masters |-> {m1, m2}, requests |-> FewRequests, stores |-> {Reading},
      whole |-> FALSE, vanish |-> TRUE]}
===============================================================================
