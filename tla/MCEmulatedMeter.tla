--------------------------- MODULE MCEmulatedMeter ---------------------------
(***************************************************************************)
(* One meter for each bus, with the number 7 for the gate.  Two setups the   *)
(* bus cannot carry: an "sps" address that is a DLE, and a short "m4" answer *)
(* whose second byte looks like the end of the frame.  Two faults where the  *)
(* frames are short, one where they are long.                                *)
(***************************************************************************)
EXTENDS EmulatedMeter

Meter(bus, dad, chan, addr, value, limit) ==
    [bus |-> bus, dad |-> dad, sad |-> 2, chan |-> chan, addr |-> addr, value |-> value,
     faults |-> limit]

Meters == {Meter("sps", 3, 1, 12, <<7, 0, 0, 0>>, 1), Meter("sps", 16, 0, 5, <<7, 0, 0, 0>>, 1),
           Meter("m4", 99, 0, 300, <<0, 0, 224, 64>>, 2),
           Meter("m4short", 1, 0, 300, <<0, 0, 224, 64>>, 2),
           Meter("m4short", 1, 0, 300, <<172, 22, 224, 64>>, 1)}
===============================================================================
