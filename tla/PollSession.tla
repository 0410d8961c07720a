------------------------------ MODULE PollSession ------------------------------
(***************************************************************************)
(* What a reader of the Modbus registers may expect of a gate: it polls its *)
(* items in sessions, and a session either gives every item exactly one new *)
(* status, or is broken off and marks them all "timeout".  No item is       *)
(* skipped, no session goes on for ever, and there is always a next one.    *)
(* SpBusClient.tla and RsBusClient.tla implement this module.               *)
(***************************************************************************)
CONSTANT Item   \* the items of the gate

VARIABLES open,    \* is a session going on
          left,    \* the items that this session has not treated yet
          status   \* status[i]: the status register of item i

vars == <<open, left, status>>

Status == {"undef", "timeout", "invalid", "ready"}

TypeOK == /\ open \in BOOLEAN
          /\ left \subseteq Item
          /\ status \in [Item -> Status]

Init == /\ open = FALSE
        /\ left = {}
        /\ status = [i \in Item |-> "undef"]

Begin == /\ ~open
         /\ open' = TRUE
         /\ left' = Item
         /\ UNCHANGED status

Treat(i) == /\ open
            /\ i \in left
            /\ left' = left \ {i}
            /\ \E s \in Status \ {"undef"} : status' = [status EXCEPT ![i] = s]
            /\ UNCHANGED open

Finish == /\ open
          /\ left = {}
          /\ open' = FALSE
          /\ UNCHANGED <<left, status>>

BreakOff == /\ open
            /\ open' = FALSE
            /\ left' = {}
            /\ status' = [i \in Item |-> "timeout"]

GoOn == (\E i \in Item : Treat(i)) \/ Finish \/ BreakOff

Next == Begin \/ GoOn

Safety == Init /\ [][Next]_vars

Spec == Safety /\ WF_vars(Begin) /\ WF_vars(GoOn)
===============================================================================
