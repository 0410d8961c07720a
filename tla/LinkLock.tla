------------------------------- MODULE LinkLock -------------------------------
(***************************************************************************)
(* What the gates of spgate expect of the one lock they share before they  *)
(* open a connection to a meter gateway: at most one gate holds it, only    *)
(* the holder gives it back, it always comes back, and a gate that asks for *)
(* it is served while the program runs.  LinkLocker.hpp is a single flag    *)
(* that knows neither its holder nor who is waiting; BusGate.tla shows that *)
(* the flag together with the order in which the gates are ticked           *)
(* implements this module.                                                  *)
(***************************************************************************)
CONSTANT Gate

VARIABLES stage,  \* stage[g]: what gate g has to do with the lock
          open    \* FALSE once the program no longer runs its gates

vars == <<stage, open>>

Stage == {"away", "wants", "holds"}

TypeOK == /\ stage \in [Gate -> Stage]
          /\ open \in BOOLEAN

Init == /\ stage = [g \in Gate |-> "away"]
        /\ open = TRUE

Free == \A g \in Gate : stage[g] # "holds"

Want(g) == /\ open
           /\ stage[g] = "away"
           /\ stage' = [stage EXCEPT ![g] = "wants"]
           /\ UNCHANGED open

Grant(g) == /\ open
            /\ stage[g] = "wants"
            /\ Free
            /\ stage' = [stage EXCEPT ![g] = "holds"]
            /\ UNCHANGED open

Release(g) == /\ open
              /\ stage[g] = "holds"
              /\ stage' = [stage EXCEPT ![g] = "away"]
              /\ UNCHANGED open

Close == /\ open
         /\ open' = FALSE
         /\ UNCHANGED stage

Next == \/ \E g \in Gate : Want(g) \/ Grant(g) \/ Release(g)
        \/ Close

Safety == Init /\ [][Next]_vars

\* The lock always comes back, and no gate that keeps asking is passed over
\* for ever.
Spec == /\ Safety
        /\ \A g \in Gate : SF_vars(Grant(g)) /\ WF_vars(Release(g))
===============================================================================
