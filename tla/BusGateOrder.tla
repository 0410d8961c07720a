----------------------------- MODULE BusGateOrder -----------------------------
(***************************************************************************)
(* How long a gate waits for the link lock.  LinkLocker keeps no queue, but *)
(* the gates are ticked in the fixed order of their index, and a gate that  *)
(* has given the lock back needs more than one tick before it asks again.   *)
(* The history variable "passed" records, for each waiting gate, who got    *)
(* the lock in the meantime.                                                *)
(***************************************************************************)
EXTENDS BusGate

VARIABLE passed   \* passed[g]: the gates served since g began to wait

hvars == <<vars, passed>>

Waiting(g) == state[g] = "waitingForLinkLock"
Acquires(g) == Waiting(g) /\ state'[g] = "connect"

OrderInit == Init /\ passed = [g \in Gate |-> {}]

OrderNext ==
    /\ Next
    /\ passed' = [g \in Gate |-> IF Waiting(g) /\ ~Acquires(g)
                                 THEN passed[g] \cup {h \in Gate : Acquires(h)}
                                 ELSE {}]

OrderSpec == OrderInit /\ [][OrderNext]_hvars

\* With the fairness of Spec; passed adds nothing to what can happen.
FairOrderSpec == /\ OrderSpec
                 /\ WF_vars(MainLoop)
                 /\ \A g \in Gate : WF_vars(Expire(g))

\* A waiting gate is overtaken at most once by each other gate, so it is served
\* after at most N - 1 sessions of others.
OvertakenOnce ==
    [][\A g, h \in Gate : g # h /\ Waiting(g) /\ Acquires(h) => h \notin passed[g]]_hvars

\* Ticks from the turn of x to the turn of gate g.
Dist(x, g) == IF x <= g THEN g - x ELSE (g + N + 1) - x

\* Why: whoever overtook g sits behind the next one to be asked, counted in ticks
\* before g's own; while the lock is held, the holder takes the place of the next.
OrderInv ==
    \A g \in Gate : Waiting(g) =>
        \A k \in passed[g] :
            /\ k \in Gate
            /\ k # g
            /\ ~busy => Dist(k, g) > Dist(turn, g)
            /\ \A h \in Gate : InSession(h) => k = h \/ Dist(k, g) > Dist(h, g)
=============================================================================
