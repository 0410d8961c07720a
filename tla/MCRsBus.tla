------------------------------- MODULE MCRsBus -------------------------------
(***************************************************************************)
(* Gates with two items: on meters of either class with the function codes  *)
(* they need; on meters of both classes; and with an address in either      *)
(* place that no meter has.                                                 *)
(***************************************************************************)
EXTENDS RsBusClient

All(f, t) == [legal |-> [i \in Item |-> TRUE],
              func |-> [i \in Item |-> f],
              type |-> [i \in Item |-> t]]
MixedMeters == [legal |-> [i \in Item |-> TRUE],
                func |-> [i \in Item |-> IF i = 0 THEN "RM4" ELSE "RDP"],
                type |-> [i \in Item |-> IF i = 0 THEN "long" ELSE "short"]]

NoSuchAddress(n) == [All("RDP", "short") EXCEPT !.legal = [i \in Item |-> i # n]]

Configs == {All("RM4", "long"), All("RDP", "short"), MixedMeters}
           \cup {NoSuchAddress(n) : n \in Item}
=============================================================================
