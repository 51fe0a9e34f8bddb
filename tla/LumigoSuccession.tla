--------------------------- MODULE LumigoSuccession ---------------------------
(***************************************************************************)
(* What the operator promises about the Lumigoes of one namespace, however *)
(* many are created: at most one is active, it is the one that has been    *)
(* there longest, and another one succeeds it only once it is gone.        *)
(***************************************************************************)
EXTENDS Naturals

CONSTANT Lumigoes

VARIABLES
    arrived,        \* which arrival each Lumigo was, 0 if it is not there
    arrivals,       \* how many there have been
    governing       \* the active Lumigoes

realm == <<arrived, arrivals, governing>>

Present == {l \in Lumigoes : arrived[l] # 0}

Eldest(l) == l \in Present /\ \A m \in Present : arrived[l] <= arrived[m]

Init == arrived = [l \in Lumigoes |-> 0] /\ arrivals = 0 /\ governing = {}

Arrive(l) ==
    /\ l \notin Present
    /\ arrivals' = arrivals + 1 /\ arrived' = [arrived EXCEPT ![l] = arrivals']
    /\ UNCHANGED governing

Accede(l) ==
    /\ Eldest(l)
    /\ governing' = governing \cup {l}
    /\ UNCHANGED <<arrived, arrivals>>

Abdicate(l) ==
    /\ l \in governing
    /\ governing' = governing \ {l}
    /\ UNCHANGED <<arrived, arrivals>>

Leave(l) ==
    /\ l \in Present
    /\ arrived' = [arrived EXCEPT ![l] = 0] /\ governing' = governing \ {l}
    /\ UNCHANGED arrivals

Next == \E l \in Lumigoes : Arrive(l) \/ Accede(l) \/ Abdicate(l) \/ Leave(l)

Spec == Init /\ [][Next]_realm

(* Why no two Lumigoes are ever active at once.                            *)
Order ==
    /\ arrived \in [Lumigoes -> Nat] /\ arrivals \in Nat
    /\ \A l \in Lumigoes : arrived[l] <= arrivals
    /\ \A l, m \in Present : arrived[l] = arrived[m] => l = m
    /\ governing \subseteq {l \in Present : Eldest(l)}

OneGoverns == \A l, m \in governing : l = m
===============================================================================
