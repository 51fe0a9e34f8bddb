---------------------------- MODULE LumigoLifecycle ----------------------------
(***************************************************************************)
(* What the API server, the users and the operator together make of each   *)
(* Lumigo: it is created, the operator takes it into its keeping with a    *)
(* finalizer, a user asks for its deletion, the operator releases it, and  *)
(* it is gone, unless someone else's finalizer holds it a while longer.    *)
(* No step is ever taken back within one life, and a name that is used     *)
(* again begins another one.                                               *)
(***************************************************************************)
EXTENDS Naturals

CONSTANT Lumigoes

VARIABLES
    life,       \* which creation each Lumigo is, 0 if there is none
    lives,      \* how many there have been
    stage       \* how far it got

record == <<life, lives, stage>>

Stages == {"absent", "new", "kept", "leaving", "held"}

(* Lumigoes that are there from the start are in the operator's keeping.   *)
Init ==
    /\ lives \in Nat /\ life \in [Lumigoes -> Nat] /\ stage \in [Lumigoes -> {"absent", "kept"}]
    /\ \A l \in Lumigoes : life[l] <= lives /\ (stage[l] = "absent" <=> life[l] = 0)

Become(l, next) ==
    /\ stage' = [stage EXCEPT ![l] = next]
    /\ life' = [life EXCEPT ![l] = IF next = "absent" THEN 0 ELSE @]
    /\ UNCHANGED lives

Create(l) ==
    /\ stage[l] = "absent" /\ lives' = lives + 1
    /\ stage' = [stage EXCEPT ![l] = "new"] /\ life' = [life EXCEPT ![l] = lives']

Keep(l) == stage[l] = "new" /\ Become(l, "kept")

AskToDelete(l) ==
    \/ stage[l] = "new" /\ \E next \in {"absent", "held"} : Become(l, next)
    \/ stage[l] = "kept" /\ Become(l, "leaving")

Release(l) == stage[l] = "leaving" /\ \E next \in {"absent", "held"} : Become(l, next)

End(l) == stage[l] = "held" /\ Become(l, "absent")

Next == \E l \in Lumigoes : Create(l) \/ Keep(l) \/ AskToDelete(l) \/ Release(l) \/ End(l)

Spec == Init /\ [][Next]_record
================================================================================
