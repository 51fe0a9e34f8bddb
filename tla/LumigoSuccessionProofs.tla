------------------------ MODULE LumigoSuccessionProofs ------------------------
(***************************************************************************)
(* The abstract specification of a namespace's Lumigoes keeps its promise. *)
(***************************************************************************)
EXTENDS LumigoSuccession, TLAPS

LEMMA InitOrder == Init => Order
  BY DEF Init, Order, Present

LEMMA NextOrder == Order /\ [Next]_realm => Order'
  <1> SUFFICES ASSUME Order, [Next]_realm PROVE Order'
    OBVIOUS
  <1> USE DEF Order, Present, Eldest
  <1>1. ASSUME NEW l \in Lumigoes, Arrive(l) PROVE Order'
    BY <1>1 DEF Arrive
  <1>2. ASSUME NEW l \in Lumigoes, Accede(l) PROVE Order'
    BY <1>2 DEF Accede
  <1>3. ASSUME NEW l \in Lumigoes, Abdicate(l) PROVE Order'
    BY <1>3 DEF Abdicate
  <1>4. ASSUME NEW l \in Lumigoes, Leave(l) PROVE Order'
    BY <1>4 DEF Leave
  <1>5. ASSUME UNCHANGED realm PROVE Order'
    BY <1>5 DEF realm
  <1> QED  BY <1>1, <1>2, <1>3, <1>4, <1>5 DEF Next

LEMMA OrderImplies == Order => OneGoverns
  BY DEF Order, OneGoverns, Present, Eldest

(* Whatever implements the succession has at most one active Lumigo in a   *)
(* namespace, however many come and go.                                    *)
THEOREM SuccessionIsUnique == Spec => []OneGoverns
  BY InitOrder, NextOrder, OrderImplies, PTL DEF Spec
===============================================================================
