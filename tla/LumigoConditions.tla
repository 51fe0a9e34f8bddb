--------------------------- MODULE LumigoConditions ---------------------------
(***************************************************************************)
(* The Active and Error conditions in the status of a Lumigo resource:     *)
(* controller/src/controllers/conditions.  Each condition is missing       *)
(* ("unset"), "True" or "False"; o is any record with the fields active    *)
(* and error.                                                              *)
(***************************************************************************)

ConditionStatus == {"unset", "True", "False"}

(* updateLumigoConditions: a missing condition is only added as "True". *)
Updated(old, new) == IF old = "unset" /\ new # "True" THEN "unset" ELSE new

SetActive(o, status) == [o EXCEPT !.active = Updated(o.active, status)]

(* Mutant: an error stays. *)
ClearErrorNever(o) == o

ClearError(o) == [o EXCEPT !.error = Updated(o.error, "False")]

(* Mutant: the Active condition stays. *)
SetErrorOnly(o) == [o EXCEPT !.error = "True"]

(* SetErrorAndActiveConditions *)
SetError(o) == [SetActive(o, "False") EXCEPT !.error = Updated(o.error, "True")]

IsActive(o) == o.active = "True"

(* The reconciler takes a Lumigo without an Active condition for one that  *)
(* has just been created.                                                  *)
JustCreated(o) == o.active = "unset"
=============================================================================
