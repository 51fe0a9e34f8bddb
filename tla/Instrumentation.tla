--------------------------- MODULE Instrumentation ---------------------------
(***************************************************************************)
(* What the operator does to one workload: the two mutators of             *)
(* controller/src/mutation and the injector webhook's admission decision.  *)
(* A workload is reduced to the value of its lumigo.auto-trace label and   *)
(* to whether its pod template carries Lumigo's instrumentation; the init  *)
(* container, volume, mounts and variables that make up the                *)
(* instrumentation are added and removed together by the code.             *)
(***************************************************************************)

(* The label's value: "none" (no label), what users write ("true",         *)
(* "false", and "False" for any other spelling of false), and what the     *)
(* operator writes: "skip" is skip-next-injector and "lumigo" is           *)
(* lumigo-operator.v<version>.                                             *)
Labels == {"none", "true", "false", "False", "skip", "lumigo"}

Kinds == {"DaemonSet", "Deployment", "ReplicaSet", "StatefulSet", "CronJob", "Job"}

Workload == [label : Labels, inst : BOOLEAN]

(* What never changes in a workload: its kind, whether it is a ReplicaSet  *)
(* owned by a Deployment, and whether its pod template has a container     *)
(* with no environment variable of its own.                                *)
Traits == [kind : Kinds, owned : BOOLEAN, bareEnv : BOOLEAN]

(***************************************************************************)
(* The injecting and the removing mutator.                                 *)
(***************************************************************************)

(* validateShouldInjectLumigoInto: opting out ignores the label's case. *)
OptsOut(w) == w.label \in {"false", "False"}

(* The mutator returns an error. *)
InjectionRefused(t, w) == ~t.owned /\ OptsOut(w)

(* Mutant: opting out is not looked at. *)
InjectionMutatesAll(t, w) == ~t.owned /\ ~w.inst

(* The mutator reports that a mutation occurred. *)
InjectionMutates(t, w) == ~t.owned /\ ~OptsOut(w) /\ ~w.inst

Injected(w) == [label |-> "lumigo", inst |-> TRUE]

(* The removing mutator always rebuilds a container's environment, so a    *)
(* container without variables makes it report a mutation although nothing *)
(* was instrumented.                                                       *)
RemovalMutates(t, w) == ~t.owned /\ (w.inst \/ t.bareEnv)

(* Used by the controller only together with the skip-next-injector label, *)
(* which stops the injector webhook from undoing the removal.              *)
Removed(w) == [label |-> "skip", inst |-> FALSE]

(***************************************************************************)
(* The label selectors the sweeps list with.                               *)
(***************************************************************************)

(* "!lumigo.auto-trace" *)
NotAutoTraced(w) == w.label = "none"

(* "lumigo.auto-trace,lumigo.auto-trace != false": selectors compare the   *)
(* value exactly.                                                          *)
AutoTraced(w) == w.label \notin {"none", "false"}

(***************************************************************************)
(* The injector webhook.  A decision is "leave" (the webhook is down, the  *)
(* governing Lumigo is not active or has injection disabled), "byLabel"    *)
(* (no Lumigo in the namespace) or "inject".                               *)
(***************************************************************************)

Decisions == {"leave", "byLabel", "inject"}

(* newResourceAdapter: its DaemonSet case is spelled "apps/v1.Daemonset",  *)
(* which no request carries.                                               *)
WebhookHandles(t) == t.kind # "DaemonSet"

(* processResourceInjection; an injection error leaves the object as sent. *)
Processed(t, w) ==
    IF w.label = "skip" THEN [w EXCEPT !.label = "none"]
    ELSE IF InjectionMutates(t, w) THEN Injected(w)
    ELSE w

(* What the API server stores when w is sent and the webhook decides d. *)
Admitted(t, w, d) ==
    IF /\ WebhookHandles(t)
       /\ d = "inject" \/ (d = "byLabel" /\ w.label = "true")
    THEN Processed(t, w)
    ELSE w

(* The API server rejects a change of a Job's pod template. *)
Acceptable(t, old, new) == t.kind = "Job" => new.inst = old.inst
=============================================================================
