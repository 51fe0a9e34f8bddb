-------------------------- MODULE MCLumigoReconciler --------------------------
(***************************************************************************)
(* Values of the constants of LumigoReconciler for TLC.                    *)
(***************************************************************************)
EXTENDS LumigoReconciler

CONSTANTS ds, dep, cron, job   \* workloads, named for their kinds

KindName == [w \in Workloads |->
    IF w = ds THEN "DaemonSet" ELSE IF w = dep THEN "Deployment"
    ELSE IF w = cron THEN "CronJob" ELSE "Job"]

(* The DaemonSet has a container without environment variables. *)
MCTraits == [w \in Workloads |->
    [kind |-> KindName[w], owned |-> FALSE, bareEnv |-> w = ds]]

MCDistinctSeconds == [n \in 1..MaxCreations |-> n]

MCOneSecond == [n \in 1..MaxCreations |-> 1]

DefaultOnly == {DefaultSpec}

WithoutEvents == {DefaultSpec, [DefaultSpec EXCEPT !.events = FALSE]}

WithoutInjection == {DefaultSpec, [DefaultSpec EXCEPT !.injection = FALSE]}

WithoutSweeps == {DefaultSpec, [DefaultSpec EXCEPT !.onCreation = FALSE, !.onDeletion = FALSE]}
=============================================================================
