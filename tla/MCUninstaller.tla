----------------------------- MODULE MCUninstaller -----------------------------
(* Values of the constants of Uninstaller for TLC. *)
EXTENDS Uninstaller, TLC

CONSTANTS a, b, l1, l2, app, agent, c1, current, earlier

MCLumigoNamespace == (l1 :> a) @@ (l2 :> b)

MCWorkloadNamespace == (app :> a) @@ (agent :> b)

(* The webhook does not see the agent. *)
MCTraits == [w \in Workloads |->
    [kind |-> IF w = agent THEN "DaemonSet" ELSE "Deployment", owned |-> FALSE,
     bareEnv |-> FALSE]]

Unused(names) == [n \in names |-> None]

(* A container that has nothing, and one that preloads a library of its    *)
(* own and mounts a volume of its own.                                     *)
Plain ==
    [volumes |-> Unused(Things), initContainers |-> Unused(Things),
     containers |-> [c \in Containers |-> [mounts |-> Unused(Paths), env |-> Unused(Variables)]]]

Preloading ==
    [volumes |-> [Unused(Things) EXCEPT !["own"] = "emptyDir"],
     initContainers |-> [Unused(Things) EXCEPT !["own"] = "own"],
     containers |-> [c \in Containers |->
        [mounts |-> [Unused(Paths) EXCEPT !["own"] = "own"],
         env |-> [Unused(Variables) EXCEPT !["own"] = "own", !["LD_PRELOAD"] = "own"]]]]

MCUserTemplates == (app :> {Plain, Preloading}) @@ (agent :> {Plain})
================================================================================
