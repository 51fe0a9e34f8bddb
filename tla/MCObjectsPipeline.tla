--------------------------- MODULE MCObjectsPipeline ---------------------------
(* Values of the constants of ObjectsPipeline for TLC. *)
EXTENDS ObjectsPipeline, TLC

CONSTANTS runner, job       \* a pod that creates a Job, and owns it

RunnerAndJob == {runner, job}

OnePod == {runner}

RunnerOwns == (job :> runner) @@ (runner :> None)

RunnerFirst == <<runner>>

ListAndEvents == {<<"objects", "pull">>, <<"events", "watch">>}
===============================================================================
