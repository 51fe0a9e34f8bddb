---------------------------- MODULE ObjectsReceiver ----------------------------
(***************************************************************************)
(* telemetryproxy/src/receiver/k8sobjectsreceiver: the goroutines that     *)
(* pull and watch objects, as events-config.yaml.tpl configures them: each *)
(* type both pulled and watched.  A goroutine hands its logs to the        *)
(* pipeline itself and is busy until the pipeline returns.                 *)
(*                                                                         *)
(* The collector reloads its configuration whenever a namespace is         *)
(* added or removed: the receiver is shut down and a new one started.  A   *)
(* goroutine that has seen the shutdown stands for its successor from      *)
(* then on.                                                                *)
(***************************************************************************)
EXTENDS ClusterObjects

CONSTANT Goroutines     \* <<what, how>>, a subset of AllGoroutines

AllGoroutines == {"objects", "events"} \X {"pull", "watch"}

ASSUME ReceiverOK == Goroutines \subseteq AllGoroutines

VARIABLES
    receiver,       \* the state of each goroutine
    position,       \* how many changes or events a watch has seen
    closed          \* the goroutines whose stopper channel is closed

receiving == <<receiver, position, closed>>

(* "new": started, no stopper registered yet; "list": a watch asks for a   *)
(* resource version to start from; "waiting": in its select; "busy":       *)
(* within ConsumeLogs; "ended": a watch that gave up.                      *)
ReceiverStates == {"new", "list", "waiting", "busy", "ended"}

ReceiverTypeOK ==
    /\ receiver \in [Goroutines -> ReceiverStates]
    /\ position \in [Goroutines -> Nat]
    /\ closed \subseteq Goroutines

ReceiverInit ==
    /\ receiver = [g \in Goroutines |-> "new"]
    /\ position = [g \in Goroutines |-> 0]
    /\ closed = {}

Pulls(g) == g[2] = "pull"

ConcernsEvents(g) == g[1] = "events"

(* What a watch of g's type goes through. *)
Stream(g) == IF ConcernsEvents(g) THEN events ELSE [v \in 1..Len(history) |-> v]

Become(g, state) == receiver' = [receiver EXCEPT ![g] = state]

(* startPull, startWatch: the stopper is put on the list. *)
RegisterStopper(g) ==
    /\ receiver[g] = "new"
    /\ Become(g, IF Pulls(g) THEN "waiting" ELSE "list")
    /\ UNCHANGED <<position, closed>>

(* getResourceVersion: the list's version, so that a watch begins with     *)
(* what changes from then on.                                              *)
GetResourceVersion(g) ==
    /\ receiver[g] = "list"
    /\ position' = [position EXCEPT ![g] = Len(Stream(g))]
    /\ Become(g, "waiting")
    /\ UNCHANGED closed

(* The list fails: the watch is cancelled. *)
ListFails(g) ==
    /\ receiver[g] = "list"
    /\ Become(g, "ended")
    /\ UNCHANGED <<position, closed>>

(* doWatch: 410 Gone starts over with a fresh resource version. *)
Gone(g) ==
    /\ receiver[g] = "waiting" /\ ~Pulls(g) /\ position[g] < Len(Stream(g))
    /\ Become(g, "list")
    /\ UNCHANGED <<position, closed>>

(* doWatch: after any other error the result channel is closed, and the    *)
(* watch is done.                                                          *)
ChannelCloses(g) ==
    /\ receiver[g] = "waiting" /\ ~Pulls(g)
    /\ Become(g, "ended")
    /\ UNCHANGED <<position, closed>>

(* What goroutine g may have read when it calls ConsumeLogs: the whole of a *)
(* list that is not empty, or a watch's next change or event.              *)
Readable(g) ==
    IF ~Pulls(g) THEN IF position[g] < Len(Stream(g)) THEN {{Stream(g)[position[g] + 1]}} ELSE {}
    ELSE (IF ConcernsEvents(g) THEN {{events[n] : n \in DOMAIN events}}
          ELSE {{stored[o] : o \in {p \in Objects : Exists(p)}}}) \ {{}}

Receive(g, records) ==
    /\ receiver[g] = "waiting" /\ records \in Readable(g)
    /\ position' = IF Pulls(g) THEN position ELSE [position EXCEPT ![g] = @ + 1]
    /\ Become(g, "busy")
    /\ UNCHANGED closed

ConsumeReturns(g) ==
    /\ receiver[g] = "busy"
    /\ Become(g, "waiting")
    /\ UNCHANGED <<position, closed>>

(* Shutdown closes the stoppers on the list; the new receiver's Start      *)
(* replaces goroutines that have ended.                                    *)
Reload ==
    /\ closed' = {g \in Goroutines : receiver[g] \in {"list", "waiting", "busy"}}
    /\ receiver' = [g \in Goroutines |-> IF receiver[g] = "ended" THEN "new" ELSE receiver[g]]
    /\ UNCHANGED position

(* The select sees the closed stopper. *)
Stops(g) ==
    /\ receiver[g] = "waiting" /\ g \in closed
    /\ closed' = closed \ {g}
    /\ Become(g, "new")
    /\ UNCHANGED position

Faulty(g) == ListFails(g) \/ Gone(g) \/ ChannelCloses(g)
=============================================================================
