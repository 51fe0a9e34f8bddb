---------------------------- MODULE ClusterObjects ----------------------------
(***************************************************************************)
(* What the telemetry components see of a cluster: workload objects in a   *)
(* monitored namespace, their resource versions, and the events about      *)
(* them.  All of it belongs to the Kubernetes API server.                  *)
(*                                                                         *)
(* Resource versions count the changes of all objects.  An owner is older  *)
(* than what it owns, and an object that is deleted does not come back     *)
(* under its name.                                                         *)
(***************************************************************************)
EXTENDS Naturals, Sequences, FiniteSets

CONSTANTS
    Objects,        \* pods, replica sets, deployments ...
    Pods,           \* those of Objects that are pods
    Owner,          \* [Objects -> Objects \cup {None}]: the first relevant owner
    None,
    Existing,       \* the objects that are older than the collector, a sequence
    MaxVersions,    \* bound on the versions of all objects
    MaxEvents,      \* bound on the events
    MaxFaults       \* bound on what disturbs the collector: failures, reloads, evictions,
                    \* deletions, pods without an address

ASSUME ClusterOK ==
    /\ None \notin Objects /\ Pods \subseteq Objects
    /\ Pods \cap {"nowhere", "elsewhere"} = {}
    /\ Owner \in [Objects -> Objects \cup {None}]
    /\ Existing \in Seq(Objects)
    /\ MaxVersions \in Nat /\ Len(Existing) <= MaxVersions
    /\ MaxEvents \in Nat /\ MaxFaults \in Nat

Versions == 1..MaxVersions

VARIABLES
    history,        \* history[v] is the object that version v is a version of
    stored,         \* each object's current version, 0 if it does not exist
    events,         \* events[n] is the version the n-th event refers to
    addressless,    \* the first pod without an IP address: a pod here, "elsewhere" or "nowhere"
    faults          \* what MaxFaults counts

cluster == <<history, stored, events, addressless>>

Places == Pods \cup {"nowhere", "elsewhere"}

ClusterTypeOK ==
    /\ history \in Seq(Objects) /\ Len(history) <= MaxVersions
    /\ stored \in [Objects -> 0..Len(history)]
    /\ \A o \in Objects : stored[o] # 0 => history[stored[o]] = o
    /\ events \in Seq(1..Len(history)) /\ Len(events) <= MaxEvents
    /\ addressless \in Places
    /\ addressless \in Pods => stored[addressless] # 0
    /\ faults \in 0..MaxFaults

ClusterInit ==
    /\ history = Existing /\ events = <<>>
    /\ stored \in [Objects -> 0..Len(Existing)]
    /\ \A o \in Objects :
          IF stored[o] = 0 THEN \A v \in DOMAIN Existing : Existing[v] # o
          ELSE Existing[stored[o]] = o /\ \A v \in DOMAIN Existing : Existing[v] = o => v <= stored[o]
    /\ addressless = "nowhere" /\ faults = 0

Exists(o) == stored[o] # 0

Disturbed == faults < MaxFaults /\ faults' = faults + 1

Change(o) ==
    /\ Len(history) < MaxVersions
    /\ \/ Exists(o)
       \/ /\ \A v \in 1..Len(history) : history[v] # o
          /\ Owner[o] = None \/ Exists(Owner[o])
    /\ history' = Append(history, o)
    /\ stored' = [stored EXCEPT ![o] = Len(history) + 1]
    /\ UNCHANGED <<events, addressless>>

Delete(o) ==
    /\ Exists(o)
    /\ stored' = [stored EXCEPT ![o] = 0]
    /\ addressless' = IF addressless = o THEN "nowhere" ELSE addressless
    /\ UNCHANGED <<history, events>>

(* An event refers to the version its author knew. *)
EmitEvent ==
    /\ Len(events) < MaxEvents
    /\ \E v \in 1..Len(history) : events' = Append(events, v)
    /\ UNCHANGED <<history, stored, addressless>>

(* A pod waits for its address, in whichever namespace, or no longer. *)
MoveAddressless ==
    /\ addressless' \in ({"nowhere", "elsewhere"} \cup {p \in Pods : Exists(p)}) \ {addressless}
    /\ UNCHANGED <<history, stored, events>>

Cluster ==
    \/ (EmitEvent \/ \E o \in Objects : Change(o)) /\ UNCHANGED faults
    \/ (MoveAddressless \/ \E o \in Objects : Delete(o)) /\ Disturbed
=============================================================================
