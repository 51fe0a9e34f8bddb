----------------------------- MODULE DataEnricher -----------------------------
(***************************************************************************)
(* telemetryproxy/src/processor/k8sdataenricherprocessor: the cache of     *)
(* object versions that informers and log pipelines fill, and the channel  *)
(* on which versions that are new to the cache wait to be sent downstream. *)
(*                                                                         *)
(* The cache of every kind is an LRU with two keys for an object: one for  *)
(* the version, namespace/name@version, and a generic one, namespace/name. *)
(* Only the owner references are read from what the generic key holds, and *)
(* those of an object do not change: all that matters of a key is whether  *)
(* it is there.                                                            *)
(*                                                                         *)
(* A goroutine of the receiver is on its way through processLogs; the      *)
(* informers' listeners and the goroutines that Add starts run beside it.  *)
(***************************************************************************)
EXTENDS ClusterObjects

CONSTANTS
    Pipelines,      \* the goroutines that run processLogs
    QueueSize       \* the capacity of ObjectResourceVersions

ASSUME EnricherOK == QueueSize \in Nat \ {0}

VARIABLES
    cached,         \* the versions that have a key
    generic,        \* the objects that have a generic key
    byUid,          \* what podUIDCache holds, 0 if nothing
    seen,           \* the newest version the informers' handlers have seen
    unsent,         \* versions in goroutines that wait to send on the channel
    queue,          \* the channel, its order and duplicates left out
    work            \* what each goroutine is doing

caches == <<cached, generic, byUid, unsent>>

enricher == <<caches, seen, queue, work>>

(* pc: "record" is the loop over the log records, "walk" the walk to the   *)
(* root owner, "ensure" the lookup of an event's object, "fetched" an      *)
(* answer of the API server that has not been registered.                  *)
Work == [
    pc      : {"idle", "record", "walk", "ensure", "fetched"},
    stage   : {"unified", "namespace"},     \* which of the two pipelines it is in
    records : SUBSET Versions,              \* the batch: objects, or what events refer to
    todo    : SUBSET Versions,              \* the records still to be enriched
    ref     : 0..MaxVersions,               \* what the event being enriched refers to
    at      : Objects \cup {None},          \* where the walk is
    got     : 0..MaxVersions,               \* the answer
    carry   : SUBSET Versions,              \* the versions taken from the channel
    kept    : BOOLEAN]                      \* the batch passes the namespace filter

Rest == [pc |-> "idle", stage |-> "unified", records |-> {}, todo |-> {}, ref |-> 0, at |-> None,
         got |-> 0, carry |-> {}, kept |-> FALSE]

EnricherTypeOK ==
    /\ cached \subseteq Versions /\ unsent \subseteq Versions /\ queue \subseteq Versions
    /\ Cardinality(queue) <= QueueSize
    /\ generic \subseteq Objects
    /\ byUid \in [Pods -> 0..MaxVersions] /\ seen \in [Objects -> 0..MaxVersions]
    /\ work \in [Pipelines -> Work]

EnricherInit ==
    /\ cached = {} /\ generic = {} /\ unsent = {} /\ queue = {}
    /\ byUid = [p \in Pods |-> 0] /\ seen = [o \in Objects |-> 0]
    /\ work = [t \in Pipelines |-> Rest]

VersionsOf(o) == {v \in 1..Len(history) : history[v] = o}

At(t, pc) == work[t].pc = pc

Goes(t, w) == work' = [work EXCEPT ![t] = w]

(* Both handlers and RegisterPod write the cache by UID, whether or not    *)
(* the version is new; of several versions of a pod in a batch, one is     *)
(* last.                                                                   *)
CachedByUid(versions) ==
    /\ byUid' \in [Pods -> 0..MaxVersions]
    /\ \A p \in Pods :
          LET given == {v \in versions : history[v] = p}
          IN  byUid'[p] \in IF given = {} THEN {byUid[p]} ELSE given

(* Mutant: the cache by UID is only written for versions that are new. *)
RegisterNewOnly(versions) ==
    LET new == versions \ cached
    IN  /\ cached' = cached \cup new
        /\ generic' = generic \cup {history[v] : v \in new}
        /\ unsent' = unsent \cup new
        /\ CachedByUid(new)

(* lruWithIndexer.Add, for every version of a batch: one that has a key is *)
(* left alone; else both keys are added and a goroutine sends the object.  *)
Register(versions) ==
    LET new == versions \ cached
    IN  /\ cached' = cached \cup new
        /\ generic' = generic \cup {history[v] : v \in new}
        /\ unsent' = unsent \cup new
        /\ CachedByUid(versions)

(* The LRU makes room. *)
Evict ==
    /\ \/ \E v \in cached : cached' = cached \ {v} /\ UNCHANGED generic
       \/ \E o \in generic : generic' = generic \ {o} /\ UNCHANGED cached
    /\ UNCHANGED <<byUid, seen, unsent, queue, work>>

(* Mutant: the send does not wait for room, and the channel grows. *)
SendWithoutRoom(v) ==
    /\ v \in unsent
    /\ queue' = queue \cup {v} /\ unsent' = unsent \ {v}
    /\ UNCHANGED <<cached, generic, byUid, seen, work>>

(* Mutant: the send gives up when the channel is full. *)
SendOrDrop(v) ==
    /\ v \in unsent /\ unsent' = unsent \ {v}
    /\ queue' = IF Cardinality(queue) < QueueSize THEN queue \cup {v} ELSE queue
    /\ UNCHANGED <<cached, generic, byUid, seen, work>>

(* The goroutine of Add: it blocks while the channel is full. *)
Send(v) ==
    /\ v \in unsent /\ Cardinality(queue) < QueueSize
    /\ queue' = queue \cup {v} /\ unsent' = unsent \ {v}
    /\ UNCHANGED <<cached, generic, byUid, seen, work>>

(* An informer tells its handlers of a newer version of o; after a lost    *)
(* connection it may leave some out.  Deletions are ignored.               *)
Inform(o) ==
    /\ \E v \in VersionsOf(o) :
          seen[o] < v /\ seen' = [seen EXCEPT ![o] = v] /\ Register({v})
    /\ UNCHANGED <<queue, work>>

(* GetPodByNetworkConnection, when the connection has no IP address: the   *)
(* first of all pods that have none either.                                *)
FoundByConnection == addressless \in Pods

(* The list after a lost connection repeats what the informer knows. *)
InformAgain ==
    /\ \E o \in Objects, v \in 1..Len(history) : seen[o] = v /\ Register({v})
    /\ UNCHANGED <<seen, queue, work>>

(* Mutant: a list's resource has no namespace either. *)
StartedWithoutNamespace(t, w) ==
    IF FoundByConnection
    THEN [w EXCEPT !.kept = TRUE, !.pc = "fetched", !.got = stored[addressless], !.at = addressless]
    ELSE [w EXCEPT !.pc = "record"]

(* addResourceAttributes: the batch carries no pod UID, so the pod is that *)
(* of the connection.  If there is one, its namespace becomes the batch's, *)
(* and it and its owners are looked up.  Otherwise only a list has brought *)
(* a namespace.                                                            *)
Started(t, w) ==
    IF FoundByConnection
    THEN [w EXCEPT !.kept = TRUE, !.pc = "fetched", !.got = stored[addressless], !.at = addressless]
    ELSE [w EXCEPT !.kept = @ \/ (addressless = "nowhere" /\ t[2] = "pull"), !.pc = "record"]

(* The API server may not answer retry's requests for the pod, time and    *)
(* again.                                                                  *)
Unlocated(t, w) == [w EXCEPT !.kept = @ \/ t[2] = "pull", !.pc = "record"]

Starts(t, w) == Goes(t, Started(t, w)) \/ (addressless # "nowhere" /\ Goes(t, Unlocated(t, w)))

(* The log records of objects are registered, but for watched ones, which  *)
(* are wrapped, so that their kind is not recognised.                      *)
ObjectRecords(t) ==
    /\ At(t, "record") /\ t[1] = "objects" /\ work[t].todo # {}
    /\ Goes(t, [work[t] EXCEPT !.todo = {}])
    /\ IF t[2] = "watch" /\ work[t].stage = "unified" THEN UNCHANGED caches
       ELSE Register(work[t].todo)

(* The next log record of an event: first its owners are looked up. *)
EventRecord(t) ==
    /\ At(t, "record") /\ t[1] = "events"
    /\ \E v \in work[t].todo :
          Goes(t, [work[t] EXCEPT !.todo = @ \ {v}, !.ref = v, !.pc = "walk", !.at = history[v]])
    /\ UNCHANGED caches

(* The walk is over: an event's object is next, if it was an event's. *)
AtRoot(w) == [w EXCEPT !.pc = IF w.ref = 0 THEN "record" ELSE "ensure", !.at = None]

(* GetRootOwnerReference, ResolveRelevantOwnerReference: up to the owner. *)
GoesUp(w) ==
    IF Owner[w.at] = None THEN AtRoot(w) ELSE [w EXCEPT !.pc = "walk", !.at = Owner[@]]

Fetched(w, v) == [w EXCEPT !.pc = "fetched", !.got = v]

(* resolveOwnerReferences: the object under the generic key, else what the *)
(* API server has.  An object that is not found has no owners.             *)
Walk(t) ==
    /\ At(t, "walk")
    /\ Goes(t, IF work[t].at \in generic THEN GoesUp(work[t])
               ELSE IF Exists(work[t].at) THEN Fetched(work[t], stored[work[t].at])
               ELSE AtRoot(work[t]))
    /\ UNCHANGED caches

(* EnsureObjectReferenceIsKnown, when the version has no key: one of the   *)
(* API server's that is not older, or an error, which is logged.           *)
FetchVersion(t) ==
    LET o == history[work[t].ref]
    IN  \/ Exists(o) /\ \E v \in VersionsOf(o) : work[t].ref <= v /\ Goes(t, Fetched(work[t], v))
        \/ ~Exists(o) /\ Goes(t, [work[t] EXCEPT !.pc = "record", !.ref = 0])

(* Mutant: any version of the object will do. *)
EnsureAnyVersion(t) ==
    /\ At(t, "ensure")
    /\ IF history[work[t].ref] \in generic THEN Goes(t, [work[t] EXCEPT !.pc = "record"])
       ELSE FetchVersion(t)
    /\ UNCHANGED caches

Ensure(t) ==
    /\ At(t, "ensure")
    /\ IF work[t].ref \in cached THEN Goes(t, [work[t] EXCEPT !.pc = "record"]) ELSE FetchVersion(t)
    /\ UNCHANGED caches

(* The answer is registered; then the walk or the batch goes on. *)
RegisterFetched(t) ==
    /\ At(t, "fetched")
    /\ Register({work[t].got})
    /\ LET w == [work[t] EXCEPT !.got = 0]
       IN  Goes(t, IF w.at = None THEN [w EXCEPT !.pc = "record"] ELSE GoesUp(w))

(* The API server does not answer any of retry's attempts: the record is   *)
(* left as it is, and its object unknown.                                  *)
RequestFails(t) ==
    /\ \/ At(t, "walk") /\ work[t].at \notin generic
       \/ At(t, "ensure") /\ work[t].ref \notin cached
    /\ Goes(t, [work[t] EXCEPT !.pc = "record", !.ref = 0, !.at = None])
    /\ UNCHANGED <<caches, seen, queue>>

Enrich(t) ==
    /\ ObjectRecords(t) \/ EventRecord(t) \/ Walk(t) \/ Ensure(t) \/ RegisterFetched(t)
    /\ UNCHANGED <<seen, queue>>

(* Mutant: only batches of events take from the channel. *)
EventsDrain(t) ==
    At(t, "record") /\ work[t].todo = {} /\ queue' = IF t[1] = "events" THEN {} ELSE queue

(* processResourceLogs: when the records are done, what is in the channel  *)
(* goes along with the batch.                                              *)
Drained(t) == At(t, "record") /\ work[t].todo = {} /\ queue' = {}

Carry(t) == work[t].carry \cup queue
===============================================================================
