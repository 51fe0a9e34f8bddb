---------------------------- MODULE ObjectsPipeline ----------------------------
(***************************************************************************)
(* The events and objects of a monitored namespace on their way from the   *)
(* API server to Lumigo: the receiver's goroutines call the enricher, then *)
(* events-config.yaml.tpl filters a batch, routes it to the namespace's    *)
(* pipeline, which enriches it again and exports it.                       *)
(***************************************************************************)
EXTENDS ObjectsReceiver, DataEnricher

ASSUME PipelineOK == Pipelines = Goroutines

VARIABLES
    exported,       \* the versions of objects sent to Lumigo
    lost            \* versions taken from the channel that the pipelines dropped

vars == <<cluster, receiving, enricher, exported, lost, faults>>

TypeOK ==
    /\ ClusterTypeOK /\ ReceiverTypeOK /\ EnricherTypeOK
    /\ exported \subseteq Versions /\ lost \subseteq Versions
    /\ \A g \in Goroutines : receiver[g] = "busy" <=> ~At(g, "idle")

Init ==
    /\ ClusterInit /\ ReceiverInit /\ EnricherInit
    /\ exported = {} /\ lost = {}

sent == <<exported, lost>>

(* ConsumeLogs: a batch enters the pipeline of all namespaces. *)
Consume(g) ==
    /\ \E records \in Readable(g) :
          /\ Receive(g, records)
          /\ Starts(g, [Rest EXCEPT !.records = records, !.todo = records])
    /\ UNCHANGED <<cluster, caches, seen, queue, faults, sent>>

(* routing/k8s_objects looks at metadata.namespace, which listed objects   *)
(* and those of the channel have; routing/k8s_events at involvedObject or  *)
(* rootOwnerReference, which listed events have.                           *)
RoutedRecords(g) == IF work[g].kept /\ Pulls(g) THEN work[g].records ELSE {}

RoutedCarry(g) == IF work[g].kept /\ ~ConcernsEvents(g) THEN Carry(g) ELSE {}

(* filter/only_monitored_namespaces and the routing connectors: the batch  *)
(* goes on to the namespace's pipeline, or nothing of it does.  Versions   *)
(* that a list brought to the channel still tell their kind and are        *)
(* registered once more; those of informers and lookups do not.            *)
Route(g) ==
    /\ work[g].stage = "unified" /\ Drained(g)
    /\ lost' = lost \cup (Carry(g) \ RoutedCarry(g))
    /\ IF RoutedRecords(g) \cup RoutedCarry(g) = {}
       THEN Goes(g, Rest) /\ ConsumeReturns(g)
       ELSE /\ \E again \in SUBSET RoutedCarry(g) :
                  Starts(g, [Rest EXCEPT !.stage = "namespace", !.records = RoutedRecords(g),
                                         !.todo = RoutedRecords(g) \cup again,
                                         !.carry = RoutedCarry(g), !.kept = TRUE])
            /\ UNCHANGED receiving
    /\ UNCHANGED exported

Export(g) ==
    /\ work[g].stage = "namespace" /\ Drained(g)
    /\ exported' = exported \cup Carry(g) \cup IF ConcernsEvents(g) THEN {} ELSE work[g].records
    /\ Goes(g, Rest) /\ ConsumeReturns(g)
    /\ UNCHANGED lost

Leave(g) ==
    /\ Route(g) \/ Export(g)
    /\ UNCHANGED <<cluster, caches, seen, faults>>

Receiving(g) ==
    /\ RegisterStopper(g) \/ GetResourceVersion(g) \/ Stops(g)
    /\ UNCHANGED <<cluster, enricher, sent, faults>>

Inside == UNCHANGED <<cluster, receiving, sent>>

Enriching(g) == Enrich(g) /\ Inside /\ UNCHANGED faults

Sending == \E v \in unsent : Send(v) /\ Inside /\ UNCHANGED faults

Informing(o) == Inform(o) /\ Inside /\ UNCHANGED faults

Disturb ==
    /\ Disturbed
    /\ \/ \E g \in Goroutines : Faulty(g) /\ UNCHANGED <<cluster, enricher, sent>>
       \/ Reload /\ UNCHANGED <<cluster, enricher, sent>>
       \/ \E g \in Goroutines : RequestFails(g) /\ Inside
       \/ (Evict \/ InformAgain) /\ Inside

Next ==
    \/ \E g \in Goroutines : Consume(g) \/ Leave(g) \/ Receiving(g) \/ Enriching(g)
    \/ Sending
    \/ \E o \in Objects : Informing(o)
    \/ Disturb
    \/ Cluster /\ UNCHANGED <<receiving, enricher, sent>>

(* Goroutines run, tickers tick and informers follow existing objects. *)
Fairness ==
    /\ \A g \in Goroutines : WF_vars(Consume(g) \/ Leave(g) \/ Receiving(g) \/ Enriching(g))
    /\ WF_vars(Sending)
    /\ WF_vars(\E o \in Objects : Exists(o) /\ Informing(o))

Spec == Init /\ [][Next]_vars

FairSpec == Spec /\ Fairness

-------------------------------------------------------------------------------
(* Properties *)

Carried == UNION {work[g].carry : g \in Goroutines}

(* What the cache has seen is on its way, sent or dropped by the pipelines. *)
Announced == unsent \cup queue \cup Carried \cup exported \cup lost

(* A version whose key is in the cache is never announced again, so it     *)
(* must not get stuck or vanish between the cache and the pipelines        *)
(* (lruWithIndexer.Add, the goroutine it starts, processResourceLogs).     *)
NothingVanishes == cached \subseteq Announced

(* When EnsureObjectReferenceIsKnown reports no error, the version of the  *)
(* object that the event refers to or a later one has been announced.      *)
EventAnswered ==
    \A g \in Goroutines : At(g, "record") /\ work[g].ref # 0 =>
        \E v \in Announced : v >= work[g].ref /\ history[v] = history[work[g].ref]

(* Pulling repairs what watches, evictions and failures left out: in the   *)
(* end the current version of every object has been sent, unless a pod     *)
(* without an address elsewhere takes the batches with it.                 *)
CurrentExported ==
    <>[](addressless # "elsewhere" => \A o \in Objects : Exists(o) => stored[o] \in exported)

SomethingToPull == \E g \in Goroutines : Pulls(g) /\ Readable(g) # {}

(* What is in the channel or waits for room in it is taken time and again, *)
(* as long as there is something to pull: without a batch nobody looks.    *)
QueueDrains == []<>(unsent \cup queue = {} \/ ~SomethingToPull)

(* In the end, traces find a pod's current version under its UID, whatever *)
(* the order in which informer and pipelines wrote it.                     *)
PodCacheFresh == <>[](\A p \in Pods : Exists(p) => byUid[p] = stored[p])
===============================================================================
