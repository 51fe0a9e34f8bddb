--------------------------- MODULE LumigoReconciler ---------------------------
(***************************************************************************)
(* One namespace seen by the Lumigo controller: its Lumigo resources, its  *)
(* workloads, the reconciler that works on them through a lagging client   *)
(* cache, the two admission webhooks that run in the same process, and the *)
(* users who change the namespace meanwhile.                               *)
(*                                                                         *)
(* An Update carries the resource version of the copy it starts from and   *)
(* the API server rejects it when that copy is no longer current.  Here a  *)
(* copy is current when it equals the stored object, which is what the     *)
(* check protects.  Reconciliation requests are not modelled: every        *)
(* reconcile of an existing Lumigo ends by asking for another one, so a    *)
(* Lumigo in the cache can be reconciled whenever the single worker is     *)
(* idle.                                                                   *)
(***************************************************************************)
EXTENDS Naturals, FiniteSets, Sequences, Instrumentation, LumigoConditions

CONSTANTS
    Lumigoes,           \* names of Lumigo resources
    Workloads,          \* names of workloads
    WorkloadTraits,     \* [Workloads -> Traits]
    UserSpecs,          \* the specs users apply
    UserLabels,         \* the labels users write
    UserOps,            \* what users do, a subset of AllUserOps
    Second,             \* Second[n]: when the n-th Lumigo was created
    MaxAttempts,        \* maxMutationRetryAttempts
    MaxUndelivered,     \* how many changes of Lumigoes the cache sees one by one
    WorkloadCacheLags,  \* whether cached workloads can be out of date
    AllowedFaults,      \* what can fail, a subset of AllFaults
    MaxCreations,       \* bound on the Lumigo resources ever created
    MaxEdits,           \* bound on the other steps of users
    MaxFaults,          \* bound on the failures
    None                \* no Lumigo is being reconciled

AllUserOps == {"createWorkload", "touch", "relabel", "deleteWorkload",
               "deleteLumigo", "deleteForeground", "editSpec", "secret"}

AllFaults == {"crash", "api", "file"}

(* The part of LumigoSpec the control flow depends on: Injection.Enabled,  *)
(* InjectLumigoIntoExistingResourcesOnCreation,                            *)
(* RemoveLumigoFromResourcesOnDeletion, and whether both Infrastructure    *)
(* and KubeEvents are enabled.                                             *)
LumigoSpec == [injection : BOOLEAN, onCreation : BOOLEAN,
          onDeletion : BOOLEAN, events : BOOLEAN]

(* What the defaulter webhook fills in. *)
DefaultSpec == [injection |-> TRUE, onCreation |-> TRUE,
                onDeletion |-> TRUE, events |-> TRUE]

ASSUME ConstantsOK ==
    /\ WorkloadTraits \in [Workloads -> Traits]
    /\ UserSpecs \subseteq LumigoSpec
    /\ UserLabels \subseteq {"none", "true", "false", "False"}
    /\ UserOps \subseteq AllUserOps
    /\ AllowedFaults \subseteq AllFaults
    /\ MaxCreations \in Nat
    /\ Second \in [1..MaxCreations -> Nat]
    /\ \A m, n \in 1..MaxCreations : m < n => Second[m] <= Second[n]
    /\ MaxAttempts \in Nat \ {0} /\ MaxUndelivered \in Nat \ {0}
    /\ MaxEdits \in Nat /\ MaxFaults \in Nat
    /\ WorkloadCacheLags \in BOOLEAN
    /\ None \notin Lumigoes

(* A stored Lumigo.  uid counts creations and is 0 when there is none;     *)
(* fin is the operator's finalizer, held another one (such as that of a    *)
(* foreground deletion); refs are the status' instrumentedResources.       *)
LumigoObject ==
    [uid : Nat, spec : LumigoSpec, fin : BOOLEAN, held : BOOLEAN, deleting : BOOLEAN,
     active : ConditionStatus, error : ConditionStatus, refs : SUBSET Workloads]

NoLumigo ==
    [uid |-> 0, spec |-> DefaultSpec, fin |-> FALSE, held |-> FALSE,
     deleting |-> FALSE, active |-> "unset", error |-> "unset", refs |-> {}]

NewLumigo(n, spec) == [NoLumigo EXCEPT !.uid = n, !.spec = spec]

Exists(o) == o.uid # 0

Absent == [label |-> "absent", inst |-> FALSE]

Present(w) == w.label # "absent"

VARIABLES
    lumigoes,       \* the Lumigo resources stored by the API server
    cache,          \* the client cache's copy of them
    undelivered,    \* what they became since, change by change
    workloads,      \* the stored workloads
    workloadCache,  \* the client cache's copy of them
    secretValid,    \* the referenced secret, as cached, holds a valid token
    monitored,      \* the namespaces file asks to collect the namespace's events
    up,             \* the controller process runs
    pc, name, read, phase, todo, attempt, found,    \* the reconcile in progress
    creations, edits, faults,                       \* what the bounds count
    dirty           \* workloads users wrote since the reconcile began

store == <<lumigoes, cache, undelivered>>
work == <<workloads, workloadCache, dirty>>
outside == <<secretValid, monitored>>
counts == <<creations, edits, faults>>
sweep == <<phase, todo, attempt>>
progress == <<pc, name, read, sweep, found>>
vars == <<store, work, outside, up, progress, counts>>

PCs == {"idle", "addFinalizer", "check", "inject", "telemetry", "listReferences",
        "remove", "dropFinalizer", "unmonitor",
        "statusReady", "statusError", "statusDeleted"}

Stores == [Lumigoes -> LumigoObject]

Works == [Workloads -> Workload \cup {Absent}]

StoreOK == lumigoes \in Stores /\ cache \in Stores /\ undelivered \in Seq(Stores)

WorkOK == workloads \in Works /\ workloadCache \in Works

OutsideOK == secretValid \in BOOLEAN /\ monitored \in BOOLEAN /\ up \in BOOLEAN

SweepOK ==
    /\ phase \in 0..5 /\ todo \subseteq Workloads
    /\ attempt \in 0..(MaxAttempts - 1)

(* A reconcile needs the process, and only a sweep has work left to do. *)
ProgressOK ==
    /\ pc \in PCs /\ read \in LumigoObject
    /\ IF pc = "idle" THEN name = None ELSE up /\ name \in Lumigoes
    /\ found \subseteq Workloads /\ dirty \subseteq Workloads
    /\ pc \notin {"inject", "remove"} => phase = 0 /\ todo = {} /\ attempt = 0

CountsOK ==
    creations \in 0..MaxCreations /\ edits \in 0..MaxEdits /\ faults \in 0..MaxFaults

TypeOK == StoreOK /\ WorkOK /\ OutsideOK /\ SweepOK /\ ProgressOK /\ CountsOK

Untouched == {Absent} \cup [label : UserLabels, inst : {FALSE}]

Init ==
    /\ lumigoes = [l \in Lumigoes |-> NoLumigo] /\ cache = lumigoes
    /\ undelivered = <<>>
    /\ workloads \in [Workloads -> Untouched] /\ workloadCache = workloads
    /\ secretValid = TRUE /\ monitored = FALSE /\ up = TRUE
    /\ pc = "idle" /\ name = None /\ read = NoLumigo /\ found = {}
    /\ phase = 0 /\ todo = {} /\ attempt = 0
    /\ creations = 0 /\ edits = 0 /\ faults = 0
    /\ dirty = {}

-----------------------------------------------------------------------------
(***************************************************************************)
(* Shared by the actions.                                                  *)
(***************************************************************************)

NoSweep == phase' = 0 /\ todo' = {} /\ attempt' = 0

(* Reconcile returns. *)
Return == /\ pc' = "idle" /\ name' = None /\ read' = NoLumigo /\ found' = {} /\ dirty' = {}
          /\ NoSweep

Goto(next) == pc' = next /\ UNCHANGED <<name, found, dirty, sweep>>

(* The API server removes an object that is being deleted once it has no   *)
(* finalizer left.                                                         *)
Stored(o) == IF o.deleting /\ ~o.fin /\ ~o.held THEN NoLumigo ELSE o

(* The watch delivers each change to the cache later, in order.  Of more   *)
(* than MaxUndelivered the oldest two come together.                       *)
Queued(changes) == IF Len(changes) > MaxUndelivered THEN Tail(changes) ELSE changes

WriteLumigo(l, o) ==
    /\ lumigoes' = [lumigoes EXCEPT ![l] = Stored(o)]
    /\ undelivered' = IF lumigoes' = lumigoes THEN undelivered
                      ELSE Queued(Append(undelivered, lumigoes'))
    /\ UNCHANGED cache

WriteWorkload(w, v) ==
    /\ workloads' = [workloads EXCEPT ![w] = v]
    /\ workloadCache' = IF WorkloadCacheLags THEN workloadCache
                        ELSE [workloadCache EXCEPT ![w] = v]

(* LumigoInjectorWebhookHandler.Handle: a namespace's first cached Lumigo, *)
(* in no particular order, decides.                                        *)
Decision(o) == IF o.spec.injection /\ IsActive(o) THEN "inject" ELSE "leave"

(* Mutant: Lumigoes that are being deleted are not counted. *)
CachedLive == {l \in Lumigoes : Exists(cache[l]) /\ ~cache[l].deleting}

Cached == {l \in Lumigoes : Exists(cache[l])}

WebhookDecisions ==
    IF ~up THEN {"leave"}
    ELSE IF Cached = {} THEN {"byLabel"}
    ELSE {Decision(cache[l]) : l \in Cached}

-----------------------------------------------------------------------------
(***************************************************************************)
(* Reconcile.                                                              *)
(***************************************************************************)

(* Mutants: no finalizer is added; deletions are overlooked; only those of *)
(* active Lumigoes are handled.                                            *)
AfterReadNoFinalizer(o) == IF o.deleting THEN "dropFinalizer" ELSE "check"

AfterReadNoDeletion(o) == IF o.fin THEN "check" ELSE "addFinalizer"

AfterReadActiveOnly(o) ==
    CASE ~o.deleting /\ ~o.fin -> "addFinalizer"
      [] o.deleting /\ o.fin -> IF IsActive(o) THEN "remove" ELSE "statusDeleted"
      [] OTHER -> "check"

(* Where Reconcile goes with the Lumigo it read; one that is being deleted *)
(* and has no finalizer of the operator's is handled as a live one.        *)
AfterRead(o) ==
    CASE ~o.deleting /\ ~o.fin -> "addFinalizer"
      [] ~o.deleting /\ o.fin  -> "check"
      [] o.deleting /\ ~o.fin  -> "check"
      [] OTHER -> IF IsActive(o) /\ o.spec.injection /\ o.spec.onDeletion
                  THEN "remove" ELSE "dropFinalizer"

Begin(l) ==
    /\ up /\ pc = "idle" /\ Exists(cache[l])
    /\ pc' = AfterRead(cache[l]) /\ name' = l /\ read' = cache[l]
    /\ UNCHANGED <<store, work, outside, up, sweep, found, counts>>

(* The Update that adds or removes the finalizer; on a conflict Reconcile  *)
(* returns the error.                                                      *)
UpdateFinalizer(fin, next) ==
    /\ UNCHANGED <<workloads, workloadCache, outside, up, counts>>
    /\ \/ /\ lumigoes[name] = read
          /\ read' = [read EXCEPT !.fin = fin]
          /\ WriteLumigo(name, read')
          /\ Goto(next)
       \/ /\ lumigoes[name] # read
          /\ Return
          /\ UNCHANGED store

AddFinalizer == pc = "addFinalizer" /\ UpdateFinalizer(TRUE, "check")

(* Mutant: the namespaces file is left as it is. *)
DropFinalizerOnly == pc = "dropFinalizer" /\ UpdateFinalizer(FALSE, "statusDeleted")

DropFinalizer == pc = "dropFinalizer" /\ UpdateFinalizer(FALSE, "unmonitor")

(* Mutant: the list is not sorted. *)
FirstUnsorted == {cache[l] : l \in Cached}

(* The Lumigoes that can come first in the cached list sorted by creation  *)
(* time: timestamps have seconds, and the order of equal ones is arbitrary.*)
First == {cache[l] : l \in {k \in Cached :
                        \A m \in Cached : Second[cache[k].uid] <= Second[cache[m].uid]}}

WantsCreationSweep(o) == JustCreated(o) /\ o.spec.injection /\ o.spec.onCreation

(* Validates that no other Lumigo of the namespace comes first, then the   *)
(* token.                                                                  *)
Check ==
    LET alone == Cached \ {name} = {} IN
    /\ pc = "check"
    /\ \/ /\ ~alone /\ \E f \in First : f.uid # read.uid
          /\ Goto("statusError")
       \/ /\ alone \/ \E f \in First : f.uid = read.uid
          /\ Goto(CASE ~secretValid -> "statusError"
                    [] secretValid /\ WantsCreationSweep(read) -> "inject"
                    [] OTHER -> "telemetry")
    /\ UNCHANGED <<store, workloads, workloadCache, outside, up, read, counts>>

-----------------------------------------------------------------------------
(***************************************************************************)
(* injectLumigoIntoResources (pc "inject") and RemoveLumigoFromResources   *)
(* (pc "remove"): the kinds are listed one after the other from the API    *)
(* server, and each workload listed is read from the cache, mutated and    *)
(* updated, in at most MaxAttempts attempts.  Jobs come last, and only     *)
(* give rise to events.                                                    *)
(***************************************************************************)

KindOf(p) == <<"DaemonSet", "Deployment", "ReplicaSet", "StatefulSet", "CronJob">>[p]

(* Mutant: CronJobs are forgotten. *)
PhasesButCronJobs == {p \in 1..4 : \E w \in Workloads : WorkloadTraits[w].kind = KindOf(p)}

(* Kinds without workloads are passed over: listing them changes nothing. *)
Phases == {p \in 1..5 : \E w \in Workloads : WorkloadTraits[w].kind = KindOf(p)}

Selected(v) == Present(v) /\ IF pc = "inject" THEN NotAutoTraced(v) ELSE AutoTraced(v)

Later == {p \in Phases : p > phase}

ListKind ==
    /\ pc \in {"inject", "remove"} /\ todo = {}
    /\ \E p \in Later :
          /\ \A q \in Later : p <= q
          /\ phase' = p
          /\ todo' = {w \in Workloads : /\ WorkloadTraits[w].kind = KindOf(p)
                                        /\ Selected(workloads[w])}
    /\ UNCHANGED <<store, work, outside, up, pc, name, read, attempt, found, counts>>

SweepDone == IF pc = "inject" THEN "telemetry" ELSE "dropFinalizer"

FinishSweep ==
    /\ pc \in {"inject", "remove"} /\ todo = {} /\ Later = {}
    /\ pc' = SweepDone /\ NoSweep
    /\ UNCHANGED <<store, work, outside, up, name, read, found, counts>>

(* Mutant: a deletion goes on as well. *)
GiveUpIgnored ==
    /\ pc' = SweepDone /\ NoSweep
    /\ UNCHANGED <<name, read, found, dirty>>

(* A failed sweep abandons the workloads that are left: the creation of a  *)
(* Lumigo goes on as if it had succeeded, a deletion is retried from the   *)
(* start.                                                                  *)
GiveUp ==
    \/ /\ pc = "inject"
       /\ pc' = "telemetry" /\ NoSweep
       /\ UNCHANGED <<name, read, found, dirty>>
    \/ pc = "remove" /\ Return

(* Mutant: attempts are not counted. *)
AttemptsLeftForever(n) == TRUE

AttemptsLeft(n) == n + 1 < MaxAttempts

FailedAttempt ==
    \/ /\ AttemptsLeft(attempt)
       /\ attempt' = attempt + 1
       /\ UNCHANGED <<pc, name, read, phase, todo, found, dirty>>
    \/ ~AttemptsLeft(attempt) /\ GiveUp

(* The list's order. *)
Item == CHOOSE w \in todo : TRUE

Refuses(w, v) ==
    \/ ~Present(v)
    \/ pc = "inject" /\ InjectionRefused(WorkloadTraits[w], v)

Mutates(w, v) ==
    IF pc = "inject" THEN InjectionMutates(WorkloadTraits[w], v)
    ELSE RemovalMutates(WorkloadTraits[w], v)

Mutated(v) == IF pc = "inject" THEN Injected(v) ELSE Removed(v)

(* Mutant: the update does not carry the copy's resource version. *)
CurrentAlways(w, copy) == TRUE

(* The API server accepts an update that starts from this copy. *)
Current(w, copy) == copy = workloads[w]

(* One attempt at the next workload of the list: the cached copy is read,  *)
(* mutated, and sent if the mutator changed it.                            *)
Attempt ==
    LET copy == workloadCache[Item] IN
    /\ pc \in {"inject", "remove"} /\ todo # {}
    /\ UNCHANGED <<store, outside, up, counts>>
    /\ \/ /\ Refuses(Item, copy) \/ (Mutates(Item, copy) /\ ~Current(Item, copy))
          /\ FailedAttempt
          /\ UNCHANGED <<workloads, workloadCache>>
       \/ /\ ~Refuses(Item, copy)
          /\ \/ ~Mutates(Item, copy) /\ UNCHANGED <<workloads, workloadCache>>
             \/ /\ Mutates(Item, copy) /\ Current(Item, copy)
                /\ \E d \in WebhookDecisions :
                      WriteWorkload(Item, Admitted(WorkloadTraits[Item], Mutated(copy), d))
          /\ todo' = todo \ {Item} /\ attempt' = 0
          /\ UNCHANGED <<pc, name, read, phase, found, dirty>>

-----------------------------------------------------------------------------
(***************************************************************************)
(* The namespaces file and the status.                                     *)
(***************************************************************************)

(* updateTelemetryProxyMonitoringOfNamespace; a failure is only       *)
(* logged.                                                                 *)
Monitor(wanted, next) ==
    /\ monitored' = wanted
    /\ Goto(next)
    /\ UNCHANGED <<store, workloads, workloadCache, secretValid, up, read, counts>>

Telemetry == pc = "telemetry" /\ Monitor(read.spec.events, "listReferences")

(* Mutant: the namespace is not taken out. *)
UnmonitorNothing == pc = "unmonitor" /\ Monitor(monitored, "statusDeleted")

Unmonitor == pc = "unmonitor" /\ Monitor(FALSE, "statusDeleted")

(* getInstrumentedObjectReferences *)
ListReferences ==
    /\ pc = "listReferences"
    /\ found' = {w \in Workloads : Present(workloads[w]) /\ AutoTraced(workloads[w])}
    /\ pc' = "statusReady"
    /\ UNCHANGED <<store, work, outside, up, name, read, sweep, counts>>

NewStatus ==
    CASE pc = "statusReady"   -> [ClearError(SetActive(read, "True")) EXCEPT !.refs = found]
      [] pc = "statusError"   -> SetError(read)
      [] pc = "statusDeleted" -> ClearError(SetActive(read, "False"))

(* updateStatusIfNeeded *)
UpdateStatus ==
    /\ pc \in {"statusReady", "statusError", "statusDeleted"}
    /\ IF lumigoes[name] = read THEN WriteLumigo(name, NewStatus) ELSE UNCHANGED store
    /\ Return
    /\ UNCHANGED <<workloads, workloadCache, outside, up, counts>>

-----------------------------------------------------------------------------
(***************************************************************************)
(* The client cache, kept by watches.  All Lumigo resources come through   *)
(* one watch in the order of the changes.                                  *)
(***************************************************************************)

SyncLumigoes ==
    /\ up /\ undelivered # <<>>
    /\ cache' = Head(undelivered) /\ undelivered' = Tail(undelivered)
    /\ UNCHANGED <<lumigoes, work, outside, up, progress, counts>>

SyncWorkload(w) ==
    /\ up /\ workloadCache[w] # workloads[w]
    /\ workloadCache' = [workloadCache EXCEPT ![w] = workloads[w]]
    /\ UNCHANGED <<store, workloads, dirty, outside, up, progress, counts>>

-----------------------------------------------------------------------------
(***************************************************************************)
(* Users, and the garbage collector that ends a foreground deletion.       *)
(***************************************************************************)

(* The defaulter webhook denies a second Lumigo, going by the cache; the   *)
(* API server rejects the request while the webhook does not answer.       *)
CreateLumigo(l) ==
    /\ up /\ Cached = {} /\ ~Exists(lumigoes[l])
    /\ creations < MaxCreations /\ creations' = creations + 1
    /\ \E spec \in UserSpecs : WriteLumigo(l, NewLumigo(creations + 1, spec))
    /\ UNCHANGED <<work, outside, up, progress, edits, faults>>

Edit(op) ==
    /\ op \in UserOps /\ edits < MaxEdits /\ edits' = edits + 1
    /\ UNCHANGED <<up, progress, creations, faults>>

DeleteLumigo(l) ==
    /\ Exists(lumigoes[l]) /\ ~lumigoes[l].deleting
    /\ \E held \in BOOLEAN :
          /\ Edit(IF held THEN "deleteForeground" ELSE "deleteLumigo")
          /\ WriteLumigo(l, [lumigoes[l] EXCEPT !.deleting = TRUE, !.held = held])
    /\ UNCHANGED <<work, outside>>

EndForeground(l) ==
    /\ lumigoes[l].held
    /\ WriteLumigo(l, [lumigoes[l] EXCEPT !.held = FALSE])
    /\ UNCHANGED <<work, outside, up, progress, counts>>

EditSpec(l) ==
    /\ up /\ Exists(lumigoes[l]) /\ Edit("editSpec")
    /\ \E spec \in UserSpecs \ {lumigoes[l].spec} :
          WriteLumigo(l, [lumigoes[l] EXCEPT !.spec = spec])
    /\ UNCHANGED <<work, outside>>

(* The secret is created, corrected, broken or deleted; only its cached    *)
(* copy is ever read, so it changes when that copy does.                   *)
ChangeSecret ==
    /\ up /\ Edit("secret")
    /\ secretValid' = ~secretValid
    /\ UNCHANGED <<store, work, monitored>>

MarkDirty(w) == dirty' = IF pc = "idle" THEN {} ELSE dirty \cup {w}

(* A user's write of workload w goes through the injector webhook. *)
Send(w, v) ==
    /\ \E d \in WebhookDecisions :
          LET stored == Admitted(WorkloadTraits[w], v, d) IN
          /\ Present(workloads[w]) => Acceptable(WorkloadTraits[w], workloads[w], stored)
          /\ WriteWorkload(w, stored)
    /\ MarkDirty(w)
    /\ UNCHANGED <<store, outside>>

CreateWorkload(w) ==
    /\ ~Present(workloads[w]) /\ Edit("createWorkload")
    /\ \E label \in UserLabels : Send(w, [label |-> label, inst |-> FALSE])

(* Any other update, the label kept. *)
TouchWorkload(w) ==
    /\ Present(workloads[w]) /\ Edit("touch")
    /\ Send(w, workloads[w])

RelabelWorkload(w) ==
    /\ Present(workloads[w]) /\ Edit("relabel")
    /\ \E label \in UserLabels \ {workloads[w].label} :
          Send(w, [workloads[w] EXCEPT !.label = label])

DeleteWorkload(w) ==
    /\ Present(workloads[w]) /\ Edit("deleteWorkload")
    /\ WriteWorkload(w, Absent) /\ MarkDirty(w)
    /\ UNCHANGED <<store, outside>>

-----------------------------------------------------------------------------
(***************************************************************************)
(* Failures.                                                               *)
(***************************************************************************)

Fault(kind) == /\ kind \in AllowedFaults /\ faults < MaxFaults /\ faults' = faults + 1
               /\ UNCHANGED <<creations, edits>>

(* A request to the API server fails. *)
ApiFault ==
    /\ Fault("api")
    /\ UNCHANGED <<store, workloads, workloadCache, outside, up>>
    /\ \/ /\ pc \in {"addFinalizer", "dropFinalizer", "listReferences",
                     "statusReady", "statusError", "statusDeleted"}
          /\ Return
       \/ pc \in {"inject", "remove"} /\ todo = {} /\ GiveUp     \* listing a kind
       \/ pc \in {"inject", "remove"} /\ todo # {} /\ FailedAttempt

(* The namespaces file cannot be read, parsed or written. *)
FileFault ==
    /\ Fault("file") /\ pc \in {"telemetry", "unmonitor"}
    /\ Goto(IF pc = "telemetry" THEN "listReferences" ELSE "statusDeleted")
    /\ UNCHANGED <<store, workloads, workloadCache, outside, up, read>>

(* The namespaces file outlives the process, but not its pod. *)
Crash ==
    /\ up /\ Fault("crash")
    /\ up' = FALSE /\ Return
    /\ cache' = [l \in Lumigoes |-> NoLumigo] /\ undelivered' = <<>>
    /\ monitored' \in {monitored, FALSE}
    /\ UNCHANGED <<lumigoes, workloads, workloadCache, secretValid>>

(* The new process starts once its caches are filled. *)
Restart ==
    /\ ~up /\ up' = TRUE
    /\ cache' = lumigoes /\ undelivered' = <<>> /\ workloadCache' = workloads
    /\ UNCHANGED <<lumigoes, workloads, dirty, outside, progress, counts>>

-----------------------------------------------------------------------------
Reconcile ==
    \/ \E l \in Lumigoes : Begin(l)
    \/ AddFinalizer \/ DropFinalizer \/ Check
    \/ ListKind \/ FinishSweep \/ Attempt
    \/ Telemetry \/ Unmonitor \/ ListReferences \/ UpdateStatus

User ==
    \/ \E l \in Lumigoes : CreateLumigo(l) \/ DeleteLumigo(l) \/ EditSpec(l)
    \/ ChangeSecret
    \/ \E w \in Workloads : \/ CreateWorkload(w) \/ TouchWorkload(w)
                            \/ RelabelWorkload(w) \/ DeleteWorkload(w)

Failure == ApiFault \/ FileFault \/ Crash

Next ==
    \/ Reconcile
    \/ SyncLumigoes \/ \E w \in Workloads : SyncWorkload(w)
    \/ \E l \in Lumigoes : EndForeground(l)
    \/ User
    \/ Failure \/ Restart

Spec == Init /\ [][Next]_vars

(* The worker, the watches and the garbage collector never stop, the       *)
(* process is restarted, and a Lumigo is reconciled again and again with   *)
(* an up-to-date copy: requeues wait for seconds.  Users and failures owe  *)
(* nothing.                                                                *)
Fairness ==
    /\ WF_vars(Reconcile) /\ WF_vars(Restart) /\ WF_vars(SyncLumigoes)
    /\ \A w \in Workloads : WF_vars(SyncWorkload(w))
    /\ \A l \in Lumigoes : /\ SF_vars(Begin(l) /\ undelivered = <<>>)
                           /\ WF_vars(EndForeground(l))

FairSpec == Spec /\ Fairness

-----------------------------------------------------------------------------
(***************************************************************************)
(* Properties of states.                                                   *)
(***************************************************************************)

(* However creations, deletions and reconciles interleave, at most one     *)
(* Lumigo of the namespace is active: Reconcile "validates there is only   *)
(* one Lumigo instance in any one namespace" from a cache that lags.       *)
AtMostOneActive ==
    \A l, m \in Lumigoes :
        IsActive(lumigoes[l]) /\ IsActive(lumigoes[m]) => l = m

(* A Lumigo is only active while the operator's finalizer keeps it from    *)
(* disappearing before its instrumentation is removed.                     *)
ActiveHasFinalizer == \A l \in Lumigoes : IsActive(lumigoes[l]) => lumigoes[l].fin

(* No Lumigo is reported both active and in error, although the two        *)
(* conditions are set from whatever an earlier reconcile left.             *)
ConditionsExclusive ==
    \A l \in Lumigoes : ~(IsActive(lumigoes[l]) /\ lumigoes[l].error = "True")

(* The namespaces file names the namespace only while there is a Lumigo,   *)
(* or its last reconcile is about to take the namespace out.               *)
MonitoredHasLumigo ==
    monitored => pc = "unmonitor" \/ \E l \in Lumigoes : Exists(lumigoes[l])

(***************************************************************************)
(* Why at most one Lumigo is active: the parts of an inductive invariant.  *)
(***************************************************************************)

Oldest(l) ==
    /\ Exists(lumigoes[l])
    /\ \A m \in Lumigoes : Exists(lumigoes[m]) => lumigoes[l].uid <= lumigoes[m].uid

(* Only the oldest existing Lumigo is active. *)
ActiveIsOldest == \A l \in Lumigoes : IsActive(lumigoes[l]) => Oldest(l)

(* A reconcile past its checks that would still be able to write the       *)
(* status of the Lumigo it read works for the oldest one.                  *)
Approved == {"inject", "telemetry", "listReferences", "statusReady"}

ApprovedIsOldest == pc \in Approved /\ lumigoes[name].uid = read.uid => Oldest(name)

(* What the cache holds now (0) and will hold after each delivery.         *)
Views == 0..Len(undelivered)

View(i) == IF i = 0 THEN cache ELSE undelivered[i]

(* A Lumigo that exists is in every view as late as one that has a Lumigo  *)
(* created after it: the cache shows no gap in the order of creations.     *)
ViewsComplete ==
    \A i, j \in Views : i <= j =>
        \A l, m \in Lumigoes :
            /\ Exists(View(i)[l]) /\ Exists(lumigoes[m])
            /\ lumigoes[m].uid <= View(i)[l].uid
            => View(j)[m].uid = lumigoes[m].uid

(* The Lumigo a reconcile read, while it exists, stays in the cache.       *)
ReadStaysCached ==
    pc # "idle" /\ lumigoes[name].uid = read.uid =>
        \A i \in Views : View(i)[name].uid = read.uid

UidsOK ==
    /\ \A l \in Lumigoes : lumigoes[l].uid <= creations
    /\ \A l, m \in Lumigoes :
          Exists(lumigoes[l]) /\ lumigoes[l].uid = lumigoes[m].uid => l = m
    /\ \A i \in Views : \A l \in Lumigoes : View(i)[l].uid <= creations
    /\ read.uid <= creations /\ (pc # "idle" => Exists(read))

(* Together with TypeOK, the inductive invariant behind AtMostOneActive.   *)
OldestGoverns ==
    /\ UidsOK /\ ViewsComplete /\ ReadStaysCached
    /\ ActiveIsOldest /\ ApprovedIsOldest

(***************************************************************************)
(* Properties of steps.                                                    *)
(***************************************************************************)

(* Neither the controller nor the webhook instruments a workload whose     *)
(* label is some spelling of false, however old the copy they work on and  *)
(* whatever users do, short of changing that label.                        *)
OptOutNotInstrumented ==
    [][\A w \in Workloads :
          OptsOut(workloads[w]) /\ ~workloads[w].inst /\ ~RelabelWorkload(w) =>
             ~workloads'[w].inst]_vars

Sweepable(w) == ~WorkloadTraits[w].owned /\ WorkloadTraits[w].kind # "Job"

Vanishes(l) ==
    /\ Exists(lumigoes[l]) /\ ~Exists(lumigoes'[l])
    /\ lumigoes[l].spec.injection /\ lumigoes[l].spec.onDeletion

(* By its template, as the operator can know: it leaves a workload alone   *)
(* whose user took the label off or set it to "false" after the injection. *)
Instrumented(w) == workloads[w].inst /\ AutoTraced(workloads[w])

(* When an active Lumigo that asks for the removal of instrumentation is   *)
(* gone, so is the instrumentation of every workload that no user wrote    *)
(* while it was being removed, whatever failed meanwhile and however its   *)
(* user labelled it before, short of hiding it from the selector.          *)
RemovalComplete ==
    [][\A l \in Lumigoes : Vanishes(l) /\ IsActive(lumigoes[l]) =>
          \A w \in Workloads \ dirty : Sweepable(w) => ~Instrumented(w)]_vars

(* Of all workloads, and whatever the Lumigo's state: nothing stays        *)
(* instrumented once the namespace's only Lumigo is gone.                  *)
DeletionUninstruments ==
    [][\A l \in Lumigoes : Vanishes(l) /\ (\A m \in Lumigoes : ~Exists(lumigoes'[m])) =>
          \A w \in Workloads : Sweepable(w) => ~Instrumented(w)]_vars

(* When a new Lumigo that asks for it turns active, every workload without *)
(* the lumigo.auto-trace label is instrumented, unless a user wrote it     *)
(* after the reconcile began: no later reconcile will do it.               *)
CreationSweepComplete ==
    [][\A l \in Lumigoes :
          WantsCreationSweep(lumigoes[l]) /\ IsActive(lumigoes'[l]) =>
             \A w \in Workloads \ dirty :
                Sweepable(w) => workloads[w] # [label |-> "none", inst |-> FALSE]]_vars

(* A Lumigo that is being deleted and is no longer, or never was, active   *)
(* does not turn active again.                                             *)
NoReactivation ==
    [][\A l \in Lumigoes :
          /\ lumigoes[l].deleting /\ ~IsActive(lumigoes[l])
          /\ lumigoes'[l].uid = lumigoes[l].uid
          => ~IsActive(lumigoes'[l])]_vars

(* What Reconcile and the webhooks implement together: the Lumigoes of the *)
(* namespace succeed one another by age (LumigoSuccession), although the   *)
(* order is read from a cache that lags.                                   *)
Succession == INSTANCE LumigoSuccession
    WITH arrived <- [l \in Lumigoes |-> lumigoes[l].uid], arrivals <- creations,
         governing <- {l \in Lumigoes : IsActive(lumigoes[l])}

ImplementsSuccession == Succession!Spec

(* How far the Lumigo is in its life.                                      *)
StageOf(o) ==
    CASE ~Exists(o) -> "absent"
      [] Exists(o) /\ o.deleting -> IF o.fin THEN "leaving" ELSE "held"
      [] OTHER -> IF o.fin THEN "kept" ELSE "new"

(* No copy that is out of date, no failed update and no foreground         *)
(* deletion takes a Lumigo back in its life: the finalizer is added once,  *)
(* before the deletion is asked for, and removed once, after it.           *)
Life == INSTANCE LumigoLifecycle
    WITH life <- [l \in Lumigoes |-> lumigoes[l].uid], lives <- creations,
         stage <- [l \in Lumigoes |-> StageOf(lumigoes[l])]

ImplementsLifecycle == Life!Spec

(* The order of Reconcile's steps.                                         *)
Rank ==
    [addFinalizer |-> 1, check |-> 2, inject |-> 3, telemetry |-> 4, listReferences |-> 5,
     statusReady |-> 6, statusError |-> 6,
     remove |-> 1, dropFinalizer |-> 2, unmonitor |-> 3, statusDeleted |-> 4]

Ahead ==
    \/ pc' = "idle" \/ (pc' # "idle" /\ Rank[pc'] > Rank[pc])
    \/ pc' = pc /\ phase' \in (phase + 1)..5
    \/ UNCHANGED <<pc, phase>> /\ todo' \subseteq todo /\ todo' # todo
    \/ UNCHANGED <<pc, phase, todo>> /\ attempt' \in (attempt + 1)..(MaxAttempts - 1)

(* A reconcile never turns back: it gives the single worker free after a   *)
(* bounded number of its steps, whatever is rejected or fails and however  *)
(* many workloads others create meanwhile.                                 *)
ReconcileGoesAhead ==
    [][(pc # "idle") => /\ Reconcile => Ahead
                        /\ Ahead \/ UNCHANGED <<pc, phase, todo, attempt>> ]_vars

(***************************************************************************)
(* Liveness, once users are done and nothing fails any more.               *)
(***************************************************************************)

(* A deletion is always completed: no interleaving leaves the finalizer    *)
(* behind.                                                                 *)
DeletionCompletes ==
    \A l \in Lumigoes : lumigoes[l].deleting ~> ~Exists(lumigoes[l])

(* Without a Lumigo, the collection of the namespace's events ends.        *)
CollectionEnds ==
    (\A l \in Lumigoes : ~Exists(lumigoes[l]))
        ~> (~monitored \/ \E l \in Lumigoes : Exists(lumigoes[l]))

Settled(l) ==
    LET o == lumigoes[l] IN
    IF Oldest(l) /\ secretValid
    THEN /\ IsActive(o) /\ o.error # "True"
         /\ monitored = o.spec.events
         /\ o.refs = {w \in Workloads : Present(workloads[w]) /\ AutoTraced(workloads[w])}
    ELSE ~IsActive(o) /\ o.error = "True"

(* All Lumigoes are as they should be, and the cache shows them. *)
CalmStore ==
    /\ up /\ cache = lumigoes /\ undelivered = <<>>
    /\ \A l \in Lumigoes : LET o == lumigoes[l] IN
          ~o.held /\ (Exists(o) => Settled(l) /\ o.fin /\ ~o.deleting)

(* The reconcile in progress began with such a copy. *)
CalmReconcile ==
    /\ Exists(read) /\ read = lumigoes[name]
    /\ IF Oldest(name) /\ secretValid
       THEN \/ pc \in {"check", "telemetry", "listReferences"}
            \/ pc = "statusReady" /\ found = read.refs
       ELSE pc \in {"check", "statusError"}

Calm == CalmStore /\ (pc # "idle" => CalmReconcile)

(* What has settled stays so, although every Lumigo is reconciled again    *)
(* and again: only users and failures disturb it, and without them nothing *)
(* is written any more, to the API server or to the namespaces file.       *)
CalmStays ==
    [][Calm /\ ~User /\ ~Failure => Calm' /\ UNCHANGED <<lumigoes, workloads, monitored>> ]_vars

(* The namespace settles: the oldest Lumigo ends up active, with the       *)
(* references and the monitoring that belong to it, if its token is valid, *)
(* and every other one in error.                                           *)
Converges ==
    <>[](\A l \in Lumigoes : Exists(lumigoes[l]) => Settled(l))
=============================================================================
