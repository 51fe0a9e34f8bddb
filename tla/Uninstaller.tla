------------------------------ MODULE Uninstaller ------------------------------
(***************************************************************************)
(* The uninstallation: the job of the chart's pre-delete hook, which runs  *)
(* the manager with --uninstall, beside the operator that is still there   *)
(* and the users.  The job deletes every Lumigo and waits until they are   *)
(* gone, then takes the instrumentation out of the workloads of all        *)
(* namespaces.  Helm removes the operator once the job has succeeded.      *)
(*                                                                         *)
(* What the operator does with one Lumigo (LumigoReconciler) is one step   *)
(* here, and every Lumigo has the default settings.                        *)
(***************************************************************************)
EXTENDS Naturals, FiniteSets, Sequences, PodTemplate

CONSTANTS
    Lumigoes,           \* namespaces and names of Lumigo resources
    Namespaces,
    Workloads,
    LumigoNamespace,    \* [Lumigoes -> Namespaces]
    WorkloadNamespace,  \* [Workloads -> Namespaces]
    WorkloadTraits,     \* [Workloads -> Traits]
    UserTemplates,      \* the pod templates users write, for each workload
    Current,            \* the settings the operator injects with
    BackoffLimit,       \* of the job
    MaxAttempts,        \* maxMutationRetryAttempts
    MaxDisturbances     \* bound on the steps of users and failures

ASSUME UninstallerConstantsOK ==
    /\ LumigoNamespace \in [Lumigoes -> Namespaces]
    /\ WorkloadNamespace \in [Workloads -> Namespaces]
    /\ WorkloadTraits \in [Workloads -> Traits]
    /\ UserTemplates \in [Workloads -> SUBSET Template] /\ Current \in Settings
    /\ BackoffLimit \in Nat /\ MaxAttempts \in Nat \ {0} /\ MaxDisturbances \in Nat
    /\ None \notin Namespaces

VARIABLES
    lumigoes,       \* the stored Lumigoes
    creations,      \* how many there have been
    workloads,      \* the stored workloads
    own,            \* the templates their users wrote
    pc,             \* where the hook's current pod is
    failures,       \* pods of the job that failed
    awaited,        \* the Lumigoes this pod listed, as their uid
    left,           \* lumigoesLeft
    toDelete,       \* those it has not tried to delete yet
    informer,       \* its informer
    events,         \* the deletions the informer has not handed on yet
    namespacesLeft, namespace, phase, todo, attempt, copy,  \* the sweep in progress
    abandoned,      \* namespaces it gave up
    dirty,          \* workloads others wrote since it began
    disturbances

cluster == <<lumigoes, creations, workloads, own, dirty>>
deletion == <<awaited, left, toDelete, informer, events>>
sweep == <<namespacesLeft, namespace, phase, todo, attempt, copy, abandoned>>
vars == <<cluster, pc, failures, deletion, sweep, disturbances>>

(* uid counts creations and is 0 when there is none; fin is the operator's *)
(* finalizer, which it adds when it makes the Lumigo active.               *)
Lumigo == [uid : Nat, fin : BOOLEAN, deleting : BOOLEAN]

NoLumigo == [uid |-> 0, fin |-> FALSE, deleting |-> FALSE]

Exists(o) == o.uid # 0

Listed == {l \in Lumigoes : Exists(lumigoes[l])}

Deleting == {"delete", "wait"}

Sweeping == {"sweep", "update"}

PCs == {"list", "namespaces", "succeeded", "failed"} \cup Deleting \cup Sweeping

TypeOK ==
    /\ lumigoes \in [Lumigoes -> Lumigo] /\ creations \in Nat
    /\ workloads \in [Workloads -> TemplatedWorkload] /\ own \in [Workloads -> Template]
    /\ pc \in PCs /\ failures \in 0..(BackoffLimit + 1)
    /\ awaited \in [Lumigoes -> Nat] /\ left \subseteq Lumigoes /\ toDelete \subseteq Lumigoes
    /\ informer \in {"off", "starting", "watching", "closed", "stopped"}
    /\ events \in Seq(Lumigoes)
    /\ namespacesLeft \subseteq Namespaces /\ namespace \in Namespaces \cup {None}
    /\ phase \in 0..5 /\ todo \subseteq Workloads /\ attempt \in 0..(MaxAttempts - 1)
    /\ copy \in TemplatedWorkload \cup {None}
    /\ abandoned \subseteq Namespaces /\ dirty \subseteq Workloads
    /\ disturbances \in 0..MaxDisturbances

(* Injected or not, by this operator or with earlier settings, and with    *)
(* the label as the operator leaves it or as users write it again.         *)
Possible(t) ==
    [label : {"none", "true", "false"}, template : {t}]
        \cup [label : {"lumigo", "true"}, template : {Inject(s, t) : s \in Settings}]

OnePerNamespace(ls) ==
    \A l, m \in ls : LumigoNamespace[l] = LumigoNamespace[m] => l = m

Idle == awaited = [l \in Lumigoes |-> 0] /\ left = {} /\ toDelete = {}
        /\ informer = "off" /\ events = <<>>

Init ==
    /\ \E ls \in SUBSET Lumigoes :
          /\ OnePerNamespace(ls)
          /\ lumigoes = [l \in Lumigoes |->
                IF l \in ls THEN [uid |-> 1, fin |-> TRUE, deleting |-> FALSE] ELSE NoLumigo]
    /\ creations = 1
    /\ own \in [Workloads -> UNION {UserTemplates[w] : w \in Workloads}]
    /\ \A w \in Workloads : own[w] \in UserTemplates[w]
    /\ workloads \in [Workloads -> UNION {Possible(own[w]) : w \in Workloads}]
    /\ \A w \in Workloads : workloads[w] \in Possible(own[w])
    /\ pc = "list" /\ failures = 0 /\ Idle
    /\ namespacesLeft = {} /\ namespace = None /\ phase = 0 /\ todo = {} /\ attempt = 0
    /\ copy = None /\ abandoned = {} /\ dirty = {} /\ disturbances = 0

-----------------------------------------------------------------------------
(***************************************************************************)
(* Shared by the actions.                                                  *)
(***************************************************************************)

Disturbance == disturbances < MaxDisturbances /\ disturbances' = disturbances + 1

(* A Lumigo is gone: the informer has a deletion to hand on if it knew it. *)
Vanish(l) ==
    /\ lumigoes' = [lumigoes EXCEPT ![l] = NoLumigo]
    /\ events' = IF informer \in {"watching", "closed"} THEN Append(events, l) ELSE events

(* The API server's answer to a request to delete the Lumigo.              *)
RequestDeletion(l) ==
    IF Exists(lumigoes[l]) /\ ~lumigoes[l].fin THEN Vanish(l)
    ELSE /\ lumigoes' = [lumigoes EXCEPT ![l].deleting = Exists(lumigoes[l])]
         /\ UNCHANGED events

(* The webhook goes by the first Lumigo of the workload's namespace.       *)
WebhookDecisions(w) ==
    LET there == {l \in Listed : LumigoNamespace[l] = WorkloadNamespace[w]} IN
    IF there = {} THEN {"byLabel"}
    ELSE {IF lumigoes[l].fin THEN "inject" ELSE "leave" : l \in there}

InNamespace(n) == {w \in Workloads : WorkloadNamespace[w] = n}

-----------------------------------------------------------------------------
(***************************************************************************)
(* removeLumigoFromMonitoredNamespaces.                                    *)
(***************************************************************************)

(* Mutant: the job is not retried as often. *)
RetriedOnce(n) == n <= 1

(* Pods of the job that failed, this one included: is there another one?   *)
Retried(n) == n <= BackoffLimit

(* The pod's process exits with an error, or its deadline has passed.      *)
PodFails ==
    /\ failures' = failures + 1
    /\ pc' = IF Retried(failures') THEN "list" ELSE "failed"
    /\ awaited' = [l \in Lumigoes |-> 0] /\ left' = {} /\ toDelete' = {}
    /\ informer' = "off" /\ events' = <<>>
    /\ namespacesLeft' = {} /\ namespace' = None /\ phase' = 0 /\ todo' = {} /\ attempt' = 0
    /\ copy' = None /\ abandoned' = {}

List ==
    /\ pc = "list"
    /\ IF Listed = {} THEN pc' = "namespaces" /\ UNCHANGED deletion
       ELSE /\ pc' = "delete" /\ informer' = "starting"
            /\ awaited' = [l \in Lumigoes |-> lumigoes[l].uid]
            /\ left' = Listed /\ toDelete' = Listed
            /\ UNCHANGED events
    /\ UNCHANGED <<cluster, failures, sweep, disturbances>>

(* The informer's goroutine runs beside the deletions: what is gone before *)
(* its own list will never be a deletion to it.                            *)
InformerLists ==
    /\ informer = "starting" /\ informer' = "watching"
    /\ UNCHANGED <<cluster, pc, failures, awaited, left, toDelete, events, sweep, disturbances>>

(* A request that fails is only logged.                                    *)
Delete ==
    /\ pc = "delete"
    /\ \E l \in toDelete :
          /\ toDelete' = toDelete \ {l}
          /\ \/ RequestDeletion(l) /\ UNCHANGED disturbances
             \/ Disturbance /\ UNCHANGED <<lumigoes, events>>
    /\ UNCHANGED <<creations, workloads, own, dirty, pc, failures, awaited, left, informer, sweep>>

Wait ==
    /\ pc = "delete" /\ toDelete = {} /\ pc' = "wait"
    /\ UNCHANGED <<cluster, failures, deletion, sweep, disturbances>>

(* Mutant: one deletion is enough. *)
NoneLeft(l) == {}

StillLeft(l) == left \ {l}

(* DeleteFunc.  The informer is told to stop by closing a channel, and a   *)
(* channel that is closed again panics.                                    *)
DeleteFunc ==
    /\ informer \in {"watching", "closed"} /\ events # <<>>
    /\ LET still == StillLeft(Head(events)) IN
       IF still = {} /\ informer = "closed" THEN PodFails
       ELSE /\ left' = still /\ events' = Tail(events)
            /\ informer' = IF still = {} THEN "closed" ELSE informer
            /\ UNCHANGED <<pc, failures, awaited, toDelete, sweep>>
    /\ UNCHANGED <<cluster, disturbances>>

(* The informer returns; deletions it has not handed on are dropped.       *)
InformerStops ==
    /\ informer = "closed" /\ informer' = "stopped" /\ events' = <<>>
    /\ UNCHANGED <<cluster, pc, failures, awaited, left, toDelete, sweep, disturbances>>

Proceed ==
    /\ pc = "wait" /\ informer = "stopped" /\ pc' = "namespaces"
    /\ UNCHANGED <<cluster, failures, deletion, sweep, disturbances>>

(* No deletion will come: each Lumigo that is left was gone too early, or  *)
(* its deletion has not been requested.                                    *)
Hung ==
    /\ pc = "wait" /\ informer = "watching" /\ events = <<>>
    /\ \A l \in left : ~lumigoes[l].deleting

(* The pod's activeDeadlineSeconds.                                        *)
PassDeadline ==
    /\ Hung /\ PodFails
    /\ UNCHANGED <<cluster, disturbances>>

-----------------------------------------------------------------------------
(***************************************************************************)
(* uninjectStandaloneResources: RemoveLumigoFromResources for all          *)
(* namespaces.  The client has no cache.                                   *)
(***************************************************************************)

ListNamespaces ==
    /\ pc = "namespaces" /\ pc' = "sweep"
    /\ namespacesLeft' = Namespaces /\ dirty' = {}
    /\ UNCHANGED <<lumigoes, creations, workloads, own, failures, deletion, disturbances,
                   namespace, phase, todo, attempt, copy, abandoned>>

EnterNamespace ==
    /\ pc = "sweep" /\ namespace = None
    /\ \E n \in namespacesLeft : namespace' = n /\ namespacesLeft' = namespacesLeft \ {n}
    /\ UNCHANGED <<cluster, pc, failures, deletion, phase, todo, attempt, copy, abandoned,
                   disturbances>>

KindOf(p) == <<"DaemonSet", "Deployment", "ReplicaSet", "StatefulSet", "CronJob">>[p]

OfKind(n, p) == {w \in InNamespace(n) : WorkloadTraits[w].kind = KindOf(p)}

Later == {p \in (phase + 1)..5 : OfKind(namespace, p) # {}}

ListKind ==
    /\ pc = "sweep" /\ namespace # None /\ todo = {}
    /\ \E p \in Later :
          /\ \A q \in Later : p <= q
          /\ phase' = p
          /\ todo' = {w \in OfKind(namespace, p) : AutoTraced(workloads[w])}
    /\ UNCHANGED <<cluster, pc, failures, deletion, namespacesLeft, namespace, attempt, copy,
                   abandoned, disturbances>>

LeaveNamespace == namespace' = None /\ phase' = 0 /\ todo' = {} /\ attempt' = 0

FinishNamespace ==
    /\ pc = "sweep" /\ namespace # None /\ todo = {} /\ Later = {}
    /\ LeaveNamespace
    /\ UNCHANGED <<cluster, pc, failures, deletion, namespacesLeft, copy, abandoned, disturbances>>

Item == CHOOSE w \in todo : TRUE

Get ==
    /\ pc = "sweep" /\ todo # {}
    /\ copy' = workloads[Item] /\ pc' = "update"
    /\ UNCHANGED <<cluster, failures, deletion, namespacesLeft, namespace, phase, todo, attempt,
                   abandoned, disturbances>>

(* What is left of the namespace is given up, which is only logged.        *)
GiveUp ==
    /\ LeaveNamespace /\ abandoned' = abandoned \cup {namespace} /\ UNCHANGED namespacesLeft

(* Mutant: one attempt too many. *)
AttemptsLeftAndOne(n) == n < MaxAttempts

AttemptsLeft(n) == n + 1 < MaxAttempts

FailedAttempt ==
    /\ pc' = "sweep"
    /\ \/ /\ AttemptsLeft(attempt) /\ attempt' = attempt + 1
          /\ UNCHANGED <<namespacesLeft, namespace, phase, todo, abandoned>>
       \/ ~AttemptsLeft(attempt) /\ GiveUp

Update ==
    LET w == Item
        mutates == RemovalOccurs(WorkloadTraits[w], copy) IN
    /\ pc = "update"
    /\ \/ /\ mutates /\ copy # workloads[w]
          /\ FailedAttempt /\ UNCHANGED workloads
       \/ /\ \/ ~mutates /\ UNCHANGED workloads
             \/ /\ mutates /\ copy = workloads[w]
                /\ \E d \in WebhookDecisions(w) :
                      workloads' = [workloads EXCEPT ![w] =
                          AdmittedTemplate(WorkloadTraits[w], Current, RemoveFrom(copy), d)]
          /\ pc' = "sweep" /\ todo' = todo \ {w} /\ attempt' = 0
          /\ UNCHANGED <<namespacesLeft, namespace, phase, abandoned>>
    /\ copy' = None
    /\ UNCHANGED <<lumigoes, creations, own, dirty, failures, deletion, disturbances>>

Succeed ==
    /\ pc = "sweep" /\ namespace = None /\ namespacesLeft = {} /\ pc' = "succeeded"
    /\ UNCHANGED <<cluster, failures, deletion, sweep, disturbances>>

-----------------------------------------------------------------------------
(***************************************************************************)
(* The operator, users and failures.                                       *)
(***************************************************************************)

(* The sweep over a namespace's workloads; jobs are left alone.            *)
SweptBy(l, after) ==
    /\ workloads' = [w \in Workloads |->
          IF WorkloadNamespace[w] = LumigoNamespace[l] /\ WorkloadTraits[w].kind # "Job"
          THEN after[w] ELSE workloads[w]]
    /\ dirty' = dirty \cup {w \in Workloads : workloads'[w] # workloads[w]}

Instrumented(w) ==
    IF NotAutoTraced(workloads[w])
    THEN InjectInto(WorkloadTraits[w], Current, workloads[w]) ELSE workloads[w]

(* The Lumigo is active until it is gone, and so is the webhook for it.    *)
Uninstrumented(w) ==
    IF AutoTraced(workloads[w]) /\ RemovalOccurs(WorkloadTraits[w], workloads[w])
    THEN AdmittedTemplate(WorkloadTraits[w], Current, RemoveFrom(workloads[w]), "inject")
    ELSE workloads[w]

(* Reconcile of a new Lumigo, which turns active.                          *)
Adopt(l) ==
    /\ pc # "succeeded" /\ Exists(lumigoes[l]) /\ ~lumigoes[l].fin
    /\ lumigoes' = [lumigoes EXCEPT ![l].fin = TRUE]
    /\ SweptBy(l, [w \in Workloads |-> Instrumented(w)])
    /\ UNCHANGED <<creations, own, pc, failures, deletion, sweep, disturbances>>

(* Mutant: whether it is being deleted is not asked. *)
OursToRelease(o) == o.fin

ToRelease(o) == o.deleting /\ o.fin

(* Reconcile of a Lumigo that is being deleted.                            *)
Finalise(l) ==
    /\ pc # "succeeded" /\ ToRelease(lumigoes[l])
    /\ Vanish(l)
    /\ SweptBy(l, [w \in Workloads |-> Uninstrumented(w)])
    /\ UNCHANGED <<creations, own, pc, failures, awaited, left, toDelete, informer, sweep,
                   disturbances>>

(* The defaulter webhook denies a second Lumigo.                           *)
CreateLumigo(l) ==
    /\ Disturbance /\ pc # "succeeded" /\ ~Exists(lumigoes[l]) /\ OnePerNamespace(Listed \cup {l})
    /\ creations' = creations + 1
    /\ lumigoes' = [lumigoes EXCEPT ![l] = [NoLumigo EXCEPT !.uid = creations']]
    /\ UNCHANGED <<workloads, own, dirty, pc, failures, deletion, sweep>>

DeleteLumigo(l) ==
    /\ Disturbance /\ Exists(lumigoes[l]) /\ ~lumigoes[l].deleting
    /\ RequestDeletion(l)
    /\ UNCHANGED <<creations, workloads, own, dirty, pc, failures, awaited, left, toDelete,
                   informer, sweep>>

(* An update of the workload that leaves its label and template as they are*)
(* goes through the injector webhook.                                      *)
TouchWorkload(w) ==
    /\ Disturbance /\ pc # "succeeded"
    /\ \E d \in WebhookDecisions(w) :
          workloads' = [workloads EXCEPT ![w] =
              AdmittedTemplate(WorkloadTraits[w], Current, workloads[w], d)]
    /\ dirty' = dirty \cup {w}
    /\ UNCHANGED <<lumigoes, creations, own, pc, failures, deletion, sweep>>

(* A request of the hook fails, other than a deletion, or it is too slow   *)
(* for its deadline.                                                       *)
RequestFails ==
    /\ Disturbance
    /\ \/ pc \in {"list", "namespaces"} \cup Deleting /\ PodFails
       \/ pc = "sweep" /\ namespace # None /\ todo = {} /\ Later # {}
             /\ GiveUp /\ UNCHANGED <<pc, copy>> /\ UNCHANGED <<failures, deletion>>
       \/ (pc = "update" \/ (pc = "sweep" /\ todo # {}))
             /\ FailedAttempt /\ copy' = None /\ UNCHANGED <<failures, deletion>>
    /\ UNCHANGED cluster

(* After a gap in the informer's watch, deletions arrive as tombstones,    *)
(* which DeleteFunc does not take for Lumigoes.                            *)
Tombstones ==
    /\ Disturbance /\ informer = "watching" /\ events # <<>>
    /\ events' = <<>>
    /\ UNCHANGED <<cluster, pc, failures, awaited, left, toDelete, informer, sweep>>

-----------------------------------------------------------------------------
Hook ==
    \/ List \/ InformerLists \/ Delete \/ Wait \/ DeleteFunc \/ InformerStops \/ Proceed
    \/ PassDeadline
    \/ ListNamespaces \/ EnterNamespace \/ ListKind \/ FinishNamespace \/ Get \/ Update \/ Succeed

Operator == \E l \in Lumigoes : Adopt(l) \/ Finalise(l)

Disturb ==
    \/ \E l \in Lumigoes : CreateLumigo(l) \/ DeleteLumigo(l)
    \/ \E w \in Workloads : TouchWorkload(w)
    \/ RequestFails \/ Tombstones

Next == Hook \/ Operator \/ Disturb

Spec == Init /\ [][Next]_vars

(* The hook's and the operator's processes run, and each Lumigo that is    *)
(* being deleted is reconciled.                                            *)
Fairness ==
    WF_vars(Hook) /\ \A l \in Lumigoes : WF_vars(Finalise(l)) /\ WF_vars(Adopt(l))

FairSpec == Spec /\ Fairness

-----------------------------------------------------------------------------
(***************************************************************************)
(* Properties.                                                             *)
(***************************************************************************)

(* "when all Lumigo resources have been deleted, the uninstallation hook   *)
(* completes": it does not go on before the Lumigoes it listed are gone,   *)
(* whatever the informer sees of them.                                     *)
DeletedFirst ==
    pc \in {"namespaces", "succeeded"} \cup Sweeping =>
        \A l \in Lumigoes : awaited[l] # 0 => lumigoes[l].uid # awaited[l]

(* Once the hook has succeeded, templates are as their users wrote them or *)
(* without any of Lumigo's parts in every namespace it did not give up,    *)
(* except for what others wrote since its sweep began.                     *)
TemplatesRestored ==
    pc = "succeeded" =>
        \A w \in Workloads \ dirty :
            ~WorkloadTraits[w].owned /\ WorkloadTraits[w].kind # "Job"
                /\ WorkloadNamespace[w] \notin abandoned
            => workloads[w].template = own[w] \/ LumigoFree(workloads[w].template)

(* Whatever the operator, the hook and the webhook do to a template, and   *)
(* with whichever settings: what the user wrote beside Lumigo's names      *)
(* stays.                                                                  *)
OwnPartsKept == \A w \in Workloads : SameOwn(workloads[w].template, own[w])

(* The job does not use up its retries by itself: a pod that waits for     *)
(* deletions its informer missed, or closes the channel again, leaves no   *)
(* Lumigo behind for the next one, so that at most one pod fails without   *)
(* anybody having disturbed it.                                            *)
FailsOnlyIfDisturbed ==
    /\ failures <= disturbances + 1
    /\ pc = "failed" => disturbances >= BackoffLimit

(* The hook's sweep does not compete with the operator: having waited for  *)
(* the Lumigoes, it meets with a conflict, or gives a namespace up, no more*)
(* often than others created or deleted Lumigoes, wrote workloads or made  *)
(* its requests fail.                                                      *)
GivenUpOnlyIfDisturbed == Cardinality(abandoned) + attempt <= disturbances

(* How far the Lumigo is in its life.                                      *)
StageOf(o) ==
    CASE ~Exists(o) -> "absent"
      [] Exists(o) /\ o.deleting -> "leaving"
      [] OTHER -> IF o.fin THEN "kept" ELSE "new"

Life == INSTANCE LumigoLifecycle
    WITH life <- [l \in Lumigoes |-> lumigoes[l].uid], lives <- creations,
         stage <- [l \in Lumigoes |-> StageOf(lumigoes[l])]

(* The uninstallation takes Lumigoes through the same life as the operator *)
(* does (LumigoReconciler), whoever asks for their deletion.               *)
ImplementsLifecycle == Life!Spec

place == <<pc, namespacesLeft, namespace, phase, todo, attempt>>

(* The sweep does not turn back: namespaces, kinds, workloads and attempts *)
(* are taken one after the other, and each only a bounded number of times. *)
Ahead ==
    \/ pc' \notin Sweeping
    \/ namespacesLeft' \subseteq namespacesLeft /\ namespacesLeft' # namespacesLeft
    \/ namespace # None /\ namespace' = None /\ UNCHANGED namespacesLeft
    \/ phase' \in (phase + 1)..5 /\ UNCHANGED <<namespacesLeft, namespace>>
    \/ /\ todo' \subseteq todo /\ todo' # todo
       /\ UNCHANGED <<namespacesLeft, namespace, phase>>
    \/ /\ attempt' \in (attempt + 1)..(MaxAttempts - 1)
       /\ UNCHANGED <<namespacesLeft, namespace, phase, todo>>
    \/ /\ pc = "sweep" /\ pc' = "update"
       /\ UNCHANGED <<namespacesLeft, namespace, phase, todo, attempt>>

(* uninjectStandaloneResources comes to an end, however often its updates  *)
(* are rejected and its requests fail.                                     *)
SweepGoesAhead == [][(pc \in Sweeping) => Ahead \/ UNCHANGED place]_vars

(* The hook succeeds although the informer may miss the deletions and hang *)
(* until the deadline, unless it is disturbed as often as it is retried.   *)
Completes ==
    <>(pc = "succeeded" \/ (pc = "failed" /\ disturbances >= BackoffLimit))
================================================================================
