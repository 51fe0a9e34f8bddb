# The Lumigo Kubernetes operator in TLA+

This directory holds TLA+ specifications of the operator in `src/`, the TLC
configurations that check them on small instances, and proofs for TLAPS. It is
written from the code; where this text quotes the repository it says where.

Run a check with `tlc -config lifecycle.cfg MCLumigoReconciler` and check the proofs of a
module with `tlapm LumigoReconcilerProofs.tla`; the modules with proofs are those whose name ends in
`Proofs`. `PROJECT.json` lists the runs, the lines every definition models, the findings, the
hazards and the theorems.

## 1. Inventory

| Component | State | Operations | Talks to |
|---|---|---|---|
| **Reconciler** (`controller/src/controllers/lumigo_controller.go`, `lumigo_resource_manager.go`) | none of its own: Lumigo resources (spec, finalizer, conditions, instrumented resources) and workloads at the API server, copies of both in the client cache | `Reconcile`: finalizer, duplicate check, token check, creation sweep, namespaces file, event rebinding, references, status; on deletion removal sweep, finalizer, namespaces file, status | API server, client cache, namespaces file |
| **Conditions** (`controllers/conditions`) | Active and Error of a Lumigo | set, clear | reconciler, webhook |
| **Mutators** (`mutation/mutate.go`) | a pod template (volumes, init containers, containers with their mounts and variables) and the `lumigo.auto-trace` label | inject, remove | reconciler, webhook, uninstaller |
| **Injector webhook** (`webhooks/injector`) | none; reads the cache | admit the creation or update of a workload | API server (failure policy Ignore) |
| **Defaulter webhook** (`webhooks/defaulter`) | none; reads the cache | admit the creation or update of a Lumigo | API server (failure policy Fail) |
| **Namespaces file** (`controllers/telemetryproxyconfigs`) | a JSON file on a volume of the pod | upsert, remove (read, change, write) | read by the telemetry proxy and the events scraper |
| **Operator process** (`main.go`) | caches, manager | start, quickstart | API server |
| **Uninstaller** (`main.go --uninstall`, a job of the chart's pre-delete hook) | the Lumigoes it listed and has not seen deleted, an informer, the progress of its sweep | delete all Lumigoes, wait, remove the instrumentation in all namespaces | API server, and through it reconciler and webhook |
| **Configuration watcher** (`telemetryproxy/docker/entrypoint.sh`) | generated collector configuration, last checksum | generate, watch, reload | namespaces file, collector |
| **Objects receiver** (`telemetryproxy/src/receiver/k8sobjectsreceiver`) | per configured type a goroutine with its ticker or watch, the resource version it is at, the list of stoppers | start, pull, watch, retry, shut down | API server, collector pipeline |
| **Heartbeat receiver** (`receiver/heartbeatreceiver`) | a ticker | emit a log | collector pipeline |
| **Data enricher** (`telemetryproxy/src/processor/k8sdataenricherprocessor`) | LRU caches of object versions, pods by UID, informers, the channel `ObjectResourceVersions`, a shared client | register versions, resolve owners, look up what events refer to, drain the channel | API server, collector pipeline |
| **Watchdog** (`watchdog/src`) | watch and tickers | watch events, collect metrics | API server |

What is hard, and what makes each part correct:

* *Reconciler, webhooks, users.* The reconciler lists workloads at the API server,
  reads them from a cache that lags, and updates them through a webhook that runs
  in the same process and reads the same cache; users change everything meanwhile.
  Any request can conflict or fail, and the process can stop between any two.
  Correct means: one active Lumigo in a namespace, conditions that agree, no
  instrumentation against a user's will, none left behind, all that should be
  there, and a state that settles.
* *Namespaces file and watcher.* A non-atomic write read by other containers,
  checksums taken at the wrong moment. Correct means: the collector ends up with
  what the file says, and the file says which namespaces have a Lumigo.
* *Uninstaller.* It learns of deletions from an informer that it starts at the same time as it
  requests them; the operator finalises beside it, users create Lumigoes, and its pod is retried only
  so often. Correct means: it goes on once every Lumigo it listed is gone and not before, it ends, and
  afterwards the templates are what their users wrote.
* *Mutators.* They match what they look for by name, path or volume, not always the same one on the
  way in and on the way out. Correct means: removal undoes injection, injection replaces older
  injection, what is the user's stays.
* *Objects receiver.* Watches that expire or end, a shutdown and a start at every change of the
  monitored namespaces. Correct means: what a watch misses, pulling makes up for.
* *Data enricher.* Informers, goroutines that send and two pipelines of batches share caches of
  limited size and a bounded channel that is only read when a batch passes. A version is announced
  when it is first cached, never again. Correct means: what was announced reaches a batch, an event's
  object is announced, the channel drains, a pod's UID finds its newest version.

## 2. Modules

| Module | Models |
|---|---|
| `Instrumentation` | the two mutators, the selectors and the injector webhook's effect, on one workload |
| `LumigoConditions` | the Active and Error conditions |
| `LumigoReconciler` | one namespace: its Lumigoes, workloads, cache, reconciler, webhooks, users and failures; composes the two above |
| `MCLumigoReconciler` | values of the constants for TLC |
| `LumigoReconcilerProofs` | theorems about `LumigoReconciler` |
| `LumigoLifeProofs` | theorems about sweeps, finalizer, namespaces file and the end of reconciles in `LumigoReconciler` |
| `LumigoSuccession`, `LumigoSuccessionProofs` | abstract: which of the Lumigoes of a namespace is active |
| `LumigoLifecycle` | abstract: the life of each Lumigo, from its creation over its finalizer to its end |
| `LumigoRefinementProofs` | that `LumigoReconciler` implements `LumigoSuccession` and `LumigoLifecycle` |
| `PodTemplate`, `PodTemplateProofs` | the mutators on pod templates, and that `Instrumentation` describes them |
| `Uninstaller`, `MCUninstaller`, `UninstallerProofs` | the uninstallation hook beside operator and users, on workloads of `PodTemplate` |
| `TelemetryProxyConfig`, `TelemetryProxyConfigProofs` | the cluster's namespaces file, its writers and its readers |
| `ClusterObjects` | what the telemetry components see of a cluster: objects, their versions, events |
| `ObjectsReceiver` | the goroutines of the objects receiver |
| `DataEnricher` | cache, informers, channel and enrichment of logs |
| `ObjectsPipeline`, `MCObjectsPipeline`, `ObjectsPipelineProofs` | the pipelines that compose receiver and enricher, up to the export |

### Instrumentation

A workload is its `lumigo.auto-trace` label and whether its pod template is
instrumented. The mutators add and remove the init container, volume, mounts and
variables together, so one Boolean stands for them (`PodTemplateProofs` proves that it may). The label takes the values users
write (`none`, `true`, `false`, and `False` for any other spelling), and those of the
operator (`skip` for `skip-next-injector`, `lumigo` for `lumigo-operator.v<version>`).
What never changes about a workload, its *traits*, decides what the mutators report:
ReplicaSets of Deployments are left alone, and a container without environment
variables makes the removal report a change even when there is nothing to remove
(`removeLumigoFromPodSpec` replaces a missing list by an empty one and compares
with `reflect.DeepEqual`).

### LumigoReconciler

State: `lumigoes` and `workloads` are the API server's objects; `cache`,
`undelivered` and `workloadCache` the client cache and the changes still on their
way to it; `secretValid` and `monitored` what the token check and the namespaces
file say; `up` the process. `pc`, `name`, `read`, `phase`, `todo`, `attempt`
and `found` are the local variables of the reconcile in progress; there is one worker.

| Action | Code |
|---|---|
| `Begin` | `Reconcile` up to the deletion test: the Lumigo is read from the cache |
| `AddFinalizer`, `DropFinalizer` | the two `r.Update` calls; a conflict ends the reconcile |
| `Check` | duplicate check against the cached list, then the token |
| `ListKind`, `Attempt`, `FinishSweep` | `injectLumigoIntoResources` and `RemoveLumigoFromResources`: kind after kind, workload after workload, attempt after attempt |
| `Telemetry`, `Unmonitor` | the update of the namespaces file |
| `ListReferences`, `UpdateStatus` | `getInstrumentedObjectReferences`, `updateStatusIfNeeded` |
| `CreateLumigo`, `EditSpec`, `DeleteLumigo`, `EndForeground` | users (through the defaulter webhook) and the garbage collector |
| `CreateWorkload`, `TouchWorkload`, `RelabelWorkload`, `DeleteWorkload` | users (through the injector webhook) |
| `ChangeSecret` | the cached secret becomes valid or invalid |
| `SyncLumigoes`, `SyncWorkload` | the watches that fill the client cache |
| `ApiFault`, `FileFault`, `Crash`, `Restart` | failures |

Steps of other actors interleave between any two requests of a reconcile.

What the model abstracts, and why that is sound:

* *Resource versions.* An update is rejected when the copy it starts from differs from
  the stored object. A rejection although the contents agree (after a write of a field
  the model leaves out) is one of the `api` failures.
* *The watch of Lumigoes* delivers up to `MaxUndelivered` changes one by one; when more
  are under way the two oldest arrive together. Workloads of different kinds come through
  different watches, so each workload is delivered on its own; of several changes of one
  workload only the last is seen, since an older copy differs from the stored one just as
  much. With `WorkloadCacheLags` FALSE they are delivered at once.
* *Requests.* Every reconcile of an existing Lumigo asks for another one after one or ten
  seconds, so the model lets a cached Lumigo be reconciled whenever the worker is idle.
* *References* are collected in one step, not kind by kind; the status only needs them to
  be of one moment within the reconcile.
* *Jobs* are never swept (only events are recorded), and an update of one that would change
  its pod template is rejected.
* *A panic* of `addAutoTraceSkipNextInjectorLabel` on an object without labels is recovered by
  the controller runtime, which is the same as a failed reconcile.
* *A lost answer* to a request that was carried out is a crash right after it.
* Not modelled: the contents of tokens, the rebinding of events, an empty spec (the
  defaulter fills it in), the deletion of the namespace, changes of the operator's version.

### TelemetryProxyConfig

`LumigoReconciler` only knows whether its namespace is in the namespaces file; this module
models the file. The manager container writes it to a volume of the controller's pod, which two
other containers of the pod share: the events scraper, which watches it, and a web server, from
which the telemetry proxy's pods download it.

State: `lumigo`, `due` and `lost` say what the reconciles of each namespace ask for; `file` and
`copy` are the shared file and the proxy's copy; `pc`, `request` and `updated` the update in
progress; `watcher`, `sha` and `config` the state of each `entrypoint.sh`; `reload`, `running` and
`collecting` its collector.

| Action | Code |
|---|---|
| `Upsert`, `Remove` | the calls in `Reconcile`; a deleted Lumigo's is made once |
| `ReadFile`, `Truncate`, `Write` | `updateTelemetryProxyMonitoringOfNamespace`; `os.WriteFile` is two steps |
| `TestFile`, `TruncateFile`, `FillFile` | the script creates a missing or empty file |
| `OpenConfig`, `Render`, `Sum` | `generate_configs` |
| `Launch`, `Signal` | the start of the collector, `trigger_config_reload` |
| `WatchFile`, `Download` | the two watch loops |
| `Reload` | the collector handles SIGHUP; it exits when the configuration is truncated (`events-config.yaml.tpl:10` says that an empty one "will fail the collector to start") |
| `CrashManager`, `CrashContainer`, `ReplacePod`, `DownloadFault` | failures |

A file is what its readers make of it: missing, empty, `[]`, a list (the manager writes `null`
when there is nothing in it, which differs from `[]` and so changes the checksum), or something
that cannot be parsed. The last happens when the script creates the file while the manager writes
it: `[]` lands on the start of the manager's list. Whether gomplate renders an empty file
is not in the repository; `EmptyRenders` says so, and `proxy_config` assumes that it does. If it
does not, a download during the manager's write ends the proxy's watcher, and TLC refutes
`ProxyFollows`. A behaviour follows one of the containers (`Followed`); the events scraper, which
creates the file, takes part in that in every behaviour.

### LumigoSuccession

The promise to the users of a namespace, without reconciler, caches or conditions: Lumigoes arrive
and leave; only the one that has been there longest can become active, and stays so until it
abdicates or leaves. `LumigoReconciler` implements it with a Lumigo's uid as its arrival and the
Active condition as `governing` (`ImplementsSuccession`): creating a Lumigo is `Arrive`, its end
`Leave`, a status update `Accede`, `Abdicate` or a stutter, and every other step a stutter.

### LumigoLifecycle

What the API server, users and operator make of one Lumigo, which is *absent*, *new* (without the
operator's finalizer), *kept* (with it), *leaving* (being deleted, with it) or *held* (being deleted, kept
only by another finalizer, such as that of a foreground deletion). No step is taken back within one life. Two modules implement it
(`ImplementsLifecycle` in each), with different grains: in `LumigoReconciler` `Keep` and `Release` are updates from copies that may
be out of date, each of which can be rejected; in `Uninstaller` they are the operator's work as a
whole. So what the uninstallation takes for granted of the operator is checked, and proved, of the
reconciler.

### PodTemplate

A pod template is its volumes, its init containers and, for each container, mounts and variables.
Lists of named things are functions from names; both mutators keep the order of what they leave.
`OwnNames` are the user's, the names of `mutate.go`'s constants are Lumigo's, and the user may have
given one of those to something of its own (`LD_PRELOAD`). What an injected part contains follows from
the operator's *settings* (version, endpoints, token, what is enabled), one value.

| Definition | Code |
|---|---|
| `Inject` | `injectLumigoIntoPodSpec`: volume and init container by name, mounts by path, variables by name |
| `Strip`, `StripMutates` | `removeLumigoFromPodSpec`: mounts by volume, init container and volume by their matchers, empty environments |
| `InjectInto`, `RemoveFrom` | `InjectLumigoInto...`, `RemoveLumigoFrom...` with the label |
| `ProcessedByWebhook`, `AdmittedTemplate` | `processResourceInjection` and the webhook's decision |
| `HasInjector` | `BeInstrumentedWithLumigo` (`matchers.go`) as it behaves: it returns at the init container and never gets to the volume and the labels |

Not in the model: names that occur twice in a list, image pull secrets and resource limits.

### Uninstaller

State: `lumigoes` and `workloads` are the API server's, for all namespaces; `own` the templates as
their users wrote them. `pc`, `awaited`, `left`, `toDelete`, `informer`, `events` and the
variables of the sweep belong to the current pod of the hook's job; `failures` counts the pods that
failed. `abandoned` and `dirty` say where the properties cannot hold.

| Action | Code |
|---|---|
| `List`, `Delete`, `Wait`, `Proceed` | `removeLumigoFromMonitoredNamespaces` |
| `InformerLists`, `DeleteFunc`, `InformerStops` | its informer, which runs in a goroutine of its own |
| `PassDeadline`, `PodFails` | `activeDeadlineSeconds` and `backoffLimit` of the chart's job |
| `ListNamespaces`, `EnterNamespace`, `ListKind`, `FinishNamespace`, `Get`, `Update`, `Succeed` | `uninjectStandaloneResources` and the sweep over each namespace, workload by workload, attempt by attempt |
| `Adopt`, `Finalise` | the operator: what `LumigoReconciler` does with a Lumigo, in one step |
| `CreateLumigo`, `DeleteLumigo`, `TouchWorkload` | users, through the webhooks |
| `RequestFails`, `Tombstones` | failures; an informer that was disconnected hands on tombstones, which `DeleteFunc` does not recognise |

What the model abstracts:

* *The operator.* A reconcile is one step, caches do not lag, every Lumigo has the default settings
  and those that exist at the start are adopted. `LumigoReconciler` models what happens inside.
  Helm removes the operator after the hook, so it and its webhooks are there until then.
* *The deadline* passes when the pod hangs, or as one of the disturbances; otherwise it is long enough.
* *Double close.* Closing the informer's channel again panics; the panic ends the pod, like an error.
* *Kinds* are listed one after another as in the code; within a kind the order does not matter.
* *Workloads* have another label besides `lumigo.auto-trace`, so that the map of labels is never
  nil when the removal writes into it (the hazard at `lumigo_controller.go:849`).

### ClusterObjects, ObjectsReceiver, DataEnricher, ObjectsPipeline

`events-config.yaml.tpl` configures the receiver to pull and to watch both Kubernetes objects and
events. A batch of either goes through one pipeline for all namespaces (enricher, filter,
routing) and then through its namespace's own (enricher, exporter). `ClusterObjects` is the API server:
`history` has all versions of all objects, `stored` the current ones, `events` the versions that
events refer to. The model follows one monitored namespace.

| Action | Code |
|---|---|
| `RegisterStopper`, `Stops`, `Reload` | `startPull`, `startWatch`; `Shutdown` and the next `Start`, once for each change of the configuration |
| `GetResourceVersion`, `ListFails`, `Gone`, `ChannelCloses` | `getResourceVersion`, `doWatch`: 410 starts over, any other error ends the watch |
| `Receive`, `ConsumeReturns`, `Consume` | the tick or watch event, and `ConsumeLogs` around the whole pipeline |
| `Inform`, `InformAgain` | the informers' handlers |
| `Register`, `Send`, `Evict` | `lruWithIndexer.Add`, the goroutine it starts, the LRU's eviction |
| `Started`, `Unlocated` | `addResourceAttributes`: which namespace a batch gets, if the pod is found and if the request for it fails |
| `ObjectRecords`, `EventRecord` | the loop over log records |
| `Walk`, `RegisterFetched` | `GetRootOwnerReference`, `resolveOwnerReferences` |
| `Ensure` | `EnsureObjectReferenceIsKnown` |
| `RequestFails` | an API request failed in all of `retry`'s attempts |
| `Route`, `Export` | the end of `processResourceLogs`, which takes everything from the channel; filter, routing connectors and exporter |

What the model abstracts:

* *The cache.* The generic key of an object only serves to read its owner references, which do not
  change: whether the key is there is all that matters. Looking up a key and adding it is one
  step, so is adding both. Eviction may take any key at any time. `KubeClient` is a singleton whose
  `Stop` does nothing: caches and informers survive reloads.
* *The channel* is a set: order and duplicates make no difference to what is exported. Draining it is
  one step. A list of objects is registered in one step.
* *Informers.* Both handlers of an informer are one step; there is no resync (its period is 0), and a
  list after a lost connection is `InformAgain`.
* *Deletions and names.* An object that is deleted does not come back under its name.
* *Owners* are first relevant owners; the run has a chain of two.
* *Pods without address.* `GetPodByNetworkConnection` finds the first pod without an IP address for
  a batch that has no connection, and gives the batch that pod's namespace (`addressless`). The request
  for it may fail, for good, at any batch (`Unlocated`): the batch then has the namespace that pulling gave it,
  or none. That is not limited by `MaxFaults`.
* Not modelled: traces and metrics, which only read the cache; objects of other namespaces in the
  same batch; failures of the exporter and crashes of the collector, which lose what is in
  memory; the goroutine that is left over when `Shutdown` overtakes the registration of a
  stopper.

## 3. Runs

The runs do not check for deadlock: a namespace whose users are done and that has no Lumigo left,
and a hook that has ended, really stop; so does a collector whose watches have ended and that has
nothing to pull. Runs without a module in the table use `MCLumigoReconciler`.
Bounds: `MaxCreations`, `MaxEdits` and `MaxFaults` limit what users and the environment do;
the reconciler itself is never limited. (`TelemetryProxyConfig` has `MaxChanges` and
`MaxFaults`, `Uninstaller` `MaxDisturbances`, `ClusterObjects` `MaxVersions`, `MaxEvents` and
`MaxFaults` for the same.) `MaxAttempts` is 2 instead of 5: one attempt that is retried and
one that is the last.

| Run | Instance | Shows |
|---|---|---|
| `lifecycle` | 2 Lumigoes, 3 creations, 2 edits, 1 failure of any kind, 2 undelivered changes | `AtMostOneActive`, its inductive invariant `OldestGoverns`, `ImplementsSuccession`, `ActiveHasFinalizer`, `ConditionsExclusive`, `NoReactivation` |
| `removal` | DaemonSet and Deployment, 3 edits, 2 failures | `RemovalComplete`, `ReconcileGoesAhead` |
| `creation` | DaemonSet, Deployment, CronJob, 2 creations, 2 edits | `CreationSweepComplete`, `MonitoredHasLumigo`, `OptOutNotInstrumented` |
| `convergence` | 2 Lumigoes, 1 workload, 2 creations, 2 edits, fair | `Converges`, `CollectionEnds`, `CalmStays` |
| `deletion` | Deployment with a lagging cache, foreground deletions, 2 creations under one name, 3 edits, 1 failure, fair | `DeletionCompletes`, `ImplementsLifecycle`, `OptOutNotInstrumented`, `TypeOK` |
| `proxy_config` | module `TelemetryProxyConfig`: 2 namespaces, 2 changes, 1 failure of any kind, fair | `EntriesOwed`, `QuietIsCurrent`, `ProxyFollows`, `TypeOK` |
| `pipeline` | module `MCObjectsPipeline`: a pod that creates and owns a Job, objects pulled and events watched, a channel of size 1, 2 versions, 1 event, 1 disturbance of any kind, fair | `NothingVanishes`, `EventAnswered`, `CurrentExported`, `QueueDrains`, `PodCacheFresh`, `TypeOK` |
| `uninstall` | module `MCUninstaller`: 2 namespaces with a Lumigo or none, a Deployment and a DaemonSet (which the webhook does not see), injected or not, with current or earlier settings; 3 pods of the job, 2 disturbances, fair | `DeletedFirst`, `TemplatesRestored`, `OwnPartsKept`, `FailsOnlyIfDisturbed`, `GivenUpOnlyIfDisturbed`, `SweepGoesAhead`, `ImplementsLifecycle`, `Completes`, `TypeOK` |

Two Lumigoes are what the duplicate check compares, and three creations let a name be used
again. Two failures exhaust the attempts at a workload. Three kinds show an order with a
first, a middle and a last one. Two edits are a change and the deletion that races it.
A channel of size 1 is full as soon as a second version is announced, and two versions are two objects, one
of which owns the other, or two versions of one. In `uninstall` one attempt of the job can be lost without any
disturbance (a Lumigo is gone before the informer has listed), so three attempts and two disturbances
are the smallest instance in which the hook can also fail.

Four further runs each end in a counterexample: the code does something that its
documentation or a comment denies. `PROJECT.json` quotes the lines.

| Run | Property | What happens |
|---|---|---|
| `same_second` | `AtMostOneActive` | creation times have whole seconds; two Lumigoes of one second are both first |
| `deleted_while_creating` | `DeletionUninstruments` | deleted during its first reconcile, a Lumigo never becomes active and its instrumentation is not removed |
| `stale_removal` | `RemovalComplete` | a copy from before the injection has nothing to remove |
| `scraper_config` (`TelemetryProxyConfig`) | `CollectionHalts` | a change between the generation of the configuration and the checksum is never noticed |

They also say what the passing runs assume. The properties are stated with the following
exceptions, each of which the model contains and TLC reports when the instance is widened:

* `RemovalComplete` holds with a cache of workloads that does not lag (`stale_removal`), and for
  workloads no user wrote during the removal: the webhook goes by the Active condition, so an
  update that comes after the sweep passed and before the Lumigo is gone instruments the
  workload again. It goes by the template, whatever label its user gave the workload before the removal. The selector
  (`AutoTraced`) leaves out a workload without the label or with `false`; one whose user set that
  after the injection keeps the instrumentation, and is the only exception.
* `CreationSweepComplete` holds for an instance without deletions of workloads and failures: one workload that cannot be read ends the sweep for all that are left, the error is only
  logged, and the Lumigo turns active. It is about workloads without the label, which the sweep
  selects. A DaemonSet, from which no webhook takes the `skip-next-injector` of an earlier removal, is
  not among them: once its instrumentation was removed, later Lumigoes pass it over.
* `OptOutNotInstrumented` excepts relabelling. In `deletion`, where users relabel, an update that
  keeps the label leads to the same state as one that changes it, so that run checks the sweeps;
  `creation`, where they do not, checks the webhook. It is about instrumentation, not the label: the removal re-reads a
  workload without checking its label again, and its selector takes `False` for a label
  like any other, so it can replace an opt-out by `skip-next-injector`.
* `NoReactivation` holds without foreground deletions: a Lumigo being deleted that only has
  foreign finalizers left is handled as a live one, and can turn active. `deletion`, which has
  foreground deletions, checks that it is not given the finalizer again (`ImplementsLifecycle`).
* `CollectionEnds` holds without crashes: the finalizer is dropped before the namespaces
  file is written, and nothing reconciles a Lumigo that is gone.
* `AtMostOneActive`, the theorem `OneActive` and `CalmStays` need distinct creation times (`same_second`).
* `CalmStays` is about a namespace without creation sweep to do: a Lumigo that is settled is active or
  in error. Users and failures, which it excepts, are all that can disturb it.
* `QuietIsCurrent` is about the telemetry proxy; the events scraper's checksum can be ahead of
  its configuration (`scraper_config`).
* `ProxyFollows` assumes that the file is not left damaged: after a crash between truncation and
  write the manager fails to parse it until the events scraper's container starts again. What it
  checks is that readers get over an empty file that is being written.
* `CurrentExported` assumes that the first pod without an address is not in another namespace for
  good: its namespace would become that of every batch. It counts on pulling alone; a watch that
  ended stays so until the next reload. It is about current versions: one that was replaced before
  anybody pulled it may be lost (`lost`).
* `QueueDrains` needs something to pull: the channel is only read when a batch passes.
* `FailsOnlyIfDisturbed` allows one pod to fail undisturbed: the one whose informer misses
  a deletion, so that it waits until it is killed, or hands one on twice, so that it closes a closed channel.
* `TemplatesRestored` excepts namespaces whose sweep was given up, which is only logged
  while the hook succeeds, and workloads that someone else wrote since the sweep began. A workload that a
  user labels `false` after its injection keeps it, since the selector leaves it out. How often a namespace is given up is
  bounded by `GivenUpOnlyIfDisturbed`: once the Lumigoes it listed are gone, the hook has nobody to conflict with but
  users and an operator that finalises Lumigoes created since. Each disturbance costs one attempt.
* DaemonSets are instrumented by the creation sweep only: the webhook looks for a kind
  `Daemonset` (`WebhookHandles`).

### Fairness

`Fairness` (used by `convergence` and `deletion`) assumes that the worker
goes on with the reconcile it is in, that the watches deliver, that the process is restarted
and that the garbage collector finishes foreground deletions (weak fairness of `Reconcile`,
`SyncLumigoes`, `SyncWorkload`, `Restart`, `EndForeground`). The worker is shared, so a
Lumigo could be passed over while others are reconciled; the work queue is first come, first
served and every reconcile ends with a requeue after `defaultRequeuePeriod` or
`defaultErrRequeuePeriod` (or the rate limiter's delay), long after watches deliver: hence strong
fairness of reconciling each Lumigo with an up-to-date copy. In `TelemetryProxyConfig` the manager,
the scripts and the collectors go on (weak), each namespace is reconciled again (strong, as
above), and the proxy, which downloads every five seconds, again and again does so while the file is
not being written (strong). In `ObjectsPipeline` goroutines run, tickers tick and informers hand on what
exists (weak; the ten-minute tick is a step that is always enabled). In `Uninstaller` the hook's
process runs, and the operator adopts and finalises every Lumigo (weak: nothing disables those but
their being done). Nothing is assumed of users and failures.

## 4. Proofs

`LumigoReconcilerProofs` proves, for all values of the constants that satisfy `ConstantsOK`:

* `TypeCorrect`: `Spec => []TypeOK`. `TypeOK` is inductive: besides types it says that
  only a running process reconciles, that only a sweep has workloads left and that attempts
  stay within `MaxAttempts`.
* `OneActive`: `Spec => []AtMostOneActive` if creation times are distinct
  (`DistinctSeconds`; `same_second` shows that it does not hold otherwise).
  `AtMostOneActive` is not inductive: nothing in it says why a reconcile past its check may set
  the condition. `OldestGoverns` does. Its parts: uids are unique and grow (`UidsOK`);
  every view of the cache, present or to come, that shows a Lumigo shows all older ones that
  still exist, and so does each later view (`ViewsComplete`); the Lumigo that a reconcile works
  for is in all of them while it exists (`ReadStaysCached`); hence a reconcile that passed
  its check works for the oldest Lumigo or for one that is gone (`ApprovedIsOldest`), and only
  the oldest is active (`ActiveIsOldest`). `lifecycle` checks the same invariant.
* `OptOutRespected`: `Spec => OptOutNotInstrumented`, from `TypeOK`: a sweep's write needs a
  current copy, the mutator leaves one that opts out alone, and so does the webhook.
* `NeverActiveInError`: `Spec => []ConditionsExclusive`, which is inductive with `TypeOK`.

`LumigoRefinementProofs` proves, the first two for distinct creation times:

* `OldestAlwaysGoverns`: `Spec => []OldestGoverns`.
* `ReconcilerImplementsSuccession`: `Spec => ImplementsSuccession`. `OldestGoverns` makes a status
  update that sets Active an `Accede`; the uid of a Lumigo, one above all before it, makes a
  creation an `Arrive`. `LumigoSuccessionProofs` proves of the abstraction that at most one governs
  (`SuccessionIsUnique`, with `Order` as its inductive invariant).
* `ReconcilerImplementsLifecycle`: `Spec => ImplementsLifecycle`, foreground deletions, equal creation times and all failures
  included. Two facts carry it. `Tidied`: a stored Lumigo that is being deleted is there because a finalizer
  keeps it. `ReadForLife`: the finalizer is added for a copy that was read alive and without it, and removed for one
  that was read as being deleted and with it; nothing a reconcile does in between changes that, and
  the update is only accepted if the copy is still the stored one.

`LumigoLifeProofs` follows a Lumigo from its first sweep to its end. Its assumptions are those the runs
need too:

* `FinalizerGuardsActive`: `Spec => []ActiveHasFinalizer` without foreground deletions
  (`NoForeground`). `FinalizerInv` says it of every copy of a Lumigo, stored, cached or on
  its way, and of the copy that a reconcile works with.
* `RemovalIsComplete`: `Spec => RemovalComplete` with `NoForeground` and a cache of workloads that
  does not lag. `RemovalInv` says that what the sweep has passed, by kind and by workload, is clean
  unless a user wrote it or the selector leaves it out; and that only the drop of the finalizer ends an active Lumigo.
* `CreationSweepIsComplete`: `Spec => CreationSweepComplete` without relabelling, deletions of
  workloads and failing requests, along the same lines.
* `CollectionHasLumigo`: `Spec => []MonitoredHasLumigo` with `NoForeground`, and without crashes
  and failing writes of the file (`ReliableFile`). `CollectionInv` says that a Lumigo that is live in any
  copy, present or to come, still has its finalizer, that the one a reconcile removes is live in none, and
  that while the file names the namespace some Lumigo has its finalizer or the removal is next.
* `DeletionIsFinal`: `Spec => NoReactivation` with `NoForeground`: a reconcile that gets past the
  deletion test works with a copy that was not being deleted (`ApprovedLive`), and its status update
  only succeeds if that copy is still the stored one.
* `ReconcileEnds`: `Spec => ReconcileGoesAhead`, from `TypeOK` alone. Each step of a reconcile makes
  its place smaller in one order: the steps of `Reconcile` that are left (`Rank`), then kinds,
  workloads listed, attempts. Whatever others do, they do not make it larger. The safety half of `DeletionCompletes`.
* `CalmIsStable`: `Spec => CalmStays` with `DistinctSeconds`: the safety half of `Converges`. In a calm namespace the cache
  is up to date, so that the duplicate check lets the oldest Lumigo pass and no other (`FirstIsOldest`
  and `PassedIsOldest`, the latter with `OldestGoverns`), and the status that is written is the one that was
  read (`CalmStatus`).

`TelemetryProxyConfigProofs` proves, for all values that satisfy `ProxyConstantsOK`:

* `ConfigTypeCorrect`: `Spec => []TypeOK`. `TypeOK` is inductive; besides types it says that an
  idle manager holds no request and nothing to write.
* `NothingComesBack`: `Spec => []EntriesOwed`. Missing for induction is `RequestOwed`: a request
  that adds an entry is that of a Lumigo which exists, or has been deleted since, so that its
  removal is still to come; and what is about to be written agrees with the request. Who
  else writes the file writes no entries into it (`OthersAddNothing`).
* `ProxyUpToDate`: `Spec => []QuietIsCurrent`, from `ScriptInv`, which follows the script from
  the generation over the checksum to the watch loop: nobody but the script writes
  the proxy's copy, and not while it generates. This is what the events scraper lacks.

`ObjectsPipelineProofs` proves, for any objects, owners, goroutines and bounds:

* `TypeCorrect`, `VersionsDoNotVanish` and `EventsAreAnswered`: `TypeOK`, `NothingVanishes` and
  `EventAnswered` are invariants. One inductive invariant, `IInv`, has all three: besides types
  it says that every version that is cached, waiting, sent or in the hands of a goroutine is one the API
  server had (`KnownVersions`, `KnownSent`, `Sound`), and that the answer a goroutine holds is one of the object it asked for, not
  older than what the event refers to (`Answers`).

`PodTemplateProofs` proves, for any names, data, containers and settings:

* `InjectionReplaces`: injecting over an injection with other settings is the same as injecting at once.
* `RemovalUndoesInjection`: the removal of an injection gives back the template if, and only if, it has nothing of Lumigo's and
  mounts nothing at Lumigo's path. Volume, init container, variables and such a mount of the user's are what is lost.
* `RemovalLeavesNothing`: where Lumigo's names are not the user's, nothing of Lumigo is left.
* `MutatorsImplementInstrumentation`: on templates that have nothing of Lumigo's and on those injected with the settings in use
  (`Instrumentable`), the label and Boolean of `Instrumentation` follow those of the mutators step by
  step. This justifies the abstraction `LumigoReconciler` is built on, where the operator's version does not change. Templates
  injected with other settings are in `Uninstaller`.

`UninstallerProofs` proves:

* `Types`: `TypeOK`, inductive with `Working` (where the hook is tells what it works on).
* `LumigoesGoFirst`: `Spec => []DeletedFirst`. `Tracked` says that a Lumigo that is off the list, or
  whose deletion the informer has in hand, is gone, whoever else has its name now (`Gone`); and
  that the informer is only stopped when nothing is left.
* `OwnPartsStay` and `UninstallationRestores`: `OwnPartsKept` and `TemplatesRestored`, for users who
  do not use Lumigo's volume, path and init container for something else (`UsersAvoidLumigo`). Every
  stored template is derived from its user's by injection and removal (`Derived`); what the sweep has
  passed is restored unless dirty or abandoned (`SweepInv`). The webhook does not undo it: the
  `skip-next-injector` label makes it leave the workload alone.
* `JobFailsOnlyIfDisturbed`: `Spec => []FailsOnlyIfDisturbed`. `Accounted` keeps the books. While every pod that failed
  had a disturbance of its own, each Lumigo the running pod listed is `Pursued`: waited for, with its deletion requested or
  about to be. So when a pod fails undisturbed, because its informer missed a deletion or handed one on twice, no
  Lumigo is left, and the pod after it has nothing to wait for.
* `SweepFailsOnlyIfDisturbed`: `Spec => []GivenUpOnlyIfDisturbed`. Each namespace given up and each attempt lost is
  charged to a disturbance (`Charged`); a copy of a workload that is out of date has one of its own (`Stale`), since the only Lumigoes that
  are left to finalise are ones created since (`Rivals`).
* `SweepEnds`: `Spec => SweepGoesAhead`, with the order of namespaces, kinds, workloads and attempts. With
  the former, the safety half of `Completes`.
* `UninstallerImplementsLifecycle`: `Spec => ImplementsLifecycle`, with `Awaiting`: a Lumigo that is being deleted
  has the operator's finalizer.

So every invariant and every action property that a passing run checks is proved, as are the refinements.
The theorems that assume something (`DistinctSeconds`, `NoForeground`, `ReliableFile`, a cache that does not
lag, users who avoid Lumigo's names) assume what the runs assume too; section 3 says how each property fails without it.
Only model-checked is liveness (`Converges`, `CollectionEnds`, `DeletionCompletes`,
`ProxyFollows`, `CurrentExported`, `QueueDrains`, `PodCacheFresh`, `Completes`), which is out of the
prover's reach.

## 5. What the code does otherwise than its texts say

Besides the findings that runs show, reading the code for the models turned up the following. They are not
properties of any run.

* *Telemetry.* `lumigooperator_logs_test.go:248` expects that all versions that events refer to are sent
  as objects. Versions that a batch of events takes from the channel go where the events go, and
  `routing/k8s_events` matches no object's body: they are dropped (`lost` in `ObjectsPipeline`). A version
  taken by a batch of objects can be of another namespace than the batch. `EnsureObjectReferenceIsKnown`
  asks for a resource version and may be given a later one. Batches from watches have no
  namespace attribute: the object is wrapped when it is read. The enricher's README says (line 94)
  that cache keys contain the UID; they are made of namespace and name.
* *Uninstallation.* The hook removes the instrumentation in all namespaces, although `README.md:484`
  says that this does not happen on uninstallation and `README.md:577` restricts it to namespaces whose Lumigo asks
  for it. It leaves the `skip-next-injector` label on workloads that no webhook handles afterwards;
  the sweep of a later installation looks for workloads without the label and passes them over. A Lumigo created
  after the hook has listed stays behind with its finalizer (`DESIGN.md:37`).
* *Mutators.* A label `true` or an `LD_PRELOAD` of the user's own is replaced by the injection and not
  restored by the removal.
* *Test matcher.* `doMatch` in `matchers.go` returns successfully at the injector container, and would compare
  an `ObjectMeta` with a matcher of maps if it got to the labels.
* *Quickstart.* A failed update is ignored.

## 6. Not modelled, and what is left

Not modelled, because there is no state to go wrong or nothing that interacts: the heartbeat receiver
(a ticker), the watchdog (two loops that share nothing), the quickstart (it creates and edits
Lumigoes as users do), recorded events and their rebinding, configuration parsing, traces and metrics
in the enricher (they read the cache, `PodCacheFresh` says what they find), generated code.

Left:

1. The order of requests: `LumigoReconciler` lets a cached Lumigo be reconciled at any time; a model of
   the work queue would show how long a changed secret or workload can go unnoticed.
2. More than one namespace in `ObjectsPipeline`, for the routing of what a batch takes from the channel.
3. Crashes of the collector and failures of the exporter in `ObjectsPipeline`: what the cache has
   announced and memory lost is only repaired because the cache is lost too.
4. Foreground deletions in the theorems of `LumigoLifeProofs`, which would need weaker properties.
