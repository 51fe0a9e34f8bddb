------------------------- MODULE TelemetryProxyConfig -------------------------
(***************************************************************************)
(* How the collectors learn which namespaces to collect from.  The manager *)
(* container of the controller's pod keeps a JSON file of namespaces and   *)
(* tokens on a volume that it shares with the events scraper and with a    *)
(* web server.  The events scraper and the telemetry proxy are containers  *)
(* that run entrypoint.sh: it generates the collector's configuration from *)
(* the file and watches the file in the background.  The scraper watches   *)
(* the shared file, the proxy a copy that it downloads.                    *)
(***************************************************************************)
EXTENDS Naturals, FiniteSets

CONSTANTS
    Namespaces,     \* the monitored cluster's namespaces
    Tokens,         \* the tokens (and namespace uids) that entries carry
    Off, Gone,      \* no entry; no Lumigo in the namespace
    None,           \* the manager is not updating the file
    Followed,       \* the sets of containers that a behaviour can follow
    EmptyRenders,   \* whether gomplate takes an empty file for an empty list
    AllowedFaults,  \* what can fail, a subset of AllFaults
    MaxChanges,     \* bound on the changes of Lumigoes
    MaxFaults       \* bound on the failures

Watchers == {"scraper", "proxy"}

AllFaults == {"manager", "container", "pod", "download"}

ASSUME ProxyConstantsOK ==
    /\ Off \notin Tokens /\ Gone \notin Tokens \cup {Off} /\ None \notin Namespaces
    /\ Followed \subseteq SUBSET Watchers
    /\ EmptyRenders \in BOOLEAN /\ AllowedFaults \subseteq AllFaults
    /\ MaxChanges \in Nat /\ MaxFaults \in Nat

Entries == [Namespaces -> Tokens \cup {Off}]

NoEntries == [n \in Namespaces |-> Off]

(* A file of namespaces is missing, empty (created or truncated), "init"   *)
(* ("[]", written by entrypoint.sh), a list written by the manager ("null" *)
(* when it has no entries), or "garbage" that nothing can parse.           *)
NamespacesFile ==
    {f \in [state : {"missing", "empty", "init", "list", "garbage"}, entries : Entries] :
        f.state # "list" => f.entries = NoEntries}

File(state) == [state |-> state, entries |-> NoEntries]

List(entries) == [state |-> "list", entries |-> entries]

(* A collector configuration, which is partial while it is generated.      *)
Config == [complete : BOOLEAN, entries : Entries]

Partial == [complete |-> FALSE, entries |-> NoEntries]

VARIABLES
    lumigo,         \* what the namespace's Lumigo asks for: a token, Off, or Gone
    due,            \* deleted Lumigoes whose last reconcile is still to come
    lost,           \* those whose last reconcile a crash cut short
    pc, request, updated,               \* the manager's update of the file
    file,           \* the shared file
    copy,           \* the proxy's copy
    followed,       \* the containers looked at in this behaviour
    watcher,        \* where each entrypoint.sh is
    sha,            \* the content whose checksum it keeps
    config,         \* the configuration it generated
    reload,         \* the collector has a SIGHUP to handle
    running,        \* the collector runs
    collecting,     \* what the collector collects
    changes, faults                     \* what the bounds count

manager == <<pc, request, updated>>
asked == <<lumigo, due, lost>>
script == <<followed, watcher, sha, config>>
collector == <<reload, running, collecting>>
counts == <<changes, faults>>
vars == <<asked, manager, file, copy, script, collector, counts>>

WatcherPCs == {"start", "truncate", "fill", "generate", "render", "sum", "launch",
               "signal", "watch", "dead", "off"}

NoRequest == [name |-> None, entry |-> Off]

AskedOK ==
    /\ lumigo \in [Namespaces -> Tokens \cup {Off, Gone}]
    /\ due \subseteq Namespaces /\ lost \subseteq Namespaces

(* An idle manager holds neither a request nor content to be written. *)
ManagerOK ==
    /\ pc \in {"idle", "read", "truncate", "write"}
    /\ request \in [name : Namespaces \cup {None}, entry : Tokens \cup {Off}]
    /\ (pc = "idle") <=> (request.name = None)
    /\ updated \in NamespacesFile
    /\ pc \in {"idle", "read"} => updated = File("missing")

FilesOK == file \in NamespacesFile /\ copy \in NamespacesFile

(* A container that is not followed gets no further than creating the file.*)
ScriptsOK ==
    /\ followed \in Followed /\ watcher \in [Watchers -> WatcherPCs]
    /\ \A w \in Watchers \ followed : watcher[w] \in {"start", "truncate", "fill", "off"}
    /\ sha \in [Watchers -> NamespacesFile] /\ config \in [Watchers -> Config]

CollectorsOK ==
    /\ reload \in [Watchers -> BOOLEAN] /\ running \in [Watchers -> BOOLEAN]
    /\ collecting \in [Watchers -> Entries]

CountsOK == changes \in 0..MaxChanges /\ faults \in 0..MaxFaults

TypeOK == AskedOK /\ ManagerOK /\ FilesOK /\ ScriptsOK /\ CollectorsOK /\ CountsOK

(* The events scraper also creates the file, so it always starts.          *)
Deployed(w) == w \in followed \cup {"scraper"}

Init ==
    /\ lumigo = [n \in Namespaces |-> Gone] /\ due = {} /\ lost = {}
    /\ pc = "idle" /\ request = NoRequest /\ updated = File("missing")
    /\ file = File("missing") /\ copy = File("missing")
    /\ followed \in Followed
    /\ watcher = [w \in Watchers |-> IF Deployed(w) THEN "start" ELSE "off"]
    /\ sha = [w \in Watchers |-> File("missing")]
    /\ config = [w \in Watchers |-> Partial]
    /\ reload = [w \in Watchers |-> FALSE] /\ running = [w \in Watchers |-> FALSE]
    /\ collecting = [w \in Watchers |-> NoEntries]
    /\ changes = 0 /\ faults = 0

-----------------------------------------------------------------------------
(***************************************************************************)
(* The manager: updateTelemetryProxyMonitoringOfNamespace, called by the   *)
(* only worker of the reconciler.  Each reconcile of a Lumigo calls it,    *)
(* and the last reconcile of a deleted one calls it once.                  *)
(***************************************************************************)

Wanted(n) == IF lumigo[n] = Gone THEN Off ELSE lumigo[n]

Upsert(n) ==
    /\ pc = "idle" /\ lumigo[n] # Gone
    /\ pc' = "read" /\ request' = [name |-> n, entry |-> lumigo[n]]
    /\ UNCHANGED <<asked, updated, file, copy, script, collector, counts>>

Remove(n) ==
    /\ pc = "idle" /\ n \in due /\ due' = due \ {n}
    /\ pc' = "read" /\ request' = [name |-> n, entry |-> Off]
    /\ UNCHANGED <<lumigo, lost, updated, file, copy, script, collector, counts>>

(* Mutant: the next update goes on with what this one prepared. *)
DoneHolding == pc' = "idle" /\ request' = NoRequest /\ UNCHANGED updated

(* The update returns. *)
Done == pc' = "idle" /\ request' = NoRequest /\ updated' = File("missing")

Parsable(f) == f.state \in {"missing", "init", "list"}

(* Mutant: entries are added and never taken out. *)
UpdatedNoRemoval ==
    List([file.entries EXCEPT ![request.name] =
             IF request.entry = Off THEN @ ELSE request.entry])

Updated == List([file.entries EXCEPT ![request.name] = request.entry])

ReadFile ==
    /\ pc = "read"
    /\ \/ ~Parsable(file) /\ Done
       \/ Parsable(file) /\ Updated = file /\ Done
       \/ /\ Parsable(file) /\ Updated # file
          /\ pc' = "truncate" /\ updated' = Updated /\ UNCHANGED request
    /\ UNCHANGED <<asked, file, copy, script, collector, counts>>

(* os.WriteFile opens the file with O_TRUNC, then writes it. *)
Truncate ==
    /\ pc = "truncate" /\ pc' = "write" /\ file' = File("empty")
    /\ UNCHANGED <<asked, request, updated, copy, script, collector, counts>>

Write ==
    /\ pc = "write" /\ file' = updated /\ Done
    /\ UNCHANGED <<asked, copy, script, collector, counts>>

-----------------------------------------------------------------------------
(***************************************************************************)
(* entrypoint.sh.                                                          *)
(***************************************************************************)

Source(w) == IF w = "scraper" THEN file ELSE copy

SetSource(w, f) ==
    IF w = "scraper" THEN file' = f /\ UNCHANGED copy ELSE copy' = f /\ UNCHANGED file

Step(w, from, to) ==
    watcher[w] = from /\ watcher' = [watcher EXCEPT ![w] = to] /\ UNCHANGED followed

Initialised(w) == IF w \in followed THEN "generate" ELSE "off"

(* [ ! -s file ]: there is no file or it is empty. *)
TestFile(w) ==
    /\ Step(w, "start", IF Source(w).state \in {"missing", "empty"} THEN "truncate"
                        ELSE Initialised(w))
    /\ UNCHANGED <<asked, manager, file, copy, sha, config, collector, counts>>

TruncateFile(w) ==
    /\ Step(w, "truncate", "fill")
    /\ SetSource(w, File("empty"))
    /\ UNCHANGED <<asked, manager, sha, config, collector, counts>>

(* "[]" is written at the start of the file.  What the manager wrote there *)
(* since the truncation is longer, and is only overwritten in part.        *)
FillFile(w) ==
    /\ Step(w, "fill", Initialised(w))
    /\ SetSource(w, File(IF Source(w).state = "empty" THEN "init" ELSE "garbage"))
    /\ UNCHANGED <<asked, manager, sha, config, collector, counts>>

(* generate_configs: the shell truncates the configuration, gomplate reads *)
(* the file and writes it, and the checksum is taken from the file again.  *)
OpenConfig(w) ==
    /\ Step(w, "generate", "render")
    /\ config' = [config EXCEPT ![w] = Partial]
    /\ UNCHANGED <<asked, manager, file, copy, sha, collector, counts>>

Renders(f) == f.state \in {"init", "list"} \/ (f.state = "empty" /\ EmptyRenders)

(* set -e: a failure ends the container before the collector runs, and     *)
(* only the background watcher afterwards.                                 *)
Render(w) ==
    /\ \/ /\ Renders(Source(w)) /\ Step(w, "render", "sum")
          /\ config' = [config EXCEPT ![w] = [complete |-> TRUE, entries |-> Source(w).entries]]
       \/ /\ ~Renders(Source(w)) /\ Step(w, "render", IF running[w] THEN "dead" ELSE "start")
          /\ UNCHANGED config
    /\ UNCHANGED <<asked, manager, file, copy, sha, collector, counts>>

Sum(w) ==
    /\ Step(w, "sum", IF running[w] THEN "signal" ELSE "launch")
    /\ sha' = [sha EXCEPT ![w] = Source(w)]
    /\ UNCHANGED <<asked, manager, file, copy, config, collector, counts>>

(* The watcher goes to the background and the collector takes over. *)
Launch(w) ==
    /\ Step(w, "launch", "watch")
    /\ running' = [running EXCEPT ![w] = TRUE]
    /\ collecting' = [collecting EXCEPT ![w] = config[w].entries]
    /\ UNCHANGED <<asked, manager, file, copy, sha, config, reload, counts>>

(* Mutant: the collector is not told. *)
SignalNobody(w) ==
    /\ Step(w, "signal", "watch")
    /\ UNCHANGED <<asked, manager, file, copy, sha, config, collector, counts>>

(* trigger_config_reload *)
Signal(w) ==
    /\ Step(w, "signal", "watch")
    /\ reload' = [reload EXCEPT ![w] = TRUE]
    /\ UNCHANGED <<asked, manager, file, copy, sha, config, running, collecting, counts>>

(* Mutant: the checksum is of the file's size. *)
ChangedSize(w, f) == f.state # sha[w].state

(* sha1sum -c fails. *)
Changed(w, f) == f # sha[w]

(* watch_namespaces_file *)
WatchFile(w) ==
    /\ w = "scraper" /\ Changed(w, file) /\ Step(w, "watch", "generate")
    /\ UNCHANGED <<asked, manager, file, copy, sha, config, collector, counts>>

(* watch_remote_namespaces_file: what is served is downloaded over the     *)
(* copy.                                                                   *)
Download(w) ==
    /\ w = "proxy" /\ file.state # "missing"
    /\ copy' = file
    /\ Step(w, "watch", IF Changed(w, file) THEN "generate" ELSE "watch")
    /\ UNCHANGED <<asked, manager, file, sha, config, collector, counts>>

-----------------------------------------------------------------------------
(***************************************************************************)
(* The collector, external to the repository: a SIGHUP makes it read its   *)
(* configuration again, and it exits when that is not complete.            *)
(***************************************************************************)

(* The container's first process ends and is started again; the volumes    *)
(* keep their files.                                                       *)
RestartContainer(w) ==
    /\ Deployed(w) /\ UNCHANGED followed
    /\ watcher' = [watcher EXCEPT ![w] = "start"]
    /\ reload' = [reload EXCEPT ![w] = FALSE]
    /\ running' = [running EXCEPT ![w] = FALSE]
    /\ collecting' = [collecting EXCEPT ![w] = NoEntries]

Reload(w) ==
    /\ reload[w]
    /\ \/ /\ config[w].complete
          /\ collecting' = [collecting EXCEPT ![w] = config[w].entries]
          /\ reload' = [reload EXCEPT ![w] = FALSE]
          /\ UNCHANGED <<running, watcher, followed>>
       \/ ~config[w].complete /\ RestartContainer(w)
    /\ UNCHANGED <<asked, manager, file, copy, sha, config, counts>>

-----------------------------------------------------------------------------
(***************************************************************************)
(* Users and failures.                                                     *)
(***************************************************************************)

(* A Lumigo is created or edited, or its token replaced. *)
Ask(n) ==
    /\ changes < MaxChanges /\ changes' = changes + 1
    /\ \E entry \in (Tokens \cup {Off}) \ {lumigo[n]} :
          lumigo' = [lumigo EXCEPT ![n] = entry]
    /\ lost' = lost \ {n}
    /\ UNCHANGED <<due, manager, file, copy, script, collector, faults>>

Delete(n) ==
    /\ lumigo[n] # Gone
    /\ changes < MaxChanges /\ changes' = changes + 1
    /\ lumigo' = [lumigo EXCEPT ![n] = Gone] /\ due' = due \cup {n}
    /\ UNCHANGED <<lost, manager, file, copy, script, collector, faults>>

Fault(kind) == /\ kind \in AllowedFaults /\ faults < MaxFaults /\ faults' = faults + 1
               /\ UNCHANGED changes

(* A last reconcile that stops before the finalizer is dropped is repeated *)
(* after a restart; one that stops later is not.                           *)
StopManager ==
    /\ Done /\ UNCHANGED lumigo
    /\ due' \in SUBSET due
    /\ lost' = lost \cup (due \ due')
                    \cup {n \in Namespaces : pc # "idle" /\ request.name = n /\ lumigo[n] = Gone}

CrashManager ==
    /\ Fault("manager") /\ StopManager
    /\ UNCHANGED <<file, copy, script, collector>>

CrashContainer(w) ==
    /\ Fault("container") /\ RestartContainer(w)
    /\ UNCHANGED <<asked, manager, file, copy, sha, config>>

(* The controller's pod is replaced, with new volumes. *)
ReplacePod ==
    /\ Fault("pod") /\ StopManager
    /\ file' = File("missing") /\ UNCHANGED copy
    /\ RestartContainer("scraper")
    /\ sha' = [sha EXCEPT !["scraper"] = File("missing")]
    /\ config' = [config EXCEPT !["scraper"] = Partial]

(* A download breaks off. *)
DownloadFault ==
    /\ Fault("download") /\ watcher["proxy"] = "watch"
    /\ copy' = File("empty")
    /\ UNCHANGED <<asked, manager, file, script, collector>>

-----------------------------------------------------------------------------
Update == ReadFile \/ Truncate \/ Write

Script(w) ==
    \/ TestFile(w) \/ TruncateFile(w) \/ FillFile(w)
    \/ OpenConfig(w) \/ Render(w) \/ Sum(w) \/ Launch(w) \/ Signal(w)
    \/ WatchFile(w) \/ Download(w)

Next ==
    \/ \E n \in Namespaces : Upsert(n) \/ Remove(n) \/ Ask(n) \/ Delete(n)
    \/ Update
    \/ \E w \in Watchers : Script(w) \/ Reload(w) \/ CrashContainer(w)
    \/ CrashManager \/ ReplacePod \/ DownloadFault

Spec == Init /\ [][Next]_vars

(* The manager, the scripts and the collectors go on.  Each Lumigo is      *)
(* reconciled again and again, and downloads, tried every five seconds,    *)
(* do not always meet the moment in which the file is being written.       *)
Fairness ==
    /\ WF_vars(Update)
    /\ \A n \in Namespaces : SF_vars(Upsert(n) \/ Remove(n))
    /\ \A w \in Watchers : WF_vars(Script(w)) /\ WF_vars(Reload(w))
    /\ SF_vars(Download("proxy") /\ file.state # "empty")

FairSpec == Spec /\ Fairness

-----------------------------------------------------------------------------
(***************************************************************************)
(* Properties.                                                             *)
(***************************************************************************)

(* The file, or an update of it under way, names a namespace only while    *)
(* its Lumigo exists or a removal is still to come, unless a crash cut     *)
(* that removal short: updates of several namespaces, which rewrite each   *)
(* other's entries, never bring one back.                                  *)
EntriesOwed ==
    \A n \in Namespaces :
        file.entries[n] # Off \/ updated.entries[n] # Off =>
            \/ lumigo[n] # Gone \/ n \in due \/ n \in lost
            \/ pc # "idle" /\ request.name = n

(* When the proxy's watcher sees nothing to do, and no reload is pending,  *)
(* the collector does what the proxy's copy of the file says, whatever     *)
(* was downloaded, truncated or restarted before.                          *)
QuietIsCurrent ==
    \A w \in Watchers \ {"scraper"} :
        watcher[w] = "watch" /\ ~Changed(w, Source(w)) /\ ~reload[w] =>
            collecting[w] = Source(w).entries

(* The proxy follows the Lumigoes: once they do not change any more, it    *)
(* collects what they ask for.  That is, if the file is not left damaged   *)
(* by a crash while it was written or by two containers writing it.        *)
ProxyFollows ==
    "proxy" \in followed /\ [](file.state # "garbage") /\ <>[](file.state # "empty") =>
        <>[](\A n \in Namespaces \ lost : collecting["proxy"][n] = Wanted(n))

(* The events scraper stops collecting from a namespace without a Lumigo.  *)
CollectionHalts ==
    \A n \in Namespaces :
        lumigo[n] = Gone ~> (collecting["scraper"][n] = Off \/ lumigo[n] # Gone)
=============================================================================
