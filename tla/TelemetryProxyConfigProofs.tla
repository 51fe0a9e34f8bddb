---------------------- MODULE TelemetryProxyConfigProofs ----------------------
(***************************************************************************)
(* Theorems about TelemetryProxyConfig, for any namespaces, tokens, bounds *)
(* and failures, and whether or not gomplate renders an empty file.        *)
(***************************************************************************)
EXTENDS TelemetryProxyConfig, TLAPS

(***************************************************************************)
(* Type correctness.                                                       *)
(***************************************************************************)

LEMMA NoEntriesType == NoEntries \in Entries
  BY DEF NoEntries, Entries

LEMMA FileType ==
    ASSUME NEW s \in {"missing", "empty", "init", "garbage"}
    PROVE  File(s) \in NamespacesFile
  BY NoEntriesType DEF File, NamespacesFile

LEMMA ListType ==
    ASSUME NEW e \in Entries
    PROVE  List(e) \in NamespacesFile
  BY DEF List, NamespacesFile

LEMMA ConfigType ==
    ASSUME NEW f \in NamespacesFile
    PROVE  [complete |-> TRUE, entries |-> f.entries] \in Config
  BY DEF Config, NamespacesFile

LEMMA InitTypeOK == Init => TypeOK
  <1> SUFFICES ASSUME Init PROVE TypeOK
    OBVIOUS
  <1>1. AskedOK /\ FilesOK /\ CountsOK
    BY FileType, ProxyConstantsOK DEF Init, AskedOK, FilesOK, CountsOK, ProxyConstantsOK
  <1>2. ManagerOK
    BY FileType DEF Init, ManagerOK, NoRequest
  <1>3. Partial \in Config
    BY NoEntriesType DEF Partial, Config
  <1>4. ScriptsOK
    BY <1>3, FileType, ProxyConstantsOK
       DEF Init, ScriptsOK, ProxyConstantsOK, Deployed, WatcherPCs, Watchers
  <1>5. CollectorsOK
    BY NoEntriesType DEF Init, CollectorsOK
  <1>6. QED
    BY <1>1, <1>2, <1>4, <1>5 DEF TypeOK

LEMMA DoneType ==
    ASSUME Done
    PROVE  ManagerOK'
  <1>1. File("missing") \in NamespacesFile
    BY FileType
  <1>2. File("missing")' = File("missing")
    BY DEF File, NoEntries
  <1>3. QED
    BY <1>1, <1>2 DEF Done, ManagerOK, NoRequest

(* The manager's steps. *)
LEMMA ManagerType ==
    ASSUME TypeOK,
           \/ \E n \in Namespaces : Upsert(n) \/ Remove(n)
           \/ Update
    PROVE  TypeOK'
  <1>1. ScriptsOK' /\ CollectorsOK' /\ CountsOK'
    BY DEF Upsert, Remove, Update, ReadFile, Truncate, Write, script, collector, counts,
       TypeOK, ScriptsOK, CollectorsOK, CountsOK
  <1>2. AskedOK'
    BY DEF Upsert, Remove, Update, ReadFile, Truncate, Write, asked, TypeOK, AskedOK
  <1>3. FilesOK'
    <2>1. File("empty") \in NamespacesFile
      BY FileType
    <2>2. QED
      BY <2>1 DEF Upsert, Remove, Update, ReadFile, Truncate, Write, TypeOK, FilesOK, ManagerOK
  <1>4. ManagerOK'
    <2>1. CASE \E n \in Namespaces : Upsert(n) \/ Remove(n)
      <3>1. PICK n \in Namespaces : Upsert(n) \/ Remove(n)
        BY <2>1
      <3>2. request' \in [name : Namespaces \cup {None}, entry : Tokens \cup {Off}]
        BY <3>1 DEF Upsert, Remove, TypeOK, AskedOK
      <3>3. pc' = "read" /\ request'.name \in Namespaces /\ UNCHANGED updated /\ pc = "idle"
        BY <3>1 DEF Upsert, Remove
      <3>4. QED
        BY <3>2, <3>3, ProxyConstantsOK
           DEF ManagerOK, TypeOK, ProxyConstantsOK, File, NoEntries
    <2>2. CASE Done
      BY <2>2, DoneType
    <2>3. CASE ReadFile /\ ~Done
      <3>1. [file.entries EXCEPT ![request.name] = request.entry] \in Entries
        BY <2>3 DEF Entries, NamespacesFile, ReadFile, TypeOK, FilesOK, ManagerOK
      <3>2. Updated \in NamespacesFile
        BY <3>1, ListType DEF Updated
      <3>3. QED
        BY <2>3, <3>2 DEF ManagerOK, ReadFile, TypeOK
    <2>4. CASE Truncate
      BY <2>4 DEF ManagerOK, Truncate, TypeOK
    <2>5. QED
      BY <2>1, <2>2, <2>3, <2>4 DEF Update, Write
  <1>5. QED
    BY <1>1, <1>2, <1>3, <1>4 DEF TypeOK

LEMMA StepType ==
    ASSUME ScriptsOK, NEW w \in Watchers, NEW from,
           NEW to \in WatcherPCs, to \in {"start", "truncate", "fill", "off"} \/ w \in followed,
           Step(w, from, to)
    PROVE  /\ followed' \in Followed /\ watcher' \in [Watchers -> WatcherPCs]
           /\ \A x \in Watchers \ followed' :
                 watcher'[x] \in {"start", "truncate", "fill", "off"}
  BY DEF ScriptsOK, Step

(* Beyond the creation of the file only followed containers go. *)
LEMMA StepFollowed ==
    ASSUME ScriptsOK, NEW w \in Watchers,
           watcher[w] \notin {"start", "truncate", "fill", "off"}
    PROVE  w \in followed
  BY DEF ScriptsOK

(* The scripts' steps. *)
LEMMA ScriptType ==
    ASSUME TypeOK, NEW w \in Watchers, Script(w)
    PROVE  TypeOK'
  <1>1. AskedOK' /\ ManagerOK' /\ CountsOK'
    <2>1. UNCHANGED <<lumigo, due, lost, pc, request, updated, changes, faults>>
      BY DEF Script, TestFile, TruncateFile, FillFile, OpenConfig, Render, Sum, Launch, Signal,
         WatchFile, Download, asked, manager, counts
    <2>2. QED
      BY <2>1 DEF TypeOK, AskedOK, ManagerOK, CountsOK, File, NoEntries
  <1>2. FilesOK'
    <2>1. /\ File("empty") \in NamespacesFile /\ File("init") \in NamespacesFile
          /\ File("garbage") \in NamespacesFile
      BY FileType
    <2>2. QED
      BY <2>1 DEF Script, TestFile, TruncateFile, FillFile, SetSource, OpenConfig, Render, Sum,
         Launch, Signal, WatchFile, Download, TypeOK, FilesOK
  <1>3. Source(w) \in NamespacesFile
    BY DEF Source, TypeOK, FilesOK
  <1>4. ScriptsOK'
    <2> USE DEF TypeOK
    <2>1. /\ followed' \in Followed /\ watcher' \in [Watchers -> WatcherPCs]
          /\ \A x \in Watchers \ followed' :
                watcher'[x] \in {"start", "truncate", "fill", "off"}
      <3>1. CASE TestFile(w) \/ TruncateFile(w) \/ FillFile(w)
        BY <3>1, StepType DEF TestFile, TruncateFile, FillFile, Initialised, WatcherPCs
      <3>2. CASE ~(TestFile(w) \/ TruncateFile(w) \/ FillFile(w))
        <4>1. \E from \in {"generate", "render", "sum", "launch", "signal", "watch"} :
              \E to \in WatcherPCs : Step(w, from, to)
          BY <3>2 DEF Script, OpenConfig, Render, Sum, Launch, Signal, WatchFile, Download,
             WatcherPCs
        <4>2. w \in followed
          BY <4>1, StepFollowed DEF Step
        <4>3. QED
          BY <4>1, <4>2, StepType
      <3>3. QED
        BY <3>1, <3>2
    <2>2. sha' \in [Watchers -> NamespacesFile]
      BY <1>3 DEF Script, TestFile, TruncateFile, FillFile, OpenConfig, Render, Sum, Launch,
         Signal, WatchFile, Download, ScriptsOK
    <2>3. config' \in [Watchers -> Config]
      <3>1. [complete |-> TRUE, entries |-> Source(w).entries] \in Config
        BY <1>3, ConfigType
      <3>2. Partial \in Config
        BY NoEntriesType DEF Partial, Config
      <3>3. QED
        BY <3>1, <3>2 DEF Script, TestFile, TruncateFile, FillFile, OpenConfig, Render, Sum,
           Launch, Signal, WatchFile, Download, ScriptsOK
    <2>4. QED
      BY <2>1, <2>2, <2>3 DEF ScriptsOK
  <1>5. CollectorsOK'
    <2>1. config[w].entries \in Entries
      BY DEF TypeOK, ScriptsOK, Config
    <2>2. QED
      BY <2>1 DEF Script, TestFile, TruncateFile, FillFile, OpenConfig, Render, Sum, Launch,
         Signal, WatchFile, Download, collector, TypeOK, CollectorsOK
  <1>6. QED
    BY <1>1, <1>2, <1>4, <1>5 DEF TypeOK

LEMMA RestartType ==
    ASSUME ScriptsOK, CollectorsOK, NEW w \in Watchers, RestartContainer(w),
           sha' \in [Watchers -> NamespacesFile], config' \in [Watchers -> Config]
    PROVE  ScriptsOK' /\ CollectorsOK'
  BY NoEntriesType DEF RestartContainer, ScriptsOK, CollectorsOK, WatcherPCs

LEMMA ReloadType ==
    ASSUME TypeOK, NEW w \in Watchers, Reload(w)
    PROVE  TypeOK'
  <1>1. AskedOK' /\ ManagerOK' /\ FilesOK' /\ CountsOK'
    BY DEF Reload, asked, manager, counts, TypeOK, AskedOK, ManagerOK, FilesOK, CountsOK,
       File, NoEntries
  <1>2. ScriptsOK' /\ CollectorsOK'
    <2>1. CASE RestartContainer(w)
      BY <2>1, RestartType DEF Reload, TypeOK, ScriptsOK
    <2>2. CASE ~RestartContainer(w)
      <3>1. config[w].entries \in Entries
        BY DEF TypeOK, ScriptsOK, Config
      <3>2. QED
        BY <2>2, <3>1 DEF Reload, TypeOK, ScriptsOK, CollectorsOK
    <2>3. QED
      BY <2>1, <2>2
  <1>3. QED
    BY <1>1, <1>2 DEF TypeOK

LEMMA FaultType ==
    ASSUME TypeOK, NEW kind, Fault(kind)
    PROVE  CountsOK'
  BY ProxyConstantsOK DEF Fault, TypeOK, CountsOK, ProxyConstantsOK

LEMMA StopManagerType ==
    ASSUME TypeOK, StopManager
    PROVE  AskedOK' /\ ManagerOK'
  BY DoneType DEF StopManager, TypeOK, AskedOK

(* Users and failures. *)
LEMMA EnvironmentType ==
    ASSUME TypeOK,
           \/ \E n \in Namespaces : Ask(n) \/ Delete(n)
           \/ \E w \in Watchers : CrashContainer(w)
           \/ CrashManager \/ ReplacePod \/ DownloadFault
    PROVE  TypeOK'
  <1>1. CASE \E n \in Namespaces : Ask(n) \/ Delete(n)
    <2>1. ManagerOK' /\ FilesOK' /\ ScriptsOK' /\ CollectorsOK'
      BY <1>1 DEF Ask, Delete, manager, script, collector, TypeOK,
         ManagerOK, FilesOK, ScriptsOK, CollectorsOK, File, NoEntries
    <2>2. AskedOK'
      BY <1>1 DEF Ask, Delete, TypeOK, AskedOK
    <2>3. CountsOK'
      BY <1>1, ProxyConstantsOK DEF Ask, Delete, TypeOK, CountsOK, ProxyConstantsOK
    <2>4. QED
      BY <2>1, <2>2, <2>3 DEF TypeOK
  <1>2. ASSUME NEW w \in Watchers, CrashContainer(w)
        PROVE  TypeOK'
    <2>1. AskedOK' /\ ManagerOK' /\ FilesOK'
      BY <1>2 DEF CrashContainer, asked, manager, TypeOK, AskedOK, ManagerOK, FilesOK,
         File, NoEntries
    <2>2. ScriptsOK' /\ CollectorsOK'
      BY <1>2, RestartType DEF CrashContainer, TypeOK, ScriptsOK
    <2>3. QED
      BY <1>2, <2>1, <2>2, FaultType DEF CrashContainer, TypeOK
  <1>3. CASE CrashManager
    <2>1. FilesOK' /\ ScriptsOK' /\ CollectorsOK'
      BY <1>3 DEF CrashManager, script, collector, TypeOK, FilesOK, ScriptsOK, CollectorsOK
    <2>2. QED
      BY <1>3, <2>1, StopManagerType, FaultType DEF CrashManager, TypeOK
  <1>4. CASE ReplacePod
    <2>1. FilesOK'
      BY <1>4, FileType DEF ReplacePod, TypeOK, FilesOK
    <2>2. Partial \in Config
      BY NoEntriesType DEF Partial, Config
    <2>3. /\ sha' \in [Watchers -> NamespacesFile] /\ config' \in [Watchers -> Config]
      BY <1>4, <2>2, FileType DEF ReplacePod, TypeOK, ScriptsOK
    <2>4. ScriptsOK' /\ CollectorsOK'
      BY <1>4, <2>3, RestartType DEF ReplacePod, TypeOK, Watchers
    <2>5. QED
      BY <1>4, <2>1, <2>4, StopManagerType, FaultType DEF ReplacePod, TypeOK
  <1>5. CASE DownloadFault
    <2>1. FilesOK'
      BY <1>5, FileType DEF DownloadFault, TypeOK, FilesOK
    <2>2. AskedOK' /\ ManagerOK' /\ ScriptsOK' /\ CollectorsOK'
      BY <1>5 DEF DownloadFault, asked, manager, script, collector, TypeOK, AskedOK, ManagerOK,
         ScriptsOK, CollectorsOK, File, NoEntries
    <2>3. QED
      BY <1>5, <2>1, <2>2, FaultType DEF DownloadFault, TypeOK
  <1>6. QED
    BY <1>1, <1>2, <1>3, <1>4, <1>5

(* Every reachable state is well formed: an idle manager prepares no       *)
(* update, and only followed containers go beyond creating the file.       *)
THEOREM ConfigTypeCorrect == Spec => []TypeOK
  <1>1. ASSUME TypeOK, [Next]_vars
        PROVE  TypeOK'
    <2>1. CASE UNCHANGED vars
      BY <1>1, <2>1 DEF vars, asked, manager, script, collector, counts, TypeOK, AskedOK,
         ManagerOK, FilesOK, ScriptsOK, CollectorsOK, CountsOK, File, NoEntries
    <2>2. CASE Next
      BY <1>1, <2>2, ManagerType, ScriptType, ReloadType, EnvironmentType DEF Next
    <2>3. QED
      BY <1>1, <2>1, <2>2
  <1>2. QED
    BY InitTypeOK, <1>1, PTL DEF Spec

-----------------------------------------------------------------------------
(***************************************************************************)
(* Updates of the file never bring back an entry that is not owed.         *)
(***************************************************************************)

Owed(n) ==
    \/ lumigo[n] # Gone \/ n \in due \/ n \in lost
    \/ pc # "idle" /\ request.name = n

(* What EntriesOwed lacks to be inductive: a request that adds an entry is *)
(* that of a Lumigo which exists or has a removal still to come, and what  *)
(* is about to be written agrees with the request.                         *)
RequestOwed ==
    /\ pc # "idle" /\ request.entry # Off =>
          \/ lumigo[request.name] # Gone
          \/ request.name \in due \/ request.name \in lost
    /\ pc \in {"truncate", "write"} =>
          updated.entries[request.name] = request.entry

OwedInv == EntriesOwed /\ RequestOwed

LEMMA InitOwed == Init => OwedInv
  BY DEF Init, OwedInv, EntriesOwed, RequestOwed, File, NoEntries

(* Entries only come from lists, which only the manager writes. *)
LEMMA Unlisted ==
    ASSUME NEW f \in NamespacesFile, f.state # "list", NEW n \in Namespaces
    PROVE  f.entries[n] = Off
  BY DEF NamespacesFile, NoEntries

LEMMA FileEntries ==
    ASSUME NEW s, NEW n \in Namespaces
    PROVE  File(s).entries[n] = Off
  BY DEF File, NoEntries

ScriptOrCollector ==
    \/ \E w \in Watchers : Script(w) \/ Reload(w) \/ CrashContainer(w)
    \/ DownloadFault

(* Who else writes the file writes no entries into it. *)
LEMMA OthersAddNothing ==
    ASSUME ScriptOrCollector
    PROVE  /\ UNCHANGED <<lumigo, due, lost, pc, request, updated>>
           /\ \/ file' = file
              \/ \E s \in {"empty", "init", "garbage"} : file' = File(s)
  <1>1. CASE DownloadFault
    BY <1>1 DEF DownloadFault, asked, manager
  <1>2. ASSUME NEW w \in Watchers, Script(w)
        PROVE  /\ UNCHANGED <<lumigo, due, lost, pc, request, updated>>
               /\ \/ file' = file
                  \/ \E s \in {"empty", "init", "garbage"} : file' = File(s)
    BY <1>2
       DEF Script, TestFile, TruncateFile, FillFile, SetSource, OpenConfig, Render, Sum,
           Launch, Signal, WatchFile, Download, asked, manager
  <1>3. ASSUME NEW w \in Watchers, Reload(w) \/ CrashContainer(w)
        PROVE  UNCHANGED <<lumigo, due, lost, pc, request, updated, file>>
    BY <1>3 DEF Reload, CrashContainer, asked, manager
  <1>4. QED
    BY <1>1, <1>2, <1>3 DEF ScriptOrCollector

LEMMA OwedStep ==
    ASSUME TypeOK, OwedInv, [Next]_vars
    PROVE  OwedInv'
  <1> USE DEF OwedInv
  <1>1. CASE UNCHANGED vars
    BY <1>1 DEF vars, asked, manager, EntriesOwed, RequestOwed
  <1>2. CASE ScriptOrCollector
    <2>1. UNCHANGED <<lumigo, due, lost, pc, request, updated>>
      BY <1>2, OthersAddNothing
    <2>2. \A n \in Namespaces : file'.entries[n] \in {file.entries[n], Off}
      BY <1>2, OthersAddNothing, FileEntries
    <2>3. EntriesOwed'
      BY <2>1, <2>2 DEF EntriesOwed
    <2>4. RequestOwed'
      BY <2>1 DEF RequestOwed
    <2>5. QED
      BY <2>3, <2>4
  <1>3. ASSUME NEW n \in Namespaces, Upsert(n) \/ Ask(n) \/ Delete(n)
        PROVE  OwedInv'
    BY <1>3, ProxyConstantsOK DEF Upsert, Ask, Delete, EntriesOwed, RequestOwed, asked, manager,
       TypeOK, AskedOK, ManagerOK, ProxyConstantsOK
  <1>4. ASSUME NEW n \in Namespaces, Remove(n)
        PROVE  OwedInv'
    BY <1>4 DEF Remove, EntriesOwed, RequestOwed, asked, manager,
       TypeOK, AskedOK, ManagerOK
  <1>5. CASE ReadFile
    <2>1. UNCHANGED <<lumigo, due, lost, file>>
      BY <1>5 DEF ReadFile, asked
    <2>2. request.name \in Namespaces /\ pc = "read" /\ request.entry \in Tokens \cup {Off}
      BY <1>5 DEF ReadFile, TypeOK, ManagerOK
    <2>3. file.entries \in [Namespaces -> Tokens \cup {Off}]
      BY DEF TypeOK, FilesOK, NamespacesFile, Entries
    <2>4. /\ Updated.entries[request.name] = request.entry
          /\ \A n \in Namespaces : n # request.name => Updated.entries[n] = file.entries[n]
      BY <2>2, <2>3 DEF Updated, List
    <2>5. CASE ~Parsable(file) /\ Done
      <3>1. \A n \in Namespaces : file'.entries[n] = Off /\ updated'.entries[n] = Off
        BY <2>1, <2>5, Unlisted, FileEntries DEF Parsable, Done, TypeOK, FilesOK
      <3>2. QED
        BY <3>1, <2>5 DEF EntriesOwed, RequestOwed, Done
    <2>6. CASE Updated = file /\ Done
      <3>1. \A n \in Namespaces : updated'.entries[n] = Off
        BY <2>6, FileEntries DEF Done
      <3>2. \A n \in Namespaces : file'.entries[n] # Off =>
                lumigo'[n] # Gone \/ n \in due' \/ n \in lost'
        BY <2>1, <2>2, <2>4, <2>6 DEF EntriesOwed, RequestOwed, TypeOK, ManagerOK
      <3>3. QED
        BY <3>1, <3>2, <2>6 DEF EntriesOwed, RequestOwed, Done
    <2>7. CASE pc' = "truncate" /\ updated' = Updated /\ UNCHANGED request
      BY <2>1, <2>2, <2>4, <2>7 DEF EntriesOwed, RequestOwed
    <2>8. QED
      BY <1>5, <2>5, <2>6, <2>7 DEF ReadFile
  <1>6. CASE Truncate
    BY <1>6, FileEntries DEF Truncate, asked, EntriesOwed, RequestOwed
  <1>7. CASE Write
    <2>1. \A n \in Namespaces : updated'.entries[n] = Off
      BY <1>7, FileEntries DEF Write, Done
    <2>2. \A n \in Namespaces : file'.entries[n] # Off =>
              lumigo'[n] # Gone \/ n \in due' \/ n \in lost'
      BY <1>7 DEF Write, asked, EntriesOwed, RequestOwed
    <2>3. QED
      BY <1>7, <2>1, <2>2 DEF Write, Done, EntriesOwed, RequestOwed
  <1>8. CASE CrashManager \/ ReplacePod
    <2>1. StopManager
      BY <1>8 DEF CrashManager, ReplacePod
    <2>2. \A n \in Namespaces : /\ file'.entries[n] \in {file.entries[n], Off}
                                /\ updated'.entries[n] = Off
      BY <1>8, <2>1, FileEntries DEF CrashManager, ReplacePod, StopManager, Done
    <2>3. \A n \in Namespaces : Owed(n) => Owed(n)'
      BY <2>1 DEF StopManager, Owed
    <2>4. QED
      BY <2>1, <2>2, <2>3 DEF StopManager, Done, EntriesOwed, RequestOwed, Owed
  <1>9. QED
    BY <1>1, <1>2, <1>3, <1>4, <1>5, <1>6, <1>7, <1>8
       DEF Next, Update, ScriptOrCollector

(* However updates of several namespaces, crashes, new pods and the        *)
(* scripts that also write the file interleave, the file names only        *)
(* namespaces that have a Lumigo or a removal still to come, or whose      *)
(* removal a crash cut short.                                              *)
THEOREM NothingComesBack == Spec => []EntriesOwed
  <1>1. TypeOK /\ OwedInv /\ [Next]_vars => OwedInv'
    BY OwedStep
  <1>2. OwedInv => EntriesOwed
    BY DEF OwedInv
  <1>3. QED
    BY InitOwed, ConfigTypeCorrect, <1>1, <1>2, PTL DEF Spec

-----------------------------------------------------------------------------
(***************************************************************************)
(* The proxy's collector agrees with the proxy's copy of the file.         *)
(***************************************************************************)

(* From the generation on, the configuration is that of the content whose  *)
(* checksum is kept, and the collector has it or is about to be told: only *)
(* the proxy's own script writes its copy, and not while it generates.     *)
ScriptInv ==
    /\ watcher["proxy"] = "sum" => config["proxy"].entries = copy.entries
    /\ watcher["proxy"] \in {"launch", "signal", "watch"} =>
          config["proxy"].entries = sha["proxy"].entries
    /\ watcher["proxy"] = "watch" /\ ~reload["proxy"] =>
          collecting["proxy"] = config["proxy"].entries

LEMMA InitScript == Init => ScriptInv
  BY DEF Init, ScriptInv, Watchers

(* What the events scraper does leaves the proxy alone. *)
LEMMA ScraperApart ==
    ASSUME TypeOK, ScriptInv,
           Script("scraper") \/ Reload("scraper") \/ CrashContainer("scraper") \/ ReplacePod
    PROVE  ScriptInv'
  <1>1. /\ UNCHANGED copy
        /\ watcher'["proxy"] = watcher["proxy"] /\ config'["proxy"] = config["proxy"]
        /\ sha'["proxy"] = sha["proxy"] /\ reload'["proxy"] = reload["proxy"]
        /\ collecting'["proxy"] = collecting["proxy"]
    BY DEF Script, TestFile, TruncateFile, FillFile, SetSource, OpenConfig, Render, Sum, Launch,
       Signal, WatchFile, Download, Step, Reload, CrashContainer, ReplacePod, RestartContainer,
       collector, TypeOK, ScriptsOK, CollectorsOK, Watchers
  <1>2. QED
    BY <1>1 DEF ScriptInv

LEMMA ProxyStep ==
    ASSUME TypeOK, ScriptInv, Script("proxy") \/ Reload("proxy") \/ CrashContainer("proxy")
    PROVE  ScriptInv'
  <1> USE DEF TypeOK, ScriptsOK, CollectorsOK, Watchers
  <1>1. CASE CrashContainer("proxy")
    BY <1>1 DEF CrashContainer, RestartContainer, ScriptInv
  <1>2. CASE Reload("proxy")
    <2>1. CASE RestartContainer("proxy")
      BY <2>1 DEF RestartContainer, ScriptInv
    <2>2. CASE ~RestartContainer("proxy")
      BY <1>2, <2>2 DEF Reload, ScriptInv
    <2>3. QED
      BY <2>1, <2>2
  <1>3. CASE \/ TestFile("proxy") \/ TruncateFile("proxy") \/ FillFile("proxy")
             \/ OpenConfig("proxy")
    BY <1>3 DEF TestFile, TruncateFile, FillFile, OpenConfig, Step, Initialised, collector,
       ScriptInv
  <1>4. CASE Render("proxy")
    BY <1>4 DEF Render, Step, Source, collector, ScriptInv
  <1>5. CASE Sum("proxy")
    BY <1>5 DEF Sum, Step, Source, collector, ScriptInv
  <1>6. CASE Launch("proxy") \/ Signal("proxy")
    BY <1>6 DEF Launch, Signal, Step, ScriptInv
  <1>7. CASE WatchFile("proxy") \/ Download("proxy")
    BY <1>7 DEF WatchFile, Download, Step, collector, ScriptInv
  <1>8. QED
    BY <1>1, <1>2, <1>3, <1>4, <1>5, <1>6, <1>7 DEF Script

LEMMA ScriptStep ==
    ASSUME TypeOK, ScriptInv, [Next]_vars
    PROVE  ScriptInv'
  <1>1. CASE UNCHANGED <<copy, script, collector>>
    BY <1>1 DEF script, collector, ScriptInv
  <1>2. CASE DownloadFault
    BY <1>2 DEF DownloadFault, script, collector, ScriptInv
  <1>3. CASE ~UNCHANGED <<copy, script, collector>> /\ ~DownloadFault
    <2>1. \/ \E w \in Watchers : Script(w) \/ Reload(w) \/ CrashContainer(w)
          \/ ReplacePod
      BY <1>3 DEF Next, vars, Upsert, Remove, Ask, Delete, Update, ReadFile, Truncate, Write,
         CrashManager
    <2>2. QED
      BY <2>1, ScraperApart, ProxyStep DEF Watchers
  <1>4. QED
    BY <1>1, <1>2, <1>3

(* Whatever was downloaded, truncated or restarted before: when the        *)
(* proxy's script has nothing to do and no reload is pending, the          *)
(* collector collects what the proxy's copy of the file says.              *)
THEOREM ProxyUpToDate == Spec => []QuietIsCurrent
  <1>1. TypeOK /\ ScriptInv /\ [Next]_vars => ScriptInv'
    BY ScriptStep
  <1>2. ScriptInv => QuietIsCurrent
    BY DEF ScriptInv, QuietIsCurrent, Changed, Source, Watchers
  <1>3. QED
    BY InitScript, ConfigTypeCorrect, <1>1, <1>2, PTL DEF Spec
=============================================================================
