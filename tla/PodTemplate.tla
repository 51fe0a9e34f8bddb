------------------------------ MODULE PodTemplate ------------------------------
(***************************************************************************)
(* The pod templates the mutators of controller/src/mutation work on: what *)
(* Lumigo's instrumentation consists of, how it is put into a template and *)
(* taken out again, and the workload around the template.                  *)
(*                                                                         *)
(* Lists of named things are functions from names: names are unique, and   *)
(* both mutators keep the order of what they leave.  Lumigo's names may be *)
(* taken by the user: LD_PRELOAD often is.                                 *)
(***************************************************************************)
EXTENDS Instrumentation

CONSTANTS
    Settings,       \* of the operator: its version, endpoints, token, what is enabled
    Containers,
    OwnNames,       \* names of the user's volumes, init containers, variables and mount paths
    OwnData,        \* what the user gives them
    None            \* a name that is not used

LumigoVariables ==
    {"LUMIGO_TRACER_TOKEN", "LUMIGO_ENDPOINT", "LUMIGO_LOGS_ENDPOINT", "LUMIGO_ENABLE_LOGS",
     "LUMIGO_ENABLE_TRACES", "LUMIGO_CONTAINER_NAME", "LD_PRELOAD"}

(* The volume and the init container have the same name. *)
Things == OwnNames \cup {"lumigo-injector"}

Paths == OwnNames \cup {"/opt/lumigo"}

Variables == OwnNames \cup LumigoVariables

Data == OwnData \cup Settings \cup Containers
           \cup {None, "emptyDir", "lumigo-injector", "lumigo_injector.so"}

(* A mount's value is the volume mounted, an init container's its whole    *)
(* specification; the injector's is that of the settings it is made from.  *)
Container == [mounts : [Paths -> Data], env : [Variables -> Data]]

Template ==
    [volumes : [Things -> Data], initContainers : [Things -> Data],
     containers : [Containers -> Container]]

ASSUME NamesOK ==
    /\ OwnNames \cap ({"lumigo-injector", "/opt/lumigo"} \cup LumigoVariables) = {}
    /\ None \notin OwnData \cup Settings \cup Containers
                      \cup {"emptyDir", "lumigo-injector", "lumigo_injector.so"}
    /\ "lumigo-injector" \notin OwnData /\ Settings \cap OwnData = {}
    /\ Settings # {}

(***************************************************************************)
(* injectLumigoIntoPodSpec and removeLumigoFromPodSpec.                    *)
(***************************************************************************)

VariableValue(s, c, v) ==
    CASE v = "LD_PRELOAD" -> "lumigo_injector.so"
      [] v = "LUMIGO_CONTAINER_NAME" -> c
      [] OTHER -> s

(* Whatever has one of Lumigo's names is replaced: a mount is known by its *)
(* path, anything else by its name.                                        *)
InjectedContainer(s, c, k) ==
    [mounts |-> [k.mounts EXCEPT !["/opt/lumigo"] = "lumigo-injector"],
     env |-> [v \in Variables |->
                IF v \in LumigoVariables THEN VariableValue(s, c, v) ELSE k.env[v]]]

Inject(s, t) ==
    [volumes |-> [t.volumes EXCEPT !["lumigo-injector"] = "emptyDir"],
     initContainers |-> [t.initContainers EXCEPT !["lumigo-injector"] = s],
     containers |-> [c \in Containers |-> InjectedContainer(s, c, t.containers[c])]]

RemovedVariables == LumigoVariables

(* Mutant: a container loses its mounts with the injector's. *)
StrippedContainerUnmounted(k) ==
    [mounts |-> [p \in Paths |-> None],
     env |-> [v \in Variables |-> IF v \in RemovedVariables THEN None ELSE k.env[v]]]

(* Here a mount is known by the volume it mounts. *)
StrippedContainer(k) ==
    [mounts |-> [p \in Paths |-> IF k.mounts[p] = "lumigo-injector" THEN None ELSE k.mounts[p]],
     env |-> [v \in Variables |-> IF v \in RemovedVariables THEN None ELSE k.env[v]]]

(* BeTheLumigoInjectorContainer and BeTheLumigoInjectorVolume look beyond  *)
(* the name, but not at the injector's image.                              *)
Strip(t) ==
    [volumes |-> [v \in Things |->
        IF v = "lumigo-injector" /\ t.volumes[v] = "emptyDir" THEN None ELSE t.volumes[v]],
     initContainers |-> [i \in Things |->
        IF i = "lumigo-injector" /\ t.initContainers[i] \in Settings
        THEN None ELSE t.initContainers[i]],
     containers |-> [c \in Containers |-> StrippedContainer(t.containers[c])]]

(* A container's environment is rebuilt: one that was not there becomes an *)
(* empty one, which reflect.DeepEqual tells apart.                         *)
BareEnv(t) == \E c \in Containers : \A v \in Variables : t.containers[c].env[v] = None

StripMutates(t) == Strip(t) # t \/ BareEnv(t)

ContainerHasInjector(s, k) ==
    /\ k.env["LD_PRELOAD"] = "lumigo_injector.so"
    /\ k.env["LUMIGO_TRACER_TOKEN"] # None
    /\ k.env["LUMIGO_ENDPOINT"] = s /\ k.env["LUMIGO_ENABLE_LOGS"] = s
    /\ \E p \in Paths : k.mounts[p] = "lumigo-injector"
    /\ \A p \in Paths : k.mounts[p] = "lumigo-injector" => p = "/opt/lumigo"

(* BeInstrumentedWithLumigo, by which the operator's tests tell; it stops  *)
(* at the injector container and never gets to the volume and the labels.  *)
HasInjector(s, t) ==
    /\ t.initContainers["lumigo-injector"] = s
    /\ \A c \in Containers : ContainerHasInjector(s, t.containers[c])

(***************************************************************************)
(* Workloads: their labels (Instrumentation) and their pod templates.      *)
(***************************************************************************)

TemplatedWorkload == [label : Labels, template : Template]

(* InjectLumigoInto *)
InjectInto(t, s, w) ==
    IF t.owned \/ OptsOut(w) \/ Inject(s, w.template) = w.template THEN w
    ELSE [label |-> "lumigo", template |-> Inject(s, w.template)]

(* RemoveLumigoFrom reports a mutation, and only then is the workload sent.*)
RemovalOccurs(t, w) == ~t.owned /\ StripMutates(w.template)

(* Mutant: without the skip-next-injector label. *)
RemoveWithoutSkip(w) == [label |-> "none", template |-> Strip(w.template)]

(* RemoveLumigoFrom, and the label its callers add. *)
RemoveFrom(w) == [label |-> "skip", template |-> Strip(w.template)]

(* processResourceInjection *)
ProcessedByWebhook(t, s, w) ==
    IF w.label = "skip" THEN [w EXCEPT !.label = "none"] ELSE InjectInto(t, s, w)

(* What the API server stores when w is sent and the webhook decides d.    *)
AdmittedTemplate(t, s, w, d) ==
    IF /\ WebhookHandles(t)
       /\ d = "inject" \/ (d = "byLabel" /\ w.label = "true")
    THEN ProcessedByWebhook(t, s, w)
    ELSE w

(***************************************************************************)
(* What the instrumentation must do to a template.                         *)
(***************************************************************************)

LumigoFree(t) ==
    /\ t.volumes["lumigo-injector"] = None /\ t.initContainers["lumigo-injector"] = None
    /\ \A c \in Containers :
          /\ \A p \in Paths : t.containers[c].mounts[p] # "lumigo-injector"
          /\ \A v \in LumigoVariables : t.containers[c].env[v] = None

(* They differ in nothing that does not have one of Lumigo's names.        *)
SameOwn(t, u) ==
    /\ \A n \in OwnNames : t.volumes[n] = u.volumes[n] /\ t.initContainers[n] = u.initContainers[n]
    /\ \A c \in Containers : \A n \in OwnNames :
          /\ t.containers[c].mounts[n] = u.containers[c].mounts[n]
          /\ t.containers[c].env[n] = u.containers[c].env[n]

(* The workload as Instrumentation describes it.                           *)
Abstracted(s, w) == [label |-> w.label, inst |-> HasInjector(s, w.template)]
================================================================================
