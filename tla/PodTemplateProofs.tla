--------------------------- MODULE PodTemplateProofs ---------------------------
(***************************************************************************)
(* What the mutators do to any pod template, and that Instrumentation,     *)
(* which the reconciler's model is built on, describes it.                 *)
(***************************************************************************)
EXTENDS PodTemplate, TLAPS

LEMMA DataValues ==
    /\ "emptyDir" \in Data /\ "lumigo-injector" \in Data /\ "lumigo_injector.so" \in Data
    /\ None \in Data /\ Settings \subseteq Data /\ Containers \subseteq Data
  BY DEF Data

LEMMA NameValues ==
    /\ "lumigo-injector" \in Things /\ "/opt/lumigo" \in Paths /\ LumigoVariables \subseteq Variables
    /\ OwnNames \subseteq Things /\ OwnNames \subseteq Paths /\ OwnNames \subseteq Variables
    /\ Things \ OwnNames \subseteq {"lumigo-injector"}
    /\ Paths \ OwnNames \subseteq {"/opt/lumigo"}
    /\ Variables \ OwnNames \subseteq LumigoVariables
    /\ "lumigo-injector" \notin OwnNames /\ "/opt/lumigo" \notin OwnNames
    /\ OwnNames \cap LumigoVariables = {}
  BY NamesOK DEF Things, Paths, Variables

LEMMA ValueType ==
  ASSUME NEW s \in Settings, NEW c \in Containers, NEW v \in LumigoVariables
  PROVE  VariableValue(s, c, v) \in Data \ {None}
  <1>1. VariableValue(s, c, v) \in {"lumigo_injector.so", c, s}
    BY DEF VariableValue
  <1> QED  BY <1>1, NamesOK DEF Data

LEMMA InjectedContainerType ==
  ASSUME NEW s \in Settings, NEW c \in Containers, NEW k \in Container
  PROVE  InjectedContainer(s, c, k) \in Container
  <1>1. \A v \in Variables :
            (IF v \in LumigoVariables THEN VariableValue(s, c, v) ELSE k.env[v]) \in Data
    BY ValueType DEF Container
  <1>2. [k.mounts EXCEPT !["/opt/lumigo"] = "lumigo-injector"] \in [Paths -> Data]
    BY DataValues DEF Container
  <1> QED  BY <1>1, <1>2 DEF InjectedContainer, Container

LEMMA StrippedContainerType ==
  ASSUME NEW k \in Container
  PROVE  StrippedContainer(k) \in Container
  BY DataValues DEF StrippedContainer, Container

(* injectLumigoIntoPodSpec leaves a pod template a pod template.           *)
THEOREM InjectType ==
  ASSUME NEW s \in Settings, NEW t \in Template
  PROVE  Inject(s, t) \in Template
  <1>1. [c \in Containers |-> InjectedContainer(s, c, t.containers[c])]
            \in [Containers -> Container]
    BY InjectedContainerType DEF Template
  <1>2. [t.volumes EXCEPT !["lumigo-injector"] = "emptyDir"] \in [Things -> Data]
    BY DataValues DEF Template
  <1>3. [t.initContainers EXCEPT !["lumigo-injector"] = s] \in [Things -> Data]
    BY DataValues DEF Template
  <1> QED  BY <1>1, <1>2, <1>3 DEF Inject, Template

LEMMA StripType ==
  ASSUME NEW t \in Template
  PROVE  Strip(t) \in Template
  <1>1. [c \in Containers |-> StrippedContainer(t.containers[c])] \in [Containers -> Container]
    BY StrippedContainerType DEF Template
  <1>2. \A v \in Things : t.volumes[v] \in Data /\ t.initContainers[v] \in Data
    BY DEF Template
  <1> QED  BY <1>1, <1>2, DataValues DEF Strip, Template

(***************************************************************************)
(* Injecting and removing.                                                 *)
(***************************************************************************)

LEMMA TemplateEquality ==
  ASSUME NEW t \in Template, NEW u \in Template,
         \A n \in Things : t.volumes[n] = u.volumes[n],
         \A n \in Things : t.initContainers[n] = u.initContainers[n],
         \A c \in Containers : \A p \in Paths :
            t.containers[c].mounts[p] = u.containers[c].mounts[p],
         \A c \in Containers : \A v \in Variables :
            t.containers[c].env[v] = u.containers[c].env[v]
  PROVE  t = u
  <1>1. t.volumes = u.volumes /\ t.initContainers = u.initContainers
    BY DEF Template
  <1>2. ASSUME NEW c \in Containers PROVE t.containers[c] = u.containers[c]
    <2>1. t.containers[c] \in Container /\ u.containers[c] \in Container
      BY DEF Template
    <2>2. t.containers[c].mounts = u.containers[c].mounts
      BY <2>1 DEF Container
    <2>3. t.containers[c].env = u.containers[c].env
      BY <2>1 DEF Container
    <2> QED  BY <2>1, <2>2, <2>3 DEF Container
  <1>3. t.containers = u.containers
    BY <1>2 DEF Template
  <1> QED  BY <1>1, <1>3 DEF Template

LEMMA InjectParts ==
  ASSUME NEW s \in Settings, NEW t \in Template
  PROVE  /\ \A n \in Things : Inject(s, t).volumes[n] =
                IF n = "lumigo-injector" THEN "emptyDir" ELSE t.volumes[n]
         /\ \A n \in Things : Inject(s, t).initContainers[n] =
                IF n = "lumigo-injector" THEN s ELSE t.initContainers[n]
         /\ \A c \in Containers : \A p \in Paths : Inject(s, t).containers[c].mounts[p] =
                IF p = "/opt/lumigo" THEN "lumigo-injector" ELSE t.containers[c].mounts[p]
         /\ \A c \in Containers : \A v \in Variables : Inject(s, t).containers[c].env[v] =
                IF v \in LumigoVariables THEN VariableValue(s, c, v) ELSE t.containers[c].env[v]
  BY DEF Inject, InjectedContainer, Template, Container

LEMMA StripParts ==
  ASSUME NEW t \in Template
  PROVE  /\ \A n \in Things : Strip(t).volumes[n] =
                IF n = "lumigo-injector" /\ t.volumes[n] = "emptyDir" THEN None ELSE t.volumes[n]
         /\ \A n \in Things : Strip(t).initContainers[n] =
                IF n = "lumigo-injector" /\ t.initContainers[n] \in Settings THEN None
                ELSE t.initContainers[n]
         /\ \A c \in Containers : \A p \in Paths : Strip(t).containers[c].mounts[p] =
                IF t.containers[c].mounts[p] = "lumigo-injector" THEN None
                ELSE t.containers[c].mounts[p]
         /\ \A c \in Containers : \A v \in Variables : Strip(t).containers[c].env[v] =
                IF v \in LumigoVariables THEN None ELSE t.containers[c].env[v]
  BY DEF Strip, StrippedContainer, RemovedVariables, Template, Container

(* Injecting again, with the settings of a newer or an older operator,     *)
(* gives what the user's template would: nothing accumulates, whichever    *)
(* versions injectLumigoIntoPodSpec ran in before.                         *)
THEOREM InjectionReplaces ==
  ASSUME NEW s \in Settings, NEW r \in Settings, NEW t \in Template
  PROVE  Inject(s, Inject(r, t)) = Inject(s, t)
  <1>1. Inject(r, t) \in Template /\ Inject(s, t) \in Template
    BY InjectType
  <1>2. Inject(s, Inject(r, t)) \in Template
    BY <1>1, InjectType
  <1>3. \A n \in Things : Inject(s, Inject(r, t)).volumes[n] = Inject(s, t).volumes[n]
    BY <1>1, InjectParts
  <1>4. \A n \in Things :
            Inject(s, Inject(r, t)).initContainers[n] = Inject(s, t).initContainers[n]
    BY <1>1, InjectParts
  <1>5. \A c \in Containers : \A p \in Paths :
            Inject(s, Inject(r, t)).containers[c].mounts[p] = Inject(s, t).containers[c].mounts[p]
    BY <1>1, InjectParts
  <1>6. \A c \in Containers : \A v \in Variables :
            Inject(s, Inject(r, t)).containers[c].env[v] = Inject(s, t).containers[c].env[v]
    BY <1>1, InjectParts
  <1> QED  BY <1>1, <1>2, <1>3, <1>4, <1>5, <1>6, TemplateEquality

(* removeLumigoFromPodSpec undoes injectLumigoIntoPodSpec exactly when the *)
(* template had nothing of one of Lumigo's names, nor a mount at its path. *)
THEOREM RemovalUndoesInjection ==
  ASSUME NEW s \in Settings, NEW t \in Template
  PROVE  Strip(Inject(s, t)) = t <=>
            /\ LumigoFree(t)
            /\ \A c \in Containers : t.containers[c].mounts["/opt/lumigo"] = None
  <1> DEFINE u == Strip(Inject(s, t))
  <1>1. Inject(s, t) \in Template /\ u \in Template
    BY InjectType, StripType
  <1>2. \A n \in Things :
          /\ u.volumes[n] = IF n = "lumigo-injector" THEN None ELSE t.volumes[n]
          /\ u.initContainers[n] = IF n = "lumigo-injector" THEN None ELSE t.initContainers[n]
    BY <1>1, InjectParts, StripParts
  <1>3. \A c \in Containers : \A p \in Paths : u.containers[c].mounts[p] =
            IF p = "/opt/lumigo" \/ t.containers[c].mounts[p] = "lumigo-injector" THEN None
            ELSE t.containers[c].mounts[p]
    BY <1>1, InjectParts, StripParts
  <1>4. \A c \in Containers : \A v \in Variables : u.containers[c].env[v] =
            IF v \in LumigoVariables THEN None ELSE t.containers[c].env[v]
    BY <1>1, InjectParts, StripParts
  <1> HIDE DEF u
  <1>5. ASSUME LumigoFree(t), \A c \in Containers : t.containers[c].mounts["/opt/lumigo"] = None
        PROVE  u = t
    <2>1. \A n \in Things : u.volumes[n] = t.volumes[n] /\ u.initContainers[n] = t.initContainers[n]
      BY <1>2, <1>5, NameValues DEF LumigoFree
    <2>2. \A c \in Containers : \A p \in Paths :
            u.containers[c].mounts[p] = t.containers[c].mounts[p]
      BY <1>3, <1>5 DEF LumigoFree
    <2>3. \A c \in Containers : \A v \in Variables :
            u.containers[c].env[v] = t.containers[c].env[v]
      BY <1>4, <1>5 DEF LumigoFree
    <2> QED  BY <1>1, <2>1, <2>2, <2>3, TemplateEquality
  <1>6. ASSUME u = t
        PROVE  LumigoFree(t) /\ \A c \in Containers : t.containers[c].mounts["/opt/lumigo"] = None
    <2>1. t.volumes["lumigo-injector"] = None /\ t.initContainers["lumigo-injector"] = None
      BY <1>2, <1>6, NameValues
    <2>2. None # "lumigo-injector"
      BY NamesOK
    <2>3. \A c \in Containers : /\ t.containers[c].mounts["/opt/lumigo"] = None
                                /\ \A p \in Paths : t.containers[c].mounts[p] # "lumigo-injector"
      BY <1>3, <1>6, <2>2, NameValues
    <2>4. \A c \in Containers : \A v \in LumigoVariables : t.containers[c].env[v] = None
      BY <1>4, <1>6, NameValues
    <2> QED  BY <2>1, <2>3, <2>4 DEF LumigoFree
  <1> QED  BY <1>5, <1>6 DEF u

LEMMA StripKeepsLumigoFree ==
  ASSUME NEW t \in Template, LumigoFree(t)
  PROVE  Strip(t) = t
  <1>1. Strip(t) \in Template
    BY StripType
  <1>2. \A n \in Things : Strip(t).volumes[n] = t.volumes[n]
    BY StripParts, NameValues DEF LumigoFree
  <1>3. \A n \in Things : Strip(t).initContainers[n] = t.initContainers[n]
    BY StripParts, NameValues DEF LumigoFree
  <1>4. \A c \in Containers : \A p \in Paths :
            Strip(t).containers[c].mounts[p] = t.containers[c].mounts[p]
    BY StripParts DEF LumigoFree
  <1>5. \A c \in Containers : \A v \in Variables :
            Strip(t).containers[c].env[v] = t.containers[c].env[v]
    BY StripParts DEF LumigoFree
  <1> QED  BY <1>1, <1>2, <1>3, <1>4, <1>5, TemplateEquality

(* The names "lumigo-injector" are the operator's or nobody's.             *)
OperatorsOwn(t) ==
    /\ t.volumes["lumigo-injector"] \in {None, "emptyDir"}
    /\ t.initContainers["lumigo-injector"] \in Settings \cup {None}

(* removeLumigoFromPodSpec leaves nothing of Lumigo behind, whichever      *)
(* settings it was injected with and however much of it is there.          *)
THEOREM RemovalLeavesNothing ==
  ASSUME NEW t \in Template, OperatorsOwn(t)
  PROVE  LumigoFree(Strip(t))
  <1>1. Strip(t).volumes["lumigo-injector"] = None
    BY StripParts, NameValues DEF OperatorsOwn
  <1>2. Strip(t).initContainers["lumigo-injector"] = None
    BY StripParts, NameValues DEF OperatorsOwn
  <1>3. None # "lumigo-injector"
    BY NamesOK
  <1>4. \A c \in Containers : \A p \in Paths :
            Strip(t).containers[c].mounts[p] # "lumigo-injector"
    BY <1>3, StripParts
  <1>5. \A c \in Containers : \A v \in LumigoVariables : Strip(t).containers[c].env[v] = None
    BY StripParts, NameValues
  <1> QED  BY <1>1, <1>2, <1>4, <1>5 DEF LumigoFree

LEMMA InjectIsOperatorsOwn ==
  ASSUME NEW s \in Settings, NEW t \in Template
  PROVE  OperatorsOwn(Inject(s, t))
  BY InjectParts, NameValues DEF OperatorsOwn

LEMMA StripIsOperatorsOwn ==
  ASSUME NEW t \in Template, OperatorsOwn(t)
  PROVE  OperatorsOwn(Strip(t))
  BY StripParts, NameValues DEF OperatorsOwn

(***************************************************************************)
(* What the user wrote.                                                    *)
(***************************************************************************)

LEMMA InjectKeepsOwn ==
  ASSUME NEW s \in Settings, NEW t \in Template
  PROVE  SameOwn(Inject(s, t), t)
  <1>1. \A n \in OwnNames : n \in Things /\ n \in Paths /\ n \in Variables
                          /\ n # "lumigo-injector" /\ n # "/opt/lumigo" /\ n \notin LumigoVariables
    BY NameValues
  <1> QED  BY <1>1, InjectParts DEF SameOwn

(* No path of the user's mounts Lumigo's volume. *)
OwnMounts(t) ==
    \A c \in Containers : \A n \in OwnNames : t.containers[c].mounts[n] # "lumigo-injector"

LEMMA StripKeepsOwn ==
  ASSUME NEW t \in Template, OwnMounts(t)
  PROVE  SameOwn(Strip(t), t)
  <1>1. \A n \in OwnNames : n \in Things /\ n \in Paths /\ n \in Variables
                          /\ n # "lumigo-injector" /\ n \notin LumigoVariables
    BY NameValues
  <1> QED  BY <1>1, StripParts DEF SameOwn, OwnMounts

LEMMA SameOwnTransitive ==
  ASSUME NEW t, NEW u, NEW v, SameOwn(t, u), SameOwn(u, v)
  PROVE  SameOwn(t, v)
  BY DEF SameOwn

LEMMA SameOwnMounts ==
  ASSUME NEW t, NEW u, SameOwn(t, u), OwnMounts(u)
  PROVE  OwnMounts(t)
  BY DEF SameOwn, OwnMounts

(***************************************************************************)
(* Instrumentation describes the mutators.                                 *)
(***************************************************************************)

LEMMA InjectedValues ==
  ASSUME NEW s, NEW c
  PROVE  /\ VariableValue(s, c, "LD_PRELOAD") = "lumigo_injector.so"
         /\ VariableValue(s, c, "LUMIGO_TRACER_TOKEN") = s
         /\ VariableValue(s, c, "LUMIGO_ENDPOINT") = s
         /\ VariableValue(s, c, "LUMIGO_ENABLE_LOGS") = s
  <1> USE DEF VariableValue
  <1>1. VariableValue(s, c, "LD_PRELOAD") = "lumigo_injector.so"
    OBVIOUS
  <1>2. VariableValue(s, c, "LUMIGO_TRACER_TOKEN") = s
    OBVIOUS
  <1>3. VariableValue(s, c, "LUMIGO_ENDPOINT") = s
    OBVIOUS
  <1>4. VariableValue(s, c, "LUMIGO_ENABLE_LOGS") = s
    OBVIOUS
  <1> QED  BY <1>1, <1>2, <1>3, <1>4

LEMMA FreeHasNoInjector ==
  ASSUME NEW s \in Settings, NEW t \in Template, LumigoFree(t)
  PROVE  ~HasInjector(s, t)
  BY NamesOK DEF LumigoFree, HasInjector

LEMMA InjectedHasInjector ==
  ASSUME NEW s \in Settings, NEW t \in Template, OwnMounts(t)
  PROVE  HasInjector(s, Inject(s, t))
  <1>1. Inject(s, t).initContainers["lumigo-injector"] = s
    BY InjectParts, NameValues
  <1>2. ASSUME NEW c \in Containers
        PROVE  ContainerHasInjector(s, Inject(s, t).containers[c])
    <2>1. \A v \in LumigoVariables : v \in Variables
      BY NameValues
    <2>2. {"LD_PRELOAD", "LUMIGO_TRACER_TOKEN", "LUMIGO_ENDPOINT", "LUMIGO_ENABLE_LOGS"}
            \subseteq LumigoVariables
      BY DEF LumigoVariables
    <2>3. \A v \in LumigoVariables :
            Inject(s, t).containers[c].env[v] = VariableValue(s, c, v)
      BY <2>1, InjectParts
    <2>4. s # None
      BY NamesOK
    <2>5. Inject(s, t).containers[c].mounts["/opt/lumigo"] = "lumigo-injector"
      BY InjectParts, NameValues
    <2>6. \A p \in Paths : p # "/opt/lumigo" =>
            Inject(s, t).containers[c].mounts[p] # "lumigo-injector"
      BY InjectParts, NameValues DEF OwnMounts
    <2> QED  BY <2>2, <2>3, <2>4, <2>5, <2>6, InjectedValues, NameValues DEF ContainerHasInjector
  <1> QED  BY <1>1, <1>2 DEF HasInjector

(* A template that is as its user wrote it, or injected with s. *)
Instrumentable(s, u, w) ==
    /\ w \in TemplatedWorkload /\ u \in Template /\ LumigoFree(u)
    /\ w.template \in {u, Inject(s, u)}

LEMMA InstrumentableHasInjector ==
  ASSUME NEW s \in Settings, NEW u, NEW w, Instrumentable(s, u, w)
  PROVE  HasInjector(s, w.template) <=> w.template = Inject(s, u)
  <1>1. OwnMounts(u)
    BY NameValues DEF OwnMounts, LumigoFree, Instrumentable
  <1>2. HasInjector(s, Inject(s, u)) /\ ~HasInjector(s, u)
    BY <1>1, InjectedHasInjector, FreeHasNoInjector DEF Instrumentable
  <1> QED  BY <1>2 DEF Instrumentable

LEMMA InjectionDescribed ==
  ASSUME NEW s \in Settings, NEW u, NEW w, Instrumentable(s, u, w), NEW t \in Traits
  PROVE  Abstracted(s, InjectInto(t, s, w)) =
            IF InjectionMutates(t, Abstracted(s, w)) THEN Injected(Abstracted(s, w))
            ELSE Abstracted(s, w)
  <1>1. Inject(s, w.template) = Inject(s, u)
    BY InjectionReplaces DEF Instrumentable
  <1>2. HasInjector(s, w.template) <=> w.template = Inject(s, u)
    BY InstrumentableHasInjector
  <1>3. HasInjector(s, Inject(s, u))
    <2>1. OwnMounts(u)
      BY NameValues DEF OwnMounts, LumigoFree, Instrumentable
    <2> QED  BY <2>1, InjectedHasInjector DEF Instrumentable
  <1> QED  BY <1>1, <1>2, <1>3 DEF Abstracted, InjectInto, InjectionMutates, Injected, OptsOut

LEMMA RemovalDescribed ==
  ASSUME NEW s \in Settings, NEW u, NEW w, Instrumentable(s, u, w), NEW t \in Traits,
         t.bareEnv = BareEnv(u)
  PROVE  /\ RemovalOccurs(t, w) <=> RemovalMutates(t, Abstracted(s, w))
         /\ Abstracted(s, RemoveFrom(w)) = Removed(Abstracted(s, w))
  <1>1. u \in Template /\ LumigoFree(u) /\ w.template \in {u, Inject(s, u)}
    BY DEF Instrumentable
  <1>2. Inject(s, u) \in Template /\ OperatorsOwn(Inject(s, u))
    BY <1>1, InjectType, InjectIsOperatorsOwn
  <1>3. OperatorsOwn(u)
    BY <1>1 DEF LumigoFree, OperatorsOwn
  <1>4. w.template \in Template /\ OperatorsOwn(w.template)
    BY <1>1, <1>2, <1>3
  <1>5. LumigoFree(Strip(w.template)) /\ Strip(w.template) \in Template
    BY <1>4, RemovalLeavesNothing, StripType
  <1>6. HasInjector(s, w.template) <=> w.template = Inject(s, u)
    BY InstrumentableHasInjector
  <1>7. ~HasInjector(s, Strip(w.template))
    BY <1>5, FreeHasNoInjector
  <1>8. StripMutates(w.template) <=> w.template = Inject(s, u) \/ BareEnv(u)
    <2>1. CASE w.template = u
      <3>1. Strip(u) = u
        BY <1>1, StripKeepsLumigoFree
      <3>2. u # Inject(s, u)
        BY <1>6, <1>1, <2>1, FreeHasNoInjector
      <3> QED  BY <3>1, <3>2, <2>1 DEF StripMutates
    <2>2. CASE w.template = Inject(s, u)
      <3>1. Strip(Inject(s, u)) # Inject(s, u)
        BY <1>5, <1>6, <1>7, <2>2
      <3> QED  BY <3>1, <2>2 DEF StripMutates
    <2> QED  BY <1>1, <2>1, <2>2
  <1>9. Abstracted(s, w).inst <=> w.template = Inject(s, u)
    BY <1>6 DEF Abstracted
  <1>10. RemovalOccurs(t, w) <=> RemovalMutates(t, Abstracted(s, w))
    BY <1>8, <1>9 DEF RemovalOccurs, RemovalMutates
  <1>11. HasInjector(s, Strip(w.template)) = FALSE
    BY <1>7 DEF HasInjector
  <1>12. RemoveFrom(w).label = "skip" /\ RemoveFrom(w).template = Strip(w.template)
    BY DEF RemoveFrom
  <1>13. Abstracted(s, RemoveFrom(w)) = Removed(Abstracted(s, w))
    BY <1>11, <1>12 DEF Abstracted, Removed
  <1> QED  BY <1>10, <1>13

(* Instrumentation, on which the reconciler's model rests, describes the   *)
(* mutators and the webhook truly: for a template free of Lumigo, injected *)
(* or not, a label and one Boolean tell what InjectLumigoInto,             *)
(* RemoveLumigoFrom and processResourceInjection do to the workload.       *)
THEOREM MutatorsImplementInstrumentation ==
  ASSUME NEW s \in Settings, NEW u, NEW w, Instrumentable(s, u, w), NEW t \in Traits,
         t.bareEnv = BareEnv(u)
  PROVE  /\ Abstracted(s, InjectInto(t, s, w)) =
                IF InjectionMutates(t, Abstracted(s, w)) THEN Injected(Abstracted(s, w))
                ELSE Abstracted(s, w)
         /\ RemovalOccurs(t, w) <=> RemovalMutates(t, Abstracted(s, w))
         /\ Abstracted(s, RemoveFrom(w)) = Removed(Abstracted(s, w))
         /\ \A d \in Decisions : Abstracted(s, AdmittedTemplate(t, s, w, d))
                                    = Admitted(t, Abstracted(s, w), d)
  <1>1. Abstracted(s, ProcessedByWebhook(t, s, w)) = Processed(t, Abstracted(s, w))
    <2>1. CASE w.label = "skip"
      <3>1. [w EXCEPT !.label = "none"] = [label |-> "none", template |-> w.template]
        BY DEF Instrumentable, TemplatedWorkload
      <3>2. [Abstracted(s, w) EXCEPT !.label = "none"] =
                [label |-> "none", inst |-> HasInjector(s, w.template)]
        BY DEF Abstracted
      <3> QED  BY <2>1, <3>1, <3>2 DEF ProcessedByWebhook, Processed, Abstracted
    <2>2. CASE w.label # "skip"
      BY <2>2, InjectionDescribed DEF ProcessedByWebhook, Processed, Abstracted
    <2> QED  BY <2>1, <2>2
  <1>2. ASSUME NEW d \in Decisions
        PROVE  Abstracted(s, AdmittedTemplate(t, s, w, d)) = Admitted(t, Abstracted(s, w), d)
    BY <1>1 DEF AdmittedTemplate, Admitted, Abstracted
  <1> QED  BY <1>2, InjectionDescribed, RemovalDescribed
================================================================================
