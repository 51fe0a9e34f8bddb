--------------------------- MODULE UninstallerProofs ---------------------------
(***************************************************************************)
(* What holds of the uninstallation for any number of Lumigoes, workloads, *)
(* retries and disturbances.                                               *)
(***************************************************************************)
EXTENDS Uninstaller, PodTemplateProofs, FiniteSetTheorems

USE UninstallerConstantsOK

LEMMA InjectIntoType ==
  ASSUME NEW t, NEW s \in Settings, NEW w \in TemplatedWorkload
  PROVE  InjectInto(t, s, w) \in TemplatedWorkload
  <1>1. Inject(s, w.template) \in Template
    BY InjectType DEF TemplatedWorkload
  <1> QED  BY <1>1 DEF InjectInto, TemplatedWorkload, Labels

LEMMA RemoveFromType ==
  ASSUME NEW w \in TemplatedWorkload
  PROVE  RemoveFrom(w) \in TemplatedWorkload
  BY StripType DEF RemoveFrom, TemplatedWorkload, Labels

LEMMA AdmittedType ==
  ASSUME NEW t, NEW s \in Settings, NEW w \in TemplatedWorkload, NEW d
  PROVE  AdmittedTemplate(t, s, w, d) \in TemplatedWorkload
  <1>1. [w EXCEPT !.label = "none"] \in TemplatedWorkload
    BY DEF TemplatedWorkload, Labels
  <1> QED  BY <1>1, InjectIntoType DEF AdmittedTemplate, ProcessedByWebhook

(***************************************************************************)
(* Types.                                                                  *)
(***************************************************************************)

(* Where the hook is tells what it works on. *)
Working ==
    /\ todo # {} => namespace \in Namespaces
    /\ pc = "update" => todo # {} /\ copy \in TemplatedWorkload
    /\ pc # "failed" => failures <= BackoffLimit
    /\ informer \in {"starting", "watching", "closed"} => pc \in Deleting

Typed == TypeOK /\ Working

LEMMA InitTyped == Init => Typed
  <1> SUFFICES ASSUME Init PROVE Typed
    OBVIOUS
  <1>1. lumigoes \in [Lumigoes -> Lumigo] /\ creations \in Nat
    <2>1. [uid |-> 1, fin |-> TRUE, deleting |-> FALSE] \in Lumigo /\ NoLumigo \in Lumigo
      BY DEF Lumigo, NoLumigo
    <2> QED  BY <2>1 DEF Init
  <1>2. own \in [Workloads -> Template]
    <2>1. \A w \in Workloads : own[w] \in Template
      BY DEF Init
    <2> QED  BY <2>1 DEF Init
  <1>3. workloads \in [Workloads -> TemplatedWorkload]
    <2>1. ASSUME NEW w \in Workloads PROVE workloads[w] \in TemplatedWorkload
      <3>1. own[w] \in Template /\ \A s \in Settings : Inject(s, own[w]) \in Template
        BY <1>2, InjectType
      <3> QED  BY <3>1 DEF Init, Possible, TemplatedWorkload, Labels
    <2> QED  BY <2>1 DEF Init
  <1>4. awaited \in [Lumigoes -> Nat] /\ left \subseteq Lumigoes /\ toDelete \subseteq Lumigoes
        /\ informer = "off" /\ events = <<>> /\ events \in Seq(Lumigoes)
    BY DEF Init, Idle
  <1>5. /\ 0 \in 0..(BackoffLimit + 1) /\ 0 \in 0..5 /\ 0 \in 0..(MaxAttempts - 1)
        /\ 0 \in 0..MaxDisturbances
    OBVIOUS
  <1>6. TypeOK
    BY <1>1, <1>2, <1>3, <1>4, <1>5 DEF Init, TypeOK, PCs
  <1> QED  BY <1>4, <1>6 DEF Init, Typed, Working

LEMMA VanishType ==
  ASSUME TypeOK, NEW l \in Lumigoes, Vanish(l)
  PROVE  lumigoes' \in [Lumigoes -> Lumigo] /\ events' \in Seq(Lumigoes)
  BY DEF TypeOK, Vanish, NoLumigo, Lumigo

LEMMA RequestDeletionType ==
  ASSUME TypeOK, NEW l \in Lumigoes, RequestDeletion(l)
  PROVE  lumigoes' \in [Lumigoes -> Lumigo] /\ events' \in Seq(Lumigoes)
  <1>1. CASE Exists(lumigoes[l]) /\ ~lumigoes[l].fin
    BY <1>1, VanishType DEF RequestDeletion
  <1>2. CASE ~(Exists(lumigoes[l]) /\ ~lumigoes[l].fin)
    <2>1. Exists(lumigoes[l]) \in BOOLEAN
      BY DEF Exists
    <2>2. [lumigoes[l] EXCEPT !.deleting = Exists(lumigoes[l])] \in Lumigo
      BY <2>1 DEF TypeOK, Lumigo
    <2> QED  BY <1>2, <2>2 DEF RequestDeletion, TypeOK
  <1> QED  BY <1>1, <1>2

LEMMA PodFailsType ==
  ASSUME Typed, PodFails, failures <= BackoffLimit, UNCHANGED <<cluster, disturbances>>
  PROVE  Typed'
  <1>1. failures' \in 0..(BackoffLimit + 1)
    BY DEF PodFails, Typed, TypeOK
  <1>2. pc' \in PCs /\ (pc' # "failed" => failures' <= BackoffLimit) /\ pc' # "update"
    BY DEF PodFails, Retried, PCs
  <1>3. 0 \in 0..5 /\ 0 \in 0..(MaxAttempts - 1)
    OBVIOUS
  <1>4. awaited' \in [Lumigoes -> Nat] /\ events' \in Seq(Lumigoes)
    BY DEF PodFails
  <1> QED  BY <1>1, <1>2, <1>3, <1>4 DEF PodFails, Typed, TypeOK, Working, cluster

LEMMA FailedAttemptType ==
  ASSUME Typed, FailedAttempt, todo # {}
  PROVE  /\ pc' = "sweep"
         /\ namespacesLeft' \subseteq Namespaces /\ namespace' \in Namespaces \cup {None}
         /\ phase' \in 0..5 /\ todo' \subseteq Workloads /\ attempt' \in 0..(MaxAttempts - 1)
         /\ abandoned' \subseteq Namespaces
         /\ todo' # {} => namespace' \in Namespaces
  <1>1. 0 \in 0..5 /\ 0 \in 0..(MaxAttempts - 1)
    OBVIOUS
  <1>2. namespace \in Namespaces
    BY DEF Typed, Working
  <1> QED  BY <1>1, <1>2 DEF FailedAttempt, GiveUp, LeaveNamespace, AttemptsLeft, Typed, TypeOK

LEMMA SweptByInstrumentedType ==
  ASSUME TypeOK, NEW l \in Lumigoes, SweptBy(l, [w \in Workloads |-> Instrumented(w)])
  PROVE  workloads' \in [Workloads -> TemplatedWorkload] /\ dirty' \subseteq Workloads
  <1>1. \A w \in Workloads : Instrumented(w) \in TemplatedWorkload
    BY InjectIntoType DEF Instrumented, TypeOK
  <1> QED  BY <1>1 DEF SweptBy, TypeOK

LEMMA SweptByUninstrumentedType ==
  ASSUME TypeOK, NEW l \in Lumigoes, SweptBy(l, [w \in Workloads |-> Uninstrumented(w)])
  PROVE  workloads' \in [Workloads -> TemplatedWorkload] /\ dirty' \subseteq Workloads
  <1>1. \A w \in Workloads : Uninstrumented(w) \in TemplatedWorkload
    BY RemoveFromType, AdmittedType DEF Uninstrumented, TypeOK
  <1> QED  BY <1>1 DEF SweptBy, TypeOK

LEMMA HookTyped == Typed /\ Hook => Typed'
  <1> SUFFICES ASSUME Typed, Hook PROVE Typed'
    OBVIOUS
  <1> USE DEF Typed, Working
  <1>1. CASE List
    BY <1>1 DEF List, TypeOK, PCs, Deleting, Sweeping, cluster, sweep, deletion, Listed, Lumigo
  <1>2. CASE InformerLists
    BY <1>2 DEF InformerLists, TypeOK, cluster, sweep
  <1>3. CASE Delete
    <2>1. PICK l \in toDelete : /\ toDelete' = toDelete \ {l}
                                /\ \/ RequestDeletion(l) /\ UNCHANGED disturbances
                                   \/ Disturbance /\ UNCHANGED <<lumigoes, events>>
      BY <1>3 DEF Delete
    <2>2. lumigoes' \in [Lumigoes -> Lumigo] /\ events' \in Seq(Lumigoes)
      BY <2>1, RequestDeletionType DEF TypeOK
    <2>3. disturbances' \in 0..MaxDisturbances
      BY <2>1 DEF TypeOK, Disturbance
    <2> QED  BY <1>3, <2>1, <2>2, <2>3 DEF Delete, TypeOK, sweep
  <1>4. CASE Wait
    BY <1>4 DEF Wait, TypeOK, PCs, Deleting, cluster, sweep, deletion
  <1>5. CASE DeleteFunc
    <2>1. CASE PodFails
      <3>1. failures <= BackoffLimit
        BY <1>5 DEF DeleteFunc, Deleting
      <3> QED  BY <1>5, <2>1, <3>1, PodFailsType DEF DeleteFunc
    <2>2. CASE ~PodFails
      <3>1. /\ informer \in {"watching", "closed"}
            /\ left' = left \ {Head(events)} /\ events' = Tail(events)
            /\ informer' \in {"closed", informer}
            /\ UNCHANGED <<pc, failures, awaited, toDelete, sweep>>
            /\ UNCHANGED <<cluster, disturbances>>
        BY <1>5, <2>2 DEF DeleteFunc, StillLeft
      <3>2. events' \in Seq(Lumigoes)
        BY <1>5, <3>1 DEF DeleteFunc, TypeOK
      <3> QED  BY <3>1, <3>2 DEF TypeOK, cluster, sweep
    <2> QED  BY <2>1, <2>2
  <1>6. CASE InformerStops
    BY <1>6 DEF InformerStops, TypeOK, cluster, sweep
  <1>7. CASE Proceed
    BY <1>7 DEF Proceed, TypeOK, PCs, cluster, sweep, deletion
  <1>8. CASE PassDeadline
    <2>1. failures <= BackoffLimit
      BY <1>8 DEF PassDeadline, Hung
    <2> QED  BY <1>8, <2>1, PodFailsType DEF PassDeadline
  <1>9. CASE ListNamespaces
    BY <1>9 DEF ListNamespaces, TypeOK, PCs, Deleting, Sweeping, deletion
  <1>10. CASE EnterNamespace
    BY <1>10 DEF EnterNamespace, TypeOK, cluster, deletion
  <1>11. CASE ListKind
    <2>1. PICK p \in (phase + 1)..5 :
            /\ phase' = p
            /\ todo' = {w \in OfKind(namespace, p) : AutoTraced(workloads[w])}
      BY <1>11 DEF ListKind, Later
    <2>2. phase' \in 0..5
      BY <2>1 DEF TypeOK
    <2>3. todo' \subseteq Workloads
      BY <2>1 DEF OfKind, InNamespace
    <2> QED  BY <1>11, <2>2, <2>3 DEF ListKind, TypeOK, cluster, deletion
  <1>12. CASE FinishNamespace
    <2>1. 0 \in 0..5 /\ 0 \in 0..(MaxAttempts - 1)
      OBVIOUS
    <2> QED  BY <1>12, <2>1 DEF FinishNamespace, LeaveNamespace, TypeOK, cluster, deletion
  <1>13. CASE Get
    <2>1. Item \in Workloads
      BY <1>13 DEF Get, Item, TypeOK
    <2>2. copy' \in TemplatedWorkload
      BY <1>13, <2>1 DEF Get, TypeOK
    <2> QED  BY <1>13, <2>2 DEF Get, TypeOK, PCs, Deleting, Sweeping, cluster, deletion
  <1>14. CASE Update
    <2>1. todo # {} /\ copy \in TemplatedWorkload /\ Item \in todo /\ pc # "failed"
      BY <1>14 DEF Update, Item
    <2>2. CASE FailedAttempt /\ UNCHANGED workloads
      BY <1>14, <2>1, <2>2, FailedAttemptType DEF Update, TypeOK, PCs, Sweeping, deletion, Deleting
    <2>3. CASE ~(FailedAttempt /\ UNCHANGED workloads)
      <3>1. workloads' \in [Workloads -> TemplatedWorkload]
        <4>1. ASSUME NEW d
              PROVE  AdmittedTemplate(WorkloadTraits[Item], Current, RemoveFrom(copy), d)
                        \in TemplatedWorkload
          BY <2>1, RemoveFromType, AdmittedType
        <4>2. CASE UNCHANGED workloads
          BY <4>2 DEF TypeOK
        <4>3. CASE ~UNCHANGED workloads
          <5>1. \E d \in WebhookDecisions(Item) :
                    workloads' = [workloads EXCEPT ![Item] =
                        AdmittedTemplate(WorkloadTraits[Item], Current, RemoveFrom(copy), d)]
            BY <1>14, <2>3, <4>3 DEF Update
          <5> QED  BY <2>1, <4>1, <5>1 DEF TypeOK
        <4> QED  BY <4>2, <4>3
      <3>2. /\ pc' = "sweep" /\ todo' = todo \ {Item} /\ attempt' = 0
            /\ UNCHANGED <<namespacesLeft, namespace, phase, abandoned>>
        BY <1>14, <2>3 DEF Update
      <3>3. 0 \in 0..(MaxAttempts - 1)
        OBVIOUS
      <3> QED  BY <1>14, <2>1, <3>1, <3>2, <3>3
               DEF Update, TypeOK, PCs, Sweeping, deletion, Deleting
    <2> QED  BY <2>2, <2>3
  <1>15. CASE Succeed
    BY <1>15 DEF Succeed, TypeOK, PCs, Deleting, cluster, sweep, deletion
  <1> QED  BY <1>1, <1>2, <1>3, <1>4, <1>5, <1>6, <1>7, <1>8, <1>9, <1>10, <1>11, <1>12, <1>13,
              <1>14, <1>15 DEF Hook

LEMMA OthersTyped == Typed /\ (Operator \/ Disturb \/ UNCHANGED vars) => Typed'
  <1> SUFFICES ASSUME Typed, Operator \/ Disturb \/ UNCHANGED vars PROVE Typed'
    OBVIOUS
  <1> USE DEF Typed, Working
  <1>1. ASSUME NEW l \in Lumigoes, Adopt(l) PROVE Typed'
    <2>1. [lumigoes EXCEPT ![l].fin = TRUE] \in [Lumigoes -> Lumigo]
      BY DEF TypeOK, Lumigo
    <2> QED  BY <1>1, <2>1, SweptByInstrumentedType DEF Adopt, TypeOK, deletion, sweep
  <1>2. ASSUME NEW l \in Lumigoes, Finalise(l) PROVE Typed'
    BY <1>2, VanishType, SweptByUninstrumentedType DEF Finalise, TypeOK, sweep
  <1>3. ASSUME Disturbance PROVE disturbances' \in 0..MaxDisturbances
    BY <1>3 DEF Disturbance, TypeOK
  <1>4. ASSUME NEW l \in Lumigoes, CreateLumigo(l) PROVE Typed'
    <2>1. creations' \in Nat
      BY <1>4 DEF CreateLumigo, TypeOK
    <2>2. [NoLumigo EXCEPT !.uid = creations'] \in Lumigo
      BY <2>1 DEF NoLumigo, Lumigo
    <2>3. lumigoes' \in [Lumigoes -> Lumigo]
      BY <1>4, <2>2 DEF CreateLumigo, TypeOK
    <2> QED  BY <1>3, <1>4, <2>1, <2>3 DEF CreateLumigo, TypeOK, deletion, sweep
  <1>5. ASSUME NEW l \in Lumigoes, DeleteLumigo(l) PROVE Typed'
    BY <1>3, <1>5, RequestDeletionType DEF DeleteLumigo, TypeOK, sweep
  <1>6. ASSUME NEW w \in Workloads, TouchWorkload(w) PROVE Typed'
    <2>1. workloads' \in [Workloads -> TemplatedWorkload]
      BY <1>6, AdmittedType DEF TouchWorkload, TypeOK
    <2> QED  BY <1>3, <1>6, <2>1 DEF TouchWorkload, TypeOK, deletion, sweep
  <1>7. CASE RequestFails
    <2>1. UNCHANGED cluster /\ disturbances' \in 0..MaxDisturbances
      BY <1>3, <1>7 DEF RequestFails
    <2>2. CASE pc \in {"list", "namespaces"} \cup Deleting /\ PodFails
      <3>1. failures' \in 0..(BackoffLimit + 1)
        BY <2>2 DEF PodFails, TypeOK, Deleting
      <3>2. pc' \in PCs /\ (pc' # "failed" => failures' <= BackoffLimit) /\ pc' # "update"
        BY <2>2 DEF PodFails, Retried, PCs
      <3>3. 0 \in 0..5 /\ 0 \in 0..(MaxAttempts - 1)
        OBVIOUS
      <3>4. awaited' \in [Lumigoes -> Nat] /\ events' \in Seq(Lumigoes)
        BY <2>2 DEF PodFails
      <3> QED  BY <2>1, <2>2, <3>1, <3>2, <3>3, <3>4 DEF PodFails, TypeOK, cluster
    <2>3. CASE /\ pc = "sweep" /\ namespace # None /\ todo = {} /\ GiveUp
               /\ UNCHANGED <<pc, copy>> /\ UNCHANGED <<failures, deletion>>
      <3>1. 0 \in 0..5 /\ 0 \in 0..(MaxAttempts - 1)
        OBVIOUS
      <3> QED  BY <2>1, <2>3, <3>1 DEF GiveUp, LeaveNamespace, TypeOK, cluster, deletion
    <2>4. CASE /\ pc = "update" \/ (pc = "sweep" /\ todo # {})
               /\ FailedAttempt /\ copy' = None /\ UNCHANGED <<failures, deletion>>
      BY <2>1, <2>4, FailedAttemptType DEF TypeOK, cluster, deletion, PCs, Sweeping, Deleting
    <2> QED  BY <1>7, <2>2, <2>3, <2>4 DEF RequestFails
  <1>8. CASE Tombstones
    BY <1>3, <1>8 DEF Tombstones, TypeOK, cluster, sweep
  <1>9. CASE UNCHANGED vars
    BY <1>9 DEF TypeOK, vars, cluster, deletion, sweep
  <1> QED  BY <1>1, <1>2, <1>4, <1>5, <1>6, <1>7, <1>8, <1>9 DEF Operator, Disturb

(* The uninstaller's state has its types, whatever the operator, users and *)
(* failures do: among them, that its retries stay within their limits.     *)
THEOREM Types == Spec => []TypeOK
  <1>1. Typed /\ [Next]_vars => Typed'
    BY HookTyped, OthersTyped DEF Next
  <1>2. Typed => TypeOK
    BY DEF Typed
  <1> QED  BY InitTyped, <1>1, <1>2, PTL DEF Spec

(***************************************************************************)
(* The Lumigoes are gone first.                                            *)
(***************************************************************************)

Gone(l) == awaited[l] # 0 => lumigoes[l].uid # awaited[l]

(* A Lumigo that is not left, or whose deletion the informer has in hand,  *)
(* is gone: another one of its name was created later.                     *)
Tracked ==
    /\ \A l \in Lumigoes : lumigoes[l].uid <= creations /\ awaited[l] <= creations
    /\ \A l \in Lumigoes \ left : Gone(l)
    /\ \A i \in 1..Len(events) : Gone(events[i])
    /\ informer \in {"closed", "stopped"} => left = {}
    /\ informer = "off" => (\A l \in Lumigoes : awaited[l] = 0) /\ events = <<>>
    /\ pc \in {"list", "failed"} => informer = "off"
    /\ pc \in {"namespaces", "succeeded"} \cup Sweeping => informer \in {"off", "stopped"}

LEMMA InitTracked == Init => Tracked
  <1> SUFFICES ASSUME Init PROVE Tracked
    OBVIOUS
  <1>1. \A l \in Lumigoes : lumigoes[l].uid <= creations
    BY DEF Init, NoLumigo
  <1>2. /\ \A l \in Lumigoes : awaited[l] = 0
        /\ events = <<>> /\ informer = "off" /\ pc = "list" /\ creations = 1
    BY DEF Init, Idle
  <1> QED  BY <1>1, <1>2 DEF Tracked, Gone, Sweeping

(* The uids of the Lumigoes stay, are those of new ones, or become 0.      *)
Aged ==
    /\ creations' \in Nat /\ creations <= creations'
    /\ \A l \in Lumigoes :
          lumigoes'[l].uid \in {lumigoes[l].uid, 0}
             \/ (lumigoes'[l].uid = creations' /\ creations' > creations)

LEMMA GoneStays ==
  ASSUME Typed, Tracked, Aged, UNCHANGED awaited, NEW l \in Lumigoes, Gone(l)
  PROVE  Gone(l)'
  <1>1. awaited[l] \in Nat /\ awaited[l] <= creations /\ lumigoes[l].uid \in Nat /\ creations \in Nat
    BY DEF Typed, TypeOK, Lumigo, Tracked
  <1> QED  BY <1>1 DEF Gone, Aged

LEMMA AgedTracked ==
  ASSUME Typed, Typed', Tracked, Aged, UNCHANGED <<pc, awaited, left, informer>>,
         \/ UNCHANGED events \/ events' = <<>>
         \/ informer # "off" /\ \E l \in Lumigoes :
                lumigoes'[l].uid = 0 /\ events' = Append(events, l)
  PROVE  Tracked'
  <1>1. \A l \in Lumigoes : lumigoes'[l].uid <= creations' /\ awaited[l] <= creations'
    <2> TAKE l \in Lumigoes
    <2>1. /\ lumigoes[l].uid \in Nat /\ awaited[l] \in Nat /\ creations \in Nat
          /\ lumigoes[l].uid <= creations /\ awaited[l] <= creations
      BY DEF Typed, TypeOK, Lumigo, Tracked
    <2> QED  BY <2>1 DEF Aged
  <1>2. \A l \in Lumigoes \ left : Gone(l)'
    BY GoneStays DEF Tracked
  <1>3. (\A i \in 1..Len(events) : Gone(events[i]))'
    <2> DEFINE G(m) == awaited[m] # 0 => lumigoes'[m].uid # awaited[m]
    <2>1. events \in Seq(Lumigoes)
      BY DEF Typed, TypeOK
    <2>2. \A m \in Lumigoes : Gone(m) => G(m)
      BY GoneStays DEF Gone
    <2>3. \A i \in 1..Len(events) : G(events[i])
      BY <2>1, <2>2 DEF Tracked
    <2>4. SUFFICES \A i \in 1..Len(events') : G(events'[i])
      BY DEF Gone
    <2>5. CASE UNCHANGED events
      BY <2>3, <2>5
    <2>6. CASE events' = <<>>
      BY <2>6
    <2>7. ASSUME NEW l \in Lumigoes, lumigoes'[l].uid = 0, events' = Append(events, l)
          PROVE  \A i \in 1..Len(events') : G(events'[i])
      <3>1. G(l)
        BY <2>7
      <3>2. \A i \in 1..Len(events') :
                events'[i] = l \/ (i \in 1..Len(events) /\ events'[i] = events[i])
        BY <2>1, <2>7
      <3> HIDE DEF G
      <3> QED  BY <2>3, <3>1, <3>2
    <2> QED  BY <2>5, <2>6, <2>7
  <1> QED  BY <1>1, <1>2, <1>3 DEF Tracked

LEMMA VanishAges ==
  ASSUME Typed, NEW l \in Lumigoes, Vanish(l), UNCHANGED creations
  PROVE  /\ Aged
         /\ \/ UNCHANGED events
            \/ informer # "off" /\ lumigoes'[l].uid = 0 /\ events' = Append(events, l)
  BY DEF Vanish, Aged, Typed, TypeOK, NoLumigo

LEMMA RequestDeletionAges ==
  ASSUME Typed, NEW l \in Lumigoes, RequestDeletion(l), UNCHANGED creations
  PROVE  /\ Aged
         /\ \/ UNCHANGED events
            \/ informer # "off" /\ lumigoes'[l].uid = 0 /\ events' = Append(events, l)
  <1>1. CASE Exists(lumigoes[l]) /\ ~lumigoes[l].fin
    BY <1>1, VanishAges DEF RequestDeletion
  <1>2. CASE ~(Exists(lumigoes[l]) /\ ~lumigoes[l].fin)
    <2>1. lumigoes' = [lumigoes EXCEPT ![l].deleting = Exists(lumigoes[l])] /\ UNCHANGED events
      BY <1>2 DEF RequestDeletion
    <2>2. \A m \in Lumigoes : lumigoes'[m].uid = lumigoes[m].uid
      BY <2>1 DEF Typed, TypeOK, Lumigo
    <2> QED  BY <2>1, <2>2 DEF Aged, Typed, TypeOK
  <1> QED  BY <1>1, <1>2

LEMMA PodFailsTracked ==
  ASSUME Typed, Tracked, PodFails, UNCHANGED cluster
  PROVE  Tracked'
  <1>1. pc' \in {"list", "failed"} /\ informer' = "off" /\ events' = <<>>
        /\ \A l \in Lumigoes : awaited'[l] = 0
    BY DEF PodFails
  <1>2. \A l \in Lumigoes : lumigoes'[l].uid <= creations' /\ awaited'[l] <= creations'
    BY <1>1 DEF Tracked, Typed, TypeOK, cluster
  <1> QED  BY <1>1, <1>2 DEF Tracked, Gone, Sweeping

LEMMA NextTracked == Typed /\ Typed' /\ Tracked /\ [Next]_vars => Tracked'
  <1> SUFFICES ASSUME Typed, Typed', Tracked, [Next]_vars PROVE Tracked'
    OBVIOUS
  <1> USE DEF Sweeping, Deleting
  <1>a. ASSUME UNCHANGED <<lumigoes, creations>> PROVE Aged
    BY <1>a DEF Aged, Typed, TypeOK
  <1>1. CASE List
    <2>1. informer = "off" /\ events = <<>> /\ \A l \in Lumigoes : awaited[l] = 0
      BY <1>1 DEF List, Tracked
    <2>2. CASE Listed = {}
      BY <1>1, <2>1, <2>2 DEF List, Tracked, Gone, deletion, cluster
    <2>3. CASE Listed # {}
      BY <1>1, <2>1, <2>3 DEF List, Tracked, Gone, cluster, Listed, Exists, Typed, TypeOK, Lumigo
    <2> QED  BY <2>2, <2>3
  <1>2. CASE InformerLists
    BY <1>2 DEF InformerLists, Tracked, Gone, cluster, Typed, Working
  <1>3. CASE Delete
    <2>1. PICK l \in toDelete : \/ RequestDeletion(l)
                                \/ UNCHANGED <<lumigoes, events>>
      BY <1>3 DEF Delete
    <2>2. l \in Lumigoes /\ UNCHANGED <<creations, pc, awaited, left, informer>>
      BY <1>3 DEF Delete, Typed, TypeOK
    <2> QED  BY <1>a, <2>1, <2>2, RequestDeletionAges, AgedTracked
  <1>4. CASE Wait
    BY <1>4 DEF Wait, Tracked, Gone, cluster, deletion
  <1>5. CASE DeleteFunc
    <2>1. CASE PodFails
      BY <1>5, <2>1, PodFailsTracked DEF DeleteFunc
    <2>2. CASE ~PodFails
      <3>1. /\ informer \in {"watching", "closed"} /\ events # <<>>
            /\ left' = left \ {Head(events)} /\ events' = Tail(events)
            /\ informer' = IF left' = {} THEN "closed" ELSE informer
            /\ UNCHANGED <<pc, awaited, lumigoes, creations>>
        BY <1>5, <2>2 DEF DeleteFunc, StillLeft, cluster
      <3>2. events \in Seq(Lumigoes)
        BY DEF Typed, TypeOK
      <3>3. /\ Head(events) = events[1] /\ 1 \in 1..Len(events)
            /\ \A i \in 1..Len(events') : i + 1 \in 1..Len(events) /\ events'[i] = events[i + 1]
        BY <3>1, <3>2
      <3>4. (\A i \in 1..Len(events) : Gone(events[i]))'
        BY <3>1, <3>3 DEF Tracked, Gone
      <3>5. (\A l \in Lumigoes \ left : Gone(l))'
        BY <3>1, <3>3 DEF Tracked, Gone
      <3>6. pc \in Deleting
        BY <3>1 DEF Typed, Working
      <3>7. (informer \in {"closed", "stopped"} => left = {})'
        BY <3>1 DEF Tracked
      <3> QED  BY <3>1, <3>4, <3>5, <3>6, <3>7 DEF Tracked
    <2> QED  BY <2>1, <2>2
  <1>6. CASE InformerStops
    BY <1>6 DEF InformerStops, Tracked, Gone, cluster, Typed, Working
  <1>7. CASE Proceed
    BY <1>7 DEF Proceed, Tracked, Gone, cluster, deletion
  <1>8. CASE PassDeadline
    BY <1>8, PodFailsTracked DEF PassDeadline
  <1>9. CASE ListNamespaces \/ EnterNamespace \/ ListKind \/ FinishNamespace \/ Get \/ Succeed
    <2>1. UNCHANGED <<lumigoes, creations, deletion>>
      BY <1>9 DEF ListNamespaces, EnterNamespace, ListKind, FinishNamespace, Get, Succeed, cluster
    <2>2. pc \in {"namespaces"} \cup Sweeping /\ pc' \in {"succeeded"} \cup Sweeping
      BY <1>9 DEF ListNamespaces, EnterNamespace, ListKind, FinishNamespace, Get, Succeed
    <2> QED  BY <2>1, <2>2 DEF Tracked, Gone, deletion
  <1>10. CASE Update
    <2>1. UNCHANGED <<lumigoes, creations, deletion>> /\ pc = "update" /\ pc' = "sweep"
      BY <1>10 DEF Update, FailedAttempt
    <2> QED  BY <2>1 DEF Tracked, Gone, deletion
  <1>11. ASSUME NEW l \in Lumigoes, Adopt(l) PROVE Tracked'
    <2>1. /\ lumigoes' = [lumigoes EXCEPT ![l].fin = TRUE]
          /\ UNCHANGED <<creations, pc, deletion>>
      BY <1>11 DEF Adopt
    <2>2. \A m \in Lumigoes : lumigoes'[m].uid = lumigoes[m].uid
      BY <2>1 DEF Typed, TypeOK, Lumigo
    <2>3. Aged
      BY <2>1, <2>2 DEF Aged, Typed, TypeOK
    <2> QED  BY <2>1, <2>3, AgedTracked DEF deletion
  <1>12. ASSUME NEW l \in Lumigoes, Finalise(l) PROVE Tracked'
    BY <1>12, VanishAges, AgedTracked DEF Finalise
  <1>13. ASSUME NEW l \in Lumigoes, CreateLumigo(l) PROVE Tracked'
    <2>1. /\ creations' = creations + 1 /\ creations \in Nat
          /\ lumigoes' = [lumigoes EXCEPT ![l] = [NoLumigo EXCEPT !.uid = creations']]
          /\ UNCHANGED <<pc, deletion>>
      BY <1>13 DEF CreateLumigo, Typed, TypeOK
    <2>2. [NoLumigo EXCEPT !.uid = creations'].uid = creations'
      BY DEF NoLumigo
    <2>3. Aged
      BY <2>1, <2>2 DEF Aged, Typed, TypeOK
    <2> QED  BY <2>1, <2>3, AgedTracked DEF deletion
  <1>14. ASSUME NEW l \in Lumigoes, DeleteLumigo(l) PROVE Tracked'
    BY <1>14, RequestDeletionAges, AgedTracked DEF DeleteLumigo
  <1>15. ASSUME NEW w \in Workloads, TouchWorkload(w) PROVE Tracked'
    BY <1>15, <1>a, AgedTracked DEF TouchWorkload, deletion
  <1>16. CASE RequestFails
    <2>1. CASE PodFails
      BY <1>16, <2>1, PodFailsTracked DEF RequestFails
    <2>2. CASE ~PodFails
      <3>1. UNCHANGED <<cluster, deletion>> /\ pc \in Sweeping /\ pc' \in Sweeping
        BY <1>16, <2>2 DEF RequestFails, FailedAttempt
      <3> QED  BY <3>1 DEF Tracked, Gone, deletion, cluster
    <2> QED  BY <2>1, <2>2
  <1>17. CASE Tombstones
    BY <1>17, <1>a, AgedTracked DEF Tombstones, cluster
  <1>18. CASE UNCHANGED vars
    BY <1>18 DEF Tracked, Gone, vars, cluster, deletion
  <1> QED  BY <1>1, <1>2, <1>3, <1>4, <1>5, <1>6, <1>7, <1>8, <1>9, <1>10, <1>11, <1>12, <1>13,
              <1>14, <1>15, <1>16, <1>17, <1>18 DEF Next, Hook, Operator, Disturb

LEMMA TrackedImplies == Tracked => DeletedFirst
  BY DEF Tracked, Gone, DeletedFirst, Sweeping

(* removeLumigoFromMonitoredNamespaces does not return before every Lumigo *)
(* it listed is gone, although deletions come late, twice or not at all,   *)
(* and Lumigoes are created anew meanwhile.                                *)
THEOREM LumigoesGoFirst == Spec => []DeletedFirst
  <1>1. Typed /\ [Next]_vars => Typed'
    BY HookTyped, OthersTyped DEF Next
  <1> QED  BY <1>1, InitTyped, InitTracked, NextTracked, TrackedImplies, PTL DEF Spec

(***************************************************************************)
(* The job's retries.                                                      *)
(***************************************************************************)

(* The Lumigo is one this pod listed and waits for, and whose deletion has *)
(* been requested or will be.                                              *)
Pursued(l) ==
    /\ l \in left /\ lumigoes[l].uid = awaited[l]
    /\ l \in toDelete \/ lumigoes[l].deleting

(* As long as each pod that failed had a disturbance of its own, the Lumi- *)
(* goes there are are being deleted; so none is left when the next pod     *)
(* fails, and the one after that has nothing to wait for.                  *)
Accounted ==
    /\ failures <= disturbances + 1
    /\ pc = "failed" => failures > BackoffLimit
    /\ pc = "wait" => toDelete = {}
    /\ failures = disturbances + 1 => Listed = {} /\ pc \notin Deleting
    /\ failures = disturbances /\ pc \in Deleting => \A l \in Listed : Pursued(l)

LEMMA InitAccounted == Init => Accounted
  BY DEF Init, Accounted, Deleting

(* No step but a disturbance creates a Lumigo or takes back a deletion.    *)
Fewer ==
    \A l \in Lumigoes : Exists(lumigoes'[l]) =>
        /\ lumigoes'[l].uid = lumigoes[l].uid
        /\ lumigoes[l].deleting => lumigoes'[l].deleting

LEMMA VanishFewer ==
  ASSUME Typed, NEW l \in Lumigoes, Vanish(l)
  PROVE  Fewer
  BY DEF Vanish, Fewer, Exists, NoLumigo, Typed, TypeOK

LEMMA RequestDeletionFewer ==
  ASSUME Typed, NEW l \in Lumigoes, RequestDeletion(l)
  PROVE  Fewer /\ (Exists(lumigoes'[l]) => lumigoes'[l].deleting)
  <1>1. CASE Exists(lumigoes[l]) /\ ~lumigoes[l].fin
    BY <1>1, VanishFewer DEF RequestDeletion, Vanish, Exists, NoLumigo, Typed, TypeOK
  <1>2. CASE ~(Exists(lumigoes[l]) /\ ~lumigoes[l].fin)
    <2>1. lumigoes' = [lumigoes EXCEPT ![l].deleting = Exists(lumigoes[l])]
      BY <1>2 DEF RequestDeletion
    <2>2. /\ lumigoes \in [Lumigoes -> Lumigo]
          /\ \A m \in Lumigoes \ {l} : lumigoes'[m] = lumigoes[m]
          /\ lumigoes'[l] = [lumigoes[l] EXCEPT !.deleting = Exists(lumigoes[l])]
      BY <2>1 DEF Typed, TypeOK
    <2>3. /\ lumigoes'[l].uid = lumigoes[l].uid
          /\ lumigoes'[l].deleting = Exists(lumigoes[l])
      BY <2>2 DEF Lumigo
    <2> QED  BY <2>2, <2>3 DEF Fewer, Exists
  <1> QED  BY <1>1, <1>2

(* A disturbance, or a step of the operator or the informer. *)
LEMMA OthersAccounted ==
  ASSUME Typed, Accounted, UNCHANGED <<pc, failures, awaited, left, toDelete>>,
         (UNCHANGED disturbances /\ Fewer) \/ disturbances' = disturbances + 1
  PROVE  Accounted'
  <1>1. failures \in Nat /\ disturbances \in Nat
    BY DEF Typed, TypeOK
  <1>2. CASE disturbances' = disturbances + 1
    BY <1>1, <1>2 DEF Accounted
  <1>3. CASE UNCHANGED disturbances /\ Fewer
    <2>1. \A l \in Lumigoes : l \in Listed' => l \in Listed /\ (Pursued(l) => Pursued(l)')
      BY <1>3 DEF Fewer, Listed, Pursued, Exists
    <2>2. Listed' \subseteq Lumigoes
      BY DEF Listed
    <2> QED  BY <1>3, <2>1, <2>2 DEF Accounted
  <1> QED  BY <1>2, <1>3

(* A step of the hook outside its deletion. *)
LEMMA ElsewhereAccounted ==
  ASSUME Accounted, UNCHANGED <<lumigoes, failures, disturbances>>,
         pc' \notin Deleting \cup {"failed"}
  PROVE  Accounted'
  BY DEF Accounted, Listed, Deleting

LEMMA PodFailsAccounted ==
  ASSUME Typed, Accounted, PodFails, UNCHANGED lumigoes,
         \/ /\ UNCHANGED disturbances /\ pc \in Deleting
            /\ failures = disturbances => Listed = {}
         \/ disturbances' = disturbances + 1
  PROVE  Accounted'
  <1>1. failures \in Nat /\ disturbances \in Nat
    BY DEF Typed, TypeOK
  <1>2. /\ failures' = failures + 1 /\ Listed' = Listed
        /\ pc' \in {"list", "failed"} /\ (pc' = "failed" => failures' > BackoffLimit)
    BY <1>1 DEF PodFails, Retried, Listed
  <1>3. CASE disturbances' = disturbances + 1
    BY <1>1, <1>2, <1>3 DEF Accounted, Deleting
  <1>4. CASE /\ UNCHANGED disturbances /\ pc \in Deleting
             /\ failures = disturbances => Listed = {}
    BY <1>1, <1>2, <1>4 DEF Accounted, Deleting
  <1> QED  BY <1>3, <1>4

(* A Lumigo that is pursued is none whose deletion the informer has seen.  *)
LEMMA HandedOnIsNotPursued ==
  ASSUME Typed, Tracked, events # <<>>
  PROVE  Head(events) \in Lumigoes /\ ~(Head(events) \in Listed /\ Pursued(Head(events)))
  <1>1. events \in Seq(Lumigoes)
    BY DEF Typed, TypeOK
  <1>2. Head(events) = events[1] /\ 1 \in 1..Len(events) /\ Head(events) \in Lumigoes
    BY <1>1
  <1>3. Gone(Head(events))
    BY <1>2 DEF Tracked
  <1> QED  BY <1>2, <1>3 DEF Gone, Pursued, Listed, Exists

LEMMA NextAccounted == Typed /\ Tracked /\ Accounted /\ [Next]_vars => Accounted'
  <1> SUFFICES ASSUME Typed, Tracked, Accounted, [Next]_vars PROVE Accounted'
    OBVIOUS
  <1> USE DEF Sweeping, Deleting
  <1>a. ASSUME UNCHANGED lumigoes PROVE Fewer
    BY <1>a DEF Fewer
  <1>b. failures \in Nat /\ disturbances \in Nat
    BY DEF Typed, TypeOK
  <1>1. CASE List
    <2>1. CASE Listed = {}
      BY <1>1, <2>1, ElsewhereAccounted DEF List, cluster
    <2>2. CASE Listed # {}
      <3>1. /\ pc' = "delete" /\ left' = Listed /\ toDelete' = Listed
            /\ awaited' = [l \in Lumigoes |-> lumigoes[l].uid]
            /\ UNCHANGED <<lumigoes, failures, disturbances>>
        BY <1>1, <2>2 DEF List, cluster
      <3>2. \A l \in Listed' : Pursued(l)'
        BY <3>1 DEF Listed, Pursued
      <3> QED  BY <1>b, <2>2, <3>1, <3>2 DEF Accounted, Listed
    <2> QED  BY <2>1, <2>2
  <1>2. CASE InformerLists \/ InformerStops
    BY <1>2, <1>a, OthersAccounted DEF InformerLists, InformerStops, cluster
  <1>3. CASE Delete
    <2>1. PICK l \in toDelete : /\ toDelete' = toDelete \ {l}
                                /\ \/ RequestDeletion(l) /\ UNCHANGED disturbances
                                   \/ Disturbance /\ UNCHANGED <<lumigoes, events>>
      BY <1>3 DEF Delete
    <2>2. l \in Lumigoes /\ pc = "delete" /\ UNCHANGED <<pc, failures, awaited, left>>
      BY <1>3 DEF Delete, Typed, TypeOK
    <2>3. CASE disturbances' = disturbances + 1
      BY <1>b, <2>2, <2>3 DEF Accounted
    <2>4. CASE RequestDeletion(l) /\ UNCHANGED disturbances
      <3>1. Fewer /\ (Exists(lumigoes'[l]) => lumigoes'[l].deleting)
        BY <2>2, <2>4, RequestDeletionFewer
      <3>2. \A m \in Listed' : m \in Listed /\ (Pursued(m) => Pursued(m)')
        BY <2>1, <2>2, <3>1 DEF Fewer, Listed, Pursued, Exists
      <3> QED  BY <2>2, <2>4, <3>2 DEF Accounted
    <2> QED  BY <2>1, <2>3, <2>4 DEF Disturbance
  <1>4. CASE Wait
    BY <1>4 DEF Wait, Accounted, Listed, Pursued, cluster, deletion
  <1>5. CASE DeleteFunc
    <2>1. pc \in Deleting /\ events # <<>> /\ UNCHANGED <<lumigoes, disturbances>>
      BY <1>5 DEF DeleteFunc, Typed, Working, cluster
    <2>2. failures = disturbances => \A l \in Listed : Pursued(l) /\ l # Head(events)
      BY <2>1, HandedOnIsNotPursued DEF Accounted
    <2>3. CASE PodFails
      <3>1. CASE informer = "closed"
        <4>1. left = {}
          BY <3>1 DEF Tracked
        <4>2. failures = disturbances => Listed = {}
          BY <2>2, <4>1 DEF Pursued
        <4> QED  BY <2>1, <2>3, <4>2, PodFailsAccounted
      <3>2. CASE informer # "closed"
        BY <1>5, <2>1, <2>3, <3>2 DEF DeleteFunc, PodFails, Typed, TypeOK
      <3> QED  BY <3>1, <3>2
    <2>4. CASE ~PodFails
      <3>1. /\ left' = left \ {Head(events)}
            /\ UNCHANGED <<pc, failures, awaited, toDelete>>
        BY <1>5, <2>4 DEF DeleteFunc, StillLeft
      <3>2. failures = disturbances => \A l \in Listed' : Pursued(l)'
        BY <2>1, <2>2, <3>1 DEF Listed, Pursued
      <3> QED  BY <2>1, <3>1, <3>2 DEF Accounted, Listed
    <2> QED  BY <2>3, <2>4
  <1>6. CASE PassDeadline
    <2>1. pc = "wait" /\ (\A l \in left : ~lumigoes[l].deleting) /\ PodFails
          /\ UNCHANGED <<lumigoes, disturbances>>
      BY <1>6 DEF PassDeadline, Hung, cluster
    <2>2. failures = disturbances => Listed = {}
      BY <2>1 DEF Accounted, Pursued
    <2> QED  BY <2>1, <2>2, PodFailsAccounted
  <1>7. CASE Proceed \/ ListNamespaces \/ EnterNamespace \/ ListKind \/ FinishNamespace \/ Get \/ Succeed
    BY <1>7, ElsewhereAccounted DEF Proceed, ListNamespaces, EnterNamespace, ListKind,
       FinishNamespace, Get, Succeed, cluster
  <1>8. CASE Update
    BY <1>8, ElsewhereAccounted DEF Update, FailedAttempt
  <1>9. ASSUME NEW l \in Lumigoes, Adopt(l) PROVE Accounted'
    <2>1. Fewer
      BY <1>9 DEF Adopt, Fewer, Exists, Typed, TypeOK, Lumigo
    <2> QED  BY <1>9, <2>1, OthersAccounted DEF Adopt, deletion
  <1>10. ASSUME NEW l \in Lumigoes, Finalise(l) PROVE Accounted'
    BY <1>10, VanishFewer, OthersAccounted DEF Finalise
  <1>11. ASSUME NEW l \in Lumigoes, CreateLumigo(l) \/ DeleteLumigo(l) PROVE Accounted'
    BY <1>11, OthersAccounted DEF CreateLumigo, DeleteLumigo, Disturbance, deletion
  <1>12. CASE (\E w \in Workloads : TouchWorkload(w)) \/ Tombstones
    BY <1>12, OthersAccounted DEF TouchWorkload, Tombstones, Disturbance, deletion
  <1>13. CASE RequestFails
    <2>1. disturbances' = disturbances + 1 /\ UNCHANGED lumigoes
      BY <1>13 DEF RequestFails, Disturbance, cluster
    <2>2. CASE PodFails
      BY <2>1, <2>2, PodFailsAccounted
    <2>3. CASE ~PodFails
      <3>1. UNCHANGED failures /\ pc' = "sweep"
        BY <1>13, <2>3 DEF RequestFails, FailedAttempt, deletion
      <3> QED  BY <1>b, <2>1, <3>1 DEF Accounted
    <2> QED  BY <2>2, <2>3
  <1>14. CASE UNCHANGED vars
    BY <1>14, <1>a, OthersAccounted DEF vars, cluster, deletion
  <1> QED  BY <1>1, <1>2, <1>3, <1>4, <1>5, <1>6, <1>7, <1>8, <1>9, <1>10, <1>11, <1>12, <1>13,
              <1>14 DEF Next, Hook, Operator, Disturb

LEMMA AccountedImplies == Typed /\ Accounted => FailsOnlyIfDisturbed
  BY DEF Typed, TypeOK, Accounted, FailsOnlyIfDisturbed

(* The job's pods hang when their informer misses a deletion, and crash    *)
(* when it sees one too many, but by themselves they do so once: each      *)
(* other pod that fails had a request that failed, a Lumigo that was       *)
(* created or another disturbance, and it takes BackoffLimit of those      *)
(* to make the job fail.                                                   *)
THEOREM JobFailsOnlyIfDisturbed == Spec => []FailsOnlyIfDisturbed
  <1>1. Typed /\ [Next]_vars => Typed'
    BY HookTyped, OthersTyped DEF Next
  <1> QED  BY <1>1, InitTyped, InitTracked, NextTracked, InitAccounted, NextAccounted,
              AccountedImplies, PTL DEF Spec

(***************************************************************************)
(* What becomes of the workloads.                                          *)
(***************************************************************************)

(* Users leave Lumigo's volume, init container and mount to the operator;  *)
(* they may well set the variables.                                        *)
UsersAvoidLumigo ==
    \A w \in Workloads : \A t \in UserTemplates[w] : OwnMounts(t) /\ OperatorsOwn(t)

Restored(u, w) == w.template = u \/ LumigoFree(w.template)

(* What workload w is to the template u its user wrote: a workload with    *)
(* none of these labels may be instrumented, one with them is not.         *)
Derived(u, w) ==
    /\ SameOwn(w.template, u) /\ OperatorsOwn(w.template)
    /\ w.label \in {"none", "false", "skip"} => Restored(u, w)

LEMMA InjectIntoDerived ==
  ASSUME NEW t, NEW s \in Settings, NEW w \in TemplatedWorkload, NEW u, Derived(u, w)
  PROVE  Derived(u, InjectInto(t, s, w))
  <1>1. w.template \in Template
    BY DEF TemplatedWorkload
  <1>2. SameOwn(Inject(s, w.template), u) /\ OperatorsOwn(Inject(s, w.template))
    BY <1>1, InjectKeepsOwn, InjectIsOperatorsOwn, SameOwnTransitive DEF Derived
  <1> QED  BY <1>2 DEF InjectInto, Derived

LEMMA RemoveFromDerived ==
  ASSUME NEW w \in TemplatedWorkload, NEW u, OwnMounts(u), Derived(u, w)
  PROVE  Derived(u, RemoveFrom(w)) /\ LumigoFree(RemoveFrom(w).template)
  <1>1. w.template \in Template /\ OwnMounts(w.template)
    BY SameOwnMounts DEF TemplatedWorkload, Derived
  <1>2. SameOwn(Strip(w.template), u) /\ OperatorsOwn(Strip(w.template))
        /\ LumigoFree(Strip(w.template))
    BY <1>1, StripKeepsOwn, SameOwnTransitive, StripIsOperatorsOwn, RemovalLeavesNothing
       DEF Derived
  <1> QED  BY <1>2 DEF RemoveFrom, Derived, Restored

LEMMA AdmittedDerived ==
  ASSUME NEW t, NEW s \in Settings, NEW w \in TemplatedWorkload, NEW u, Derived(u, w), NEW d
  PROVE  Derived(u, AdmittedTemplate(t, s, w, d))
  <1>1. [w EXCEPT !.label = "none"] = [label |-> "none", template |-> w.template]
    BY DEF TemplatedWorkload
  <1>2. w.label = "skip" => Derived(u, [w EXCEPT !.label = "none"])
    BY <1>1 DEF Derived, Restored
  <1> QED  BY <1>2, InjectIntoDerived DEF AdmittedTemplate, ProcessedByWebhook

(* The skip-next-injector label keeps the webhook from undoing a removal.  *)
LEMMA RemovalAdmitted ==
  ASSUME NEW t, NEW s, NEW w, NEW d
  PROVE  AdmittedTemplate(t, s, RemoveFrom(w), d).template = Strip(w.template)
  <1>1. RemoveFrom(w) = [label |-> "skip", template |-> Strip(w.template)]
    BY DEF RemoveFrom
  <1>2. [RemoveFrom(w) EXCEPT !.label = "none"].template = Strip(w.template)
    BY <1>1
  <1> QED  BY <1>1, <1>2 DEF AdmittedTemplate, ProcessedByWebhook

Kept == \A w \in Workloads : OwnMounts(own[w]) /\ Derived(own[w], workloads[w])

LEMMA InitKept ==
  ASSUME UsersAvoidLumigo
  PROVE  Init => Kept
  <1> SUFFICES ASSUME Init, NEW w \in Workloads
               PROVE  OwnMounts(own[w]) /\ Derived(own[w], workloads[w])
    BY DEF Kept
  <1>1. own[w] \in UserTemplates[w] /\ workloads[w] \in Possible(own[w])
    BY DEF Init
  <1>2. own[w] \in Template /\ OwnMounts(own[w]) /\ OperatorsOwn(own[w])
    BY <1>1 DEF UsersAvoidLumigo
  <1>3. SameOwn(own[w], own[w])
    BY DEF SameOwn
  <1>4. CASE workloads[w].template = own[w]
    BY <1>2, <1>3, <1>4 DEF Derived, Restored
  <1>5. CASE workloads[w].template # own[w]
    <2>1. PICK s \in Settings : workloads[w].template = Inject(s, own[w])
      BY <1>1, <1>5 DEF Possible
    <2>2. workloads[w].label \in {"lumigo", "true"}
      BY <1>1, <1>5 DEF Possible
    <2> QED  BY <1>2, <2>1, <2>2, InjectKeepsOwn, InjectIsOperatorsOwn DEF Derived
  <1> QED  BY <1>2, <1>4, <1>5

LEMMA InstrumentedKept ==
  ASSUME Typed, Kept, NEW l \in Lumigoes, SweptBy(l, [w \in Workloads |-> Instrumented(w)]), UNCHANGED own
  PROVE  Kept'
  <1>1. \A w \in Workloads : Derived(own[w], Instrumented(w))
    BY InjectIntoDerived DEF Instrumented, Typed, TypeOK, Kept
  <1> QED  BY <1>1 DEF SweptBy, Kept

LEMMA UninstrumentedKept ==
  ASSUME Typed, Kept, NEW l \in Lumigoes, SweptBy(l, [w \in Workloads |-> Uninstrumented(w)]), UNCHANGED own
  PROVE  Kept'
  <1>1. \A w \in Workloads : Derived(own[w], Uninstrumented(w))
    <2> TAKE w \in Workloads
    <2>1. workloads[w] \in TemplatedWorkload
      BY DEF Typed, TypeOK
    <2>2. RemoveFrom(workloads[w]) \in TemplatedWorkload
          /\ Derived(own[w], RemoveFrom(workloads[w]))
      BY <2>1, RemoveFromType, RemoveFromDerived DEF Kept
    <2> QED  BY <2>2, AdmittedDerived DEF Uninstrumented, Kept
  <1> QED  BY <1>1 DEF SweptBy, Kept

LEMMA NextKept == Typed /\ Kept /\ [Next]_vars => Kept'
  <1> SUFFICES ASSUME Typed, Kept, [Next]_vars PROVE Kept'
    OBVIOUS
  <1>1. ASSUME UNCHANGED <<workloads, own>> PROVE Kept'
    BY <1>1 DEF Kept
  <1>2. CASE Update
    <2>1. CASE UNCHANGED workloads
      BY <1>1, <1>2, <2>1 DEF Update
    <2>2. CASE ~UNCHANGED workloads
      <3>1. Item \in Workloads
        BY <1>2 DEF Update, Item, Typed, TypeOK, Working
      <3>2. copy = workloads[Item] /\ UNCHANGED own
        BY <1>2, <2>2 DEF Update
      <3>3. PICK d \in WebhookDecisions(Item) :
                workloads' = [workloads EXCEPT ![Item] =
                    AdmittedTemplate(WorkloadTraits[Item], Current, RemoveFrom(copy), d)]
        BY <1>2, <2>2 DEF Update
      <3>4. RemoveFrom(copy) \in TemplatedWorkload /\ Derived(own[Item], RemoveFrom(copy))
        BY <3>1, <3>2, RemoveFromType, RemoveFromDerived DEF Typed, TypeOK, Kept
      <3>5. Derived(own[Item],
                AdmittedTemplate(WorkloadTraits[Item], Current, RemoveFrom(copy), d))
        BY <3>4, AdmittedDerived
      <3> QED  BY <3>1, <3>2, <3>3, <3>5 DEF Kept, Typed, TypeOK
    <2> QED  BY <2>1, <2>2
  <1>3. CASE Hook /\ ~Update
    BY <1>1, <1>3 DEF Hook, List, InformerLists, Delete, Wait, DeleteFunc, InformerStops, Proceed,
          PassDeadline, ListNamespaces, EnterNamespace, ListKind, FinishNamespace, Get, Succeed,
          cluster
  <1>4. ASSUME NEW l \in Lumigoes, Adopt(l) PROVE Kept'
    BY <1>4, InstrumentedKept DEF Adopt
  <1>5. ASSUME NEW l \in Lumigoes, Finalise(l) PROVE Kept'
    BY <1>5, UninstrumentedKept DEF Finalise
  <1>6. ASSUME NEW l \in Lumigoes, CreateLumigo(l) \/ DeleteLumigo(l) PROVE Kept'
    BY <1>1, <1>6 DEF CreateLumigo, DeleteLumigo
  <1>7. ASSUME NEW w \in Workloads, TouchWorkload(w) PROVE Kept'
    <2>1. PICK d \in WebhookDecisions(w) :
            workloads' = [workloads EXCEPT ![w] =
                AdmittedTemplate(WorkloadTraits[w], Current, workloads[w], d)]
      BY <1>7 DEF TouchWorkload
    <2>2. Derived(own[w], AdmittedTemplate(WorkloadTraits[w], Current, workloads[w], d))
      BY AdmittedDerived DEF Kept, Typed, TypeOK
    <2> QED  BY <1>7, <2>1, <2>2 DEF TouchWorkload, Kept, Typed, TypeOK
  <1>8. CASE RequestFails \/ Tombstones \/ UNCHANGED vars
    BY <1>1, <1>8 DEF RequestFails, Tombstones, vars, cluster
  <1> QED  BY <1>2, <1>3, <1>4, <1>5, <1>6, <1>7, <1>8 DEF Next, Operator, Disturb

(* Whatever the operator, its webhook and the uninstallation do to a       *)
(* workload, in whichever order and with whichever settings: what its user *)
(* wrote under other names than Lumigo's stays, unless a user mounts       *)
(* Lumigo's volume elsewhere.                                              *)
THEOREM OwnPartsStay ==
  ASSUME UsersAvoidLumigo
  PROVE  Spec => []OwnPartsKept
  <1>1. Typed /\ [Next]_vars => Typed'
    BY HookTyped, OthersTyped DEF Next
  <1>2. Kept => OwnPartsKept
    BY DEF Kept, Derived, OwnPartsKept
  <1>3. Init => Kept
    BY InitKept
  <1> QED  BY <1>1, <1>2, <1>3, InitTyped, NextKept, PTL DEF Spec

(***************************************************************************)
(* The sweep.                                                              *)
(***************************************************************************)

(* The workloads the hook may write to. *)
Eligible(w) == ~WorkloadTraits[w].owned /\ WorkloadTraits[w].kind # "Job"

(* The sweep is through with the workload. *)
Swept(w) ==
    /\ WorkloadNamespace[w] \notin namespacesLeft
    /\ WorkloadNamespace[w] = namespace =>
          w \notin todo /\ \E q \in 1..phase : KindOf(q) = WorkloadTraits[w].kind

Through(w) ==
    Eligible(w) /\ WorkloadNamespace[w] \notin abandoned /\ Swept(w)
        => Restored(own[w], workloads[w])

SweepInv ==
    /\ pc \in Sweeping => \A w \in Workloads \ dirty : Through(w)
    /\ pc = "update" => Item \in dirty \/ copy = workloads[Item]
    /\ namespace = None => phase = 0
    /\ TemplatesRestored

LEMMA KindsInOrder == \A k \in Kinds \ {"Job"} : \E p \in 1..5 : KindOf(p) = k
  <1>1. /\ KindOf(1) = "DaemonSet" /\ KindOf(2) = "Deployment" /\ KindOf(3) = "ReplicaSet"
        /\ KindOf(4) = "StatefulSet" /\ KindOf(5) = "CronJob"
    BY DEF KindOf
  <1> QED  BY <1>1 DEF Kinds

LEMMA InitSweepInv == Init => SweepInv
  BY DEF Init, SweepInv, Sweeping, TemplatesRestored

(* A step of others. *)
LEMMA OthersKeepSweep ==
  ASSUME SweepInv, UNCHANGED <<pc, own, sweep>>, dirty \subseteq dirty',
         \A w \in Workloads \ dirty' : workloads'[w] = workloads[w],
         pc = "update" => Item \in Workloads
  PROVE  SweepInv'
  <1>1. Item' = Item
    BY DEF Item, sweep
  <1>2. ASSUME NEW w \in Workloads \ dirty', pc \in Sweeping PROVE Through(w)'
    <2>1. Through(w) /\ workloads'[w] = workloads[w]
      BY <1>2 DEF SweepInv
    <2> QED  BY <2>1 DEF Through, Swept, sweep
  <1>3. TemplatesRestored'
    BY DEF TemplatesRestored, SweepInv, sweep
  <1> QED  BY <1>1, <1>2, <1>3 DEF SweepInv, sweep

(* The pod fails, or the hook is not sweeping yet. *)
LEMMA ElsewhereKeepsSweep ==
  ASSUME SweepInv, pc' \notin Sweeping \cup {"succeeded"},
         UNCHANGED <<namespace, phase>> \/ (namespace' = None /\ phase' = 0)
  PROVE  SweepInv'
  BY DEF SweepInv, TemplatesRestored, Sweeping

LEMMA GiveUpKeepsSweep ==
  ASSUME Typed, SweepInv, pc \in Sweeping, pc' = "sweep", GiveUp, UNCHANGED <<cluster>>
  PROVE  SweepInv'
  <1>1. ASSUME NEW w \in Workloads \ dirty' PROVE Through(w)'
    <2>1. Through(w)
      BY <1>1 DEF SweepInv, cluster
    <2> QED  BY <2>1 DEF Through, Swept, GiveUp, LeaveNamespace, cluster, Restored
  <1> QED  BY <1>1 DEF SweepInv, TemplatesRestored, GiveUp, LeaveNamespace, Sweeping

LEMMA FailedAttemptKeepsSweep ==
  ASSUME Typed, SweepInv, pc \in Sweeping, FailedAttempt, UNCHANGED cluster
  PROVE  SweepInv'
  <1>1. CASE GiveUp
    BY <1>1, GiveUpKeepsSweep DEF FailedAttempt
  <1>2. CASE ~GiveUp
    <2>1. pc' = "sweep" /\ UNCHANGED <<namespacesLeft, namespace, phase, todo, abandoned>>
      BY <1>2 DEF FailedAttempt
    <2>2. ASSUME NEW w \in Workloads \ dirty' PROVE Through(w)'
      <3>1. Through(w)
        BY <2>2 DEF SweepInv, cluster
      <3> QED  BY <2>1, <3>1 DEF Through, Swept, cluster, Restored
    <2> QED  BY <2>1, <2>2 DEF SweepInv, TemplatesRestored
  <1> QED  BY <1>1, <1>2

(* A workload the sweep does not list is without instrumentation. *)
LEMMA NotListed ==
  ASSUME Typed, Kept, NEW w \in Workloads, ~AutoTraced(workloads[w])
  PROVE  Restored(own[w], workloads[w])
  BY DEF AutoTraced, Kept, Derived

LEMMA ListKindKeepsSweep ==
  ASSUME Typed, Kept, SweepInv, ListKind
  PROVE  SweepInv'
  <1>1. PICK p \in Later :
            /\ \A q \in Later : p <= q
            /\ phase' = p
            /\ todo' = {w \in OfKind(namespace, p) : AutoTraced(workloads[w])}
    BY DEF ListKind
  <1>2. /\ pc = "sweep" /\ pc' = "sweep" /\ namespace # None /\ todo = {}
        /\ UNCHANGED <<cluster, namespacesLeft, namespace, abandoned>>
    BY DEF ListKind
  <1>3. phase \in 0..5 /\ p \in (phase + 1)..5
    BY <1>1 DEF Later, Typed, TypeOK
  <1>4. ASSUME NEW w \in Workloads \ dirty, Eligible(w), WorkloadNamespace[w] \notin abandoned,
               Swept(w)'
        PROVE  Restored(own[w], workloads[w])
    <2>1. CASE Swept(w)
      BY <1>2, <1>4, <2>1 DEF SweepInv, Through, Sweeping
    <2>2. CASE ~Swept(w)
      <3>1. WorkloadNamespace[w] = namespace
        BY <1>2, <1>4, <2>2 DEF Swept
      <3>2. PICK q \in 1..p : KindOf(q) = WorkloadTraits[w].kind
        BY <1>1, <1>2, <1>4, <3>1 DEF Swept
      <3>3. q \notin 1..phase
        BY <1>2, <1>4, <2>2, <3>1, <3>2 DEF Swept
      <3>4. w \in OfKind(namespace, q)
        BY <3>1, <3>2 DEF OfKind, InNamespace
      <3>5. q \in Later
        BY <1>3, <3>2, <3>3, <3>4 DEF Later
      <3>6. q = p
        BY <1>1, <1>3, <3>2, <3>5
      <3>7. w \notin todo'
        BY <1>2, <1>4, <3>1 DEF Swept
      <3> QED  BY <1>1, <3>4, <3>6, <3>7, NotListed
    <2> QED  BY <2>1, <2>2
  <1>5. ASSUME NEW w \in Workloads \ dirty' PROVE Through(w)'
    BY <1>2, <1>4, <1>5 DEF Through, Eligible, Restored, cluster
  <1> QED  BY <1>2, <1>5 DEF SweepInv, TemplatesRestored

LEMMA FinishNamespaceKeepsSweep ==
  ASSUME Typed, Kept, SweepInv, FinishNamespace
  PROVE  SweepInv'
  <1>1. /\ pc = "sweep" /\ pc' = "sweep" /\ namespace # None /\ todo = {} /\ Later = {}
        /\ namespace' = None /\ phase' = 0 /\ UNCHANGED <<cluster, namespacesLeft, abandoned>>
    BY DEF FinishNamespace, LeaveNamespace
  <1>2. ASSUME NEW w \in Workloads \ dirty, Eligible(w), WorkloadNamespace[w] \notin namespacesLeft
        PROVE  Swept(w)
    <2>1. ASSUME WorkloadNamespace[w] = namespace
          PROVE  \E q \in 1..phase : KindOf(q) = WorkloadTraits[w].kind
      <3>1. PICK q \in 1..5 : KindOf(q) = WorkloadTraits[w].kind
        <4>1. WorkloadTraits[w].kind \in Kinds \ {"Job"}
          BY <1>2 DEF Eligible, Traits
        <4> QED  BY <4>1, KindsInOrder
      <3>2. w \in OfKind(namespace, q)
        BY <2>1, <3>1 DEF OfKind, InNamespace
      <3>3. q \notin (phase + 1)..5
        BY <1>1, <3>2 DEF Later
      <3> QED  BY <3>1, <3>3 DEF Typed, TypeOK
    <2> QED  BY <1>1, <1>2, <2>1 DEF Swept
  <1>3. ASSUME NEW w \in Workloads \ dirty' PROVE Through(w)'
    <2>1. Through(w)
      BY <1>1, <1>3 DEF SweepInv, Sweeping, cluster
    <2>2. Swept(w)' => WorkloadNamespace[w] \notin namespacesLeft
      BY <1>1 DEF Swept
    <2>3. Eligible(w) /\ Swept(w)' => Swept(w)
      BY <1>1, <1>2, <1>3, <2>2 DEF cluster
    <2> QED  BY <1>1, <2>1, <2>3 DEF Through, Eligible, Restored, cluster
  <1> QED  BY <1>1, <1>3 DEF SweepInv, TemplatesRestored

LEMMA UpdateKeepsSweep ==
  ASSUME Typed, Kept, SweepInv, Update
  PROVE  SweepInv'
  <1>1. pc = "update" /\ todo # {} /\ copy \in TemplatedWorkload /\ Item \in todo
        /\ Item \in Workloads /\ pc' = "sweep"
        /\ UNCHANGED <<lumigoes, creations, own, dirty>>
    BY DEF Update, FailedAttempt, Item, Typed, TypeOK, Working
  <1>2. CASE FailedAttempt /\ UNCHANGED workloads
    BY <1>1, <1>2, FailedAttemptKeepsSweep DEF Sweeping, cluster
  <1>3. CASE ~(FailedAttempt /\ UNCHANGED workloads)
    <2>1. /\ todo' = todo \ {Item} /\ UNCHANGED <<namespacesLeft, namespace, phase, abandoned>>
          /\ \/ ~RemovalOccurs(WorkloadTraits[Item], copy) /\ UNCHANGED workloads
             \/ /\ copy = workloads[Item]
                /\ \E d \in WebhookDecisions(Item) :
                      workloads' = [workloads EXCEPT ![Item] =
                        AdmittedTemplate(WorkloadTraits[Item], Current, RemoveFrom(copy), d)]
      BY <1>3 DEF Update
    <2>2. ASSUME NEW w \in Workloads, w = Item, Eligible(w), w \notin dirty
          PROVE  Restored(own[w], workloads[w])'
      <3>1. copy = workloads[Item]
        BY <1>1, <2>2 DEF SweepInv
      <3>2. LumigoFree(Strip(copy.template))
        <4>1. copy.template \in Template /\ OperatorsOwn(copy.template)
          BY <1>1, <2>2, <3>1 DEF Kept, Derived, TemplatedWorkload
        <4> QED  BY <4>1, RemovalLeavesNothing
      <3>3. CASE ~RemovalOccurs(WorkloadTraits[Item], copy) /\ UNCHANGED workloads
        <4>1. Strip(copy.template) = copy.template
          BY <2>2, <3>3 DEF RemovalOccurs, Eligible, StripMutates
        <4> QED  BY <1>1, <2>2, <3>1, <3>2, <3>3, <4>1 DEF Restored
      <3>4. CASE \E d \in WebhookDecisions(Item) :
                    workloads' = [workloads EXCEPT ![Item] =
                        AdmittedTemplate(WorkloadTraits[Item], Current, RemoveFrom(copy), d)]
        <4>1. workloads'[w].template = Strip(copy.template)
          BY <1>1, <2>2, <3>4, RemovalAdmitted DEF Typed, TypeOK
        <4> QED  BY <3>2, <4>1 DEF Restored
      <3> QED  BY <2>1, <3>3, <3>4
    <2>3. ASSUME NEW w \in Workloads \ dirty' PROVE Through(w)'
      <3>1. CASE w = Item
        BY <1>1, <2>2, <2>3, <3>1 DEF Through, Eligible
      <3>2. CASE w # Item
        <4>1. workloads'[w] = workloads[w]
          BY <1>1, <2>1, <3>2 DEF Typed, TypeOK
        <4>2. Through(w)
          BY <1>1, <2>3 DEF SweepInv, Sweeping
        <4> QED  BY <1>1, <2>1, <3>2, <4>1, <4>2 DEF Through, Swept, Eligible, Restored
      <3> QED  BY <3>1, <3>2
    <2> QED  BY <1>1, <2>1, <2>3 DEF SweepInv, TemplatesRestored
  <1> QED  BY <1>2, <1>3

LEMMA HookKeepsSweep == Typed /\ Kept /\ SweepInv /\ Hook => SweepInv'
  <1> SUFFICES ASSUME Typed, Kept, SweepInv, Hook PROVE SweepInv'
    OBVIOUS
  <1> USE DEF Sweeping, Deleting
  <1>1. CASE List \/ Wait \/ Proceed
    BY <1>1, ElsewhereKeepsSweep DEF List, Wait, Proceed, sweep
  <1>2. CASE InformerLists \/ Delete \/ InformerStops
    <2>1. UNCHANGED <<pc, sweep, workloads, own, dirty>>
      BY <1>2 DEF InformerLists, Delete, InformerStops, cluster
    <2>2. pc \in Deleting
      BY <1>2 DEF InformerLists, Delete, InformerStops, Typed, Working
    <2> QED  BY <2>1, <2>2, OthersKeepSweep
  <1>3. CASE DeleteFunc
    <2>1. pc \in Deleting
      BY <1>3 DEF DeleteFunc, Typed, Working
    <2>2. CASE PodFails
      BY <2>2, ElsewhereKeepsSweep DEF PodFails
    <2>3. CASE ~PodFails
      BY <1>3, <2>1, <2>3, ElsewhereKeepsSweep DEF DeleteFunc, sweep
    <2> QED  BY <2>2, <2>3
  <1>4. CASE PassDeadline
    BY <1>4, ElsewhereKeepsSweep DEF PassDeadline, PodFails
  <1>5. CASE ListNamespaces
    <2>1. \A w \in Workloads : ~Swept(w)'
      BY <1>5 DEF ListNamespaces, Swept
    <2> QED  BY <1>5, <2>1 DEF ListNamespaces, SweepInv, Through, TemplatesRestored
  <1>6. CASE EnterNamespace
    <2>1. /\ pc = "sweep" /\ namespace = None /\ namespace' \in namespacesLeft
          /\ namespacesLeft' = namespacesLeft \ {namespace'}
          /\ UNCHANGED <<cluster, pc, phase, todo, abandoned>>
      BY <1>6 DEF EnterNamespace
    <2>2. phase = 0
      BY <2>1 DEF SweepInv
    <2>3. ASSUME NEW w \in Workloads \ dirty' PROVE Through(w)'
      <3>1. Through(w)
        BY <2>1, <2>3 DEF SweepInv, cluster
      <3>2. WorkloadNamespace[w] # None
        BY <2>3
      <3>3. Swept(w)' => Swept(w)
        BY <2>1, <2>2, <3>2 DEF Swept
      <3> QED  BY <2>1, <3>1, <3>3 DEF Through, Eligible, Restored, cluster
    <2> QED  BY <2>1, <2>2, <2>3 DEF SweepInv, TemplatesRestored
  <1>7. CASE Get
    <2>1. /\ pc = "sweep" /\ pc' = "update" /\ copy' = workloads[Item]
          /\ UNCHANGED <<cluster, namespacesLeft, namespace, phase, todo, abandoned>>
      BY <1>7 DEF Get
    <2>2. Item' = Item
      BY <2>1 DEF Item
    <2>3. ASSUME NEW w \in Workloads \ dirty' PROVE Through(w)'
      <3>1. Through(w)
        BY <2>1, <2>3 DEF SweepInv, cluster
      <3> QED  BY <2>1, <3>1 DEF Through, Swept, Eligible, Restored, cluster
    <2> QED  BY <2>1, <2>2, <2>3 DEF SweepInv, TemplatesRestored, cluster
  <1>8. CASE Succeed
    <2>1. /\ pc = "sweep" /\ namespace = None /\ namespacesLeft = {} /\ pc' = "succeeded"
          /\ UNCHANGED <<cluster, sweep>>
      BY <1>8 DEF Succeed
    <2>2. \A w \in Workloads : Swept(w)
      BY <2>1 DEF Swept
    <2>3. TemplatesRestored'
      BY <2>1, <2>2 DEF SweepInv, TemplatesRestored, Through, Eligible, Restored, cluster, sweep
    <2> QED  BY <2>1, <2>3 DEF SweepInv, sweep
  <1> QED  BY <1>1, <1>2, <1>3, <1>4, <1>5, <1>6, <1>7, <1>8, ListKindKeepsSweep,
              FinishNamespaceKeepsSweep, UpdateKeepsSweep DEF Hook

LEMMA OperatorKeepsSweep ==
    Typed /\ SweepInv /\ (Operator \/ Disturb \/ UNCHANGED vars) => SweepInv'
  <1> SUFFICES ASSUME Typed, SweepInv, Operator \/ Disturb \/ UNCHANGED vars PROVE SweepInv'
    OBVIOUS
  <1> USE DEF Sweeping, Deleting
  <1>1. pc = "update" => Item \in Workloads
    BY DEF Item, Typed, TypeOK, Working
  <1>2. ASSUME NEW l \in Lumigoes, Adopt(l) \/ Finalise(l) PROVE SweepInv'
    <2>1. UNCHANGED <<pc, own, sweep>>
      BY <1>2 DEF Adopt, Finalise
    <2>2. dirty' = dirty \cup {w \in Workloads : workloads'[w] # workloads[w]}
      BY <1>2 DEF Adopt, Finalise, SweptBy
    <2> QED  BY <1>1, <2>1, <2>2, OthersKeepSweep
  <1>3. ASSUME NEW l \in Lumigoes, CreateLumigo(l) \/ DeleteLumigo(l) PROVE SweepInv'
    BY <1>1, <1>3, OthersKeepSweep DEF CreateLumigo, DeleteLumigo
  <1>4. ASSUME NEW w \in Workloads, TouchWorkload(w) PROVE SweepInv'
    <2>1. UNCHANGED <<pc, own, sweep>> /\ dirty' = dirty \cup {w}
      BY <1>4 DEF TouchWorkload
    <2>2. \A v \in Workloads \ dirty' : workloads'[v] = workloads[v]
      BY <1>4, <2>1 DEF TouchWorkload, Typed, TypeOK
    <2> QED  BY <1>1, <2>1, <2>2, OthersKeepSweep
  <1>5. CASE RequestFails
    <2>1. UNCHANGED cluster
      BY <1>5 DEF RequestFails
    <2>2. CASE PodFails
      BY <2>2, ElsewhereKeepsSweep DEF PodFails
    <2>3. CASE ~PodFails /\ GiveUp /\ pc = "sweep" /\ UNCHANGED pc
      BY <2>1, <2>3, GiveUpKeepsSweep
    <2>4. CASE FailedAttempt /\ pc \in Sweeping
      BY <2>1, <2>4, FailedAttemptKeepsSweep
    <2> QED  BY <1>5, <2>2, <2>3, <2>4 DEF RequestFails
  <1>6. CASE Tombstones \/ UNCHANGED vars
    BY <1>1, <1>6, OthersKeepSweep DEF Tombstones, vars, cluster
  <1> QED  BY <1>2, <1>3, <1>4, <1>5, <1>6 DEF Operator, Disturb

(* Once the hook has succeeded, every workload that uninjectStandalone-    *)
(* Resources could get at is as its user wrote it or without any of        *)
(* Lumigo's parts, although others wrote to the workloads, the webhook     *)
(* might have injected them again, and attempts failed and were repeated.  *)
THEOREM UninstallationRestores ==
  ASSUME UsersAvoidLumigo
  PROVE  Spec => []TemplatesRestored
  <1>1. Typed /\ [Next]_vars => Typed'
    BY HookTyped, OthersTyped DEF Next
  <1>2. Init => Kept
    BY InitKept
  <1>3. Typed /\ Kept /\ SweepInv /\ [Next]_vars => SweepInv'
    BY HookKeepsSweep, OperatorKeepsSweep DEF Next
  <1>4. SweepInv => TemplatesRestored
    BY DEF SweepInv
  <1> QED  BY <1>1, <1>2, <1>3, <1>4, InitTyped, NextKept, InitSweepInv, PTL DEF Spec

(***************************************************************************)
(* The sweep ends.                                                         *)
(***************************************************************************)

LEMMA FailedAttemptAhead ==
  ASSUME Typed, FailedAttempt, todo # {}
  PROVE  Ahead
  <1>1. namespace # None /\ attempt \in 0..(MaxAttempts - 1) /\ MaxAttempts \in Nat
    BY DEF Typed, Working, TypeOK
  <1>2. CASE GiveUp
    BY <1>1, <1>2 DEF GiveUp, LeaveNamespace, Ahead
  <1>3. CASE /\ AttemptsLeft(attempt) /\ attempt' = attempt + 1
             /\ UNCHANGED <<namespacesLeft, namespace, phase, todo, abandoned>>
    BY <1>1, <1>3 DEF AttemptsLeft, Ahead
  <1> QED  BY <1>2, <1>3 DEF FailedAttempt

LEMMA SweepAhead ==
  ASSUME Typed, Next, pc \in Sweeping
  PROVE  Ahead \/ UNCHANGED place
  <1> USE DEF Sweeping, Deleting
  <1>1. CASE InformerLists \/ Delete \/ DeleteFunc \/ InformerStops
    BY <1>1 DEF InformerLists, Delete, DeleteFunc, InformerStops, PodFails, place, sweep,
       Typed, Working, Ahead
  <1>2. CASE EnterNamespace
    <2>1. namespacesLeft' \subseteq namespacesLeft /\ namespacesLeft' # namespacesLeft
      BY <1>2 DEF EnterNamespace
    <2> QED  BY <2>1 DEF Ahead
  <1>3. CASE ListKind
    <2>1. PICK p \in Later : phase' = p
      BY <1>3 DEF ListKind
    <2> QED  BY <1>3, <2>1 DEF ListKind, Later, Ahead
  <1>4. CASE FinishNamespace
    BY <1>4 DEF FinishNamespace, LeaveNamespace, Ahead
  <1>5. CASE Get
    BY <1>5 DEF Get, Ahead
  <1>6. CASE Update
    <2>1. CASE FailedAttempt
      BY <1>6, <2>1, FailedAttemptAhead DEF Typed, Working, Update
    <2>2. CASE ~FailedAttempt
      <3>1. Item \in todo
        BY <1>6 DEF Update, Typed, Working, Item
      <3>2. todo' = todo \ {Item} /\ UNCHANGED <<namespacesLeft, namespace, phase>>
        BY <1>6, <2>2 DEF Update
      <3> QED  BY <3>1, <3>2 DEF Ahead
    <2> QED  BY <2>1, <2>2
  <1>7. CASE Succeed
    BY <1>7 DEF Succeed, Ahead
  <1>8. CASE RequestFails
    <2>1. CASE /\ namespace # None /\ GiveUp
      BY <2>1 DEF GiveUp, LeaveNamespace, Ahead
    <2>2. CASE todo # {} /\ FailedAttempt
      BY <2>2, FailedAttemptAhead
    <2> QED  BY <1>8, <2>1, <2>2 DEF RequestFails, Typed, Working
  <1>9. CASE Operator \/ \E l \in Lumigoes : CreateLumigo(l) \/ DeleteLumigo(l)
    BY <1>9 DEF Operator, Adopt, Finalise, CreateLumigo, DeleteLumigo, place, sweep
  <1>10. CASE (\E w \in Workloads : TouchWorkload(w)) \/ Tombstones
    BY <1>10 DEF TouchWorkload, Tombstones, place, sweep
  <1> QED  BY <1>1, <1>2, <1>3, <1>4, <1>5, <1>6, <1>7, <1>8, <1>9, <1>10
           DEF Next, Hook, Disturb, List, Wait, Proceed, PassDeadline, Hung, ListNamespaces

(* Neither conflicts with others' writes nor failing requests keep the     *)
(* sweep at a workload or bring it back to one it is through with: what is *)
(* left of it shrinks with each of its steps.                              *)
THEOREM SweepEnds == Spec => SweepGoesAhead
  <1>1. Typed /\ [Next]_vars => Typed'
    BY HookTyped, OthersTyped DEF Next
  <1>2. Typed /\ [Next]_vars => [(pc \in Sweeping) => Ahead \/ UNCHANGED place]_vars
    BY SweepAhead
  <1> QED  BY <1>1, <1>2, InitTyped, PTL DEF Spec, SweepGoesAhead

(***************************************************************************)
(* The life of a Lumigo.                                                   *)
(***************************************************************************)

(* A Lumigo that is being deleted waits for the operator.                  *)
Awaiting == \A l \in Lumigoes : lumigoes[l].deleting => Exists(lumigoes[l]) /\ lumigoes[l].fin

LEMMA Stages ==
  ASSUME NEW o \in Lumigo
  PROVE  /\ StageOf(o) = "absent" <=> ~Exists(o)
         /\ StageOf(o) = "new" <=> Exists(o) /\ ~o.deleting /\ ~o.fin
         /\ StageOf(o) = "kept" <=> Exists(o) /\ ~o.deleting /\ o.fin
         /\ StageOf(o) = "leaving" <=> Exists(o) /\ o.deleting
  BY DEF StageOf, Lumigo

LEMMA BecomeStage ==
  ASSUME Typed, NEW l \in Lumigoes, NEW o \in Lumigo, lumigoes' = [lumigoes EXCEPT ![l] = o],
         UNCHANGED creations, o.uid \in {lumigoes[l].uid, 0}
  PROVE  Life!Become(l, StageOf(o))
  <1>1. lumigoes \in [Lumigoes -> Lumigo]
    BY DEF Typed, TypeOK
  <1>2. [m \in Lumigoes |-> StageOf(lumigoes[m])]' =
            [[m \in Lumigoes |-> StageOf(lumigoes[m])] EXCEPT ![l] = StageOf(o)]
    BY <1>1
  <1>3. [m \in Lumigoes |-> lumigoes[m].uid]' =
            [[m \in Lumigoes |-> lumigoes[m].uid] EXCEPT
                ![l] = IF StageOf(o) = "absent" THEN 0 ELSE @]
    BY <1>1, Stages DEF Exists
  <1> QED  BY <1>2, <1>3 DEF Life!Become

LEMMA LifeStutters ==
  ASSUME UNCHANGED <<lumigoes, creations>>
  PROVE  UNCHANGED Life!record /\ (Awaiting => Awaiting')
  BY DEF Life!record, Awaiting

LEMMA VanishLives ==
  ASSUME Typed, Awaiting, NEW l \in Lumigoes, Vanish(l), UNCHANGED creations
  PROVE  Life!Become(l, "absent") /\ Awaiting'
  <1>1. NoLumigo \in Lumigo /\ StageOf(NoLumigo) = "absent" /\ NoLumigo.uid = 0
        /\ ~NoLumigo.deleting
    BY DEF NoLumigo, Lumigo, StageOf, Exists
  <1>2. Awaiting'
    BY <1>1 DEF Vanish, Awaiting, Typed, TypeOK
  <1> QED  BY <1>1, <1>2, BecomeStage DEF Vanish

LEMMA RequestDeletionLives ==
  ASSUME Typed, Awaiting, NEW l \in Lumigoes, RequestDeletion(l), UNCHANGED creations
  PROVE  (Life!AskToDelete(l) \/ UNCHANGED Life!record) /\ Awaiting'
  <1>1. lumigoes[l] \in Lumigo /\ lumigoes \in [Lumigoes -> Lumigo]
    BY DEF Typed, TypeOK
  <1>2. CASE Exists(lumigoes[l]) /\ ~lumigoes[l].fin
    <2>1. StageOf(lumigoes[l]) = "new"
      BY <1>1, <1>2, Stages DEF Awaiting
    <2>2. Life!Become(l, "absent") /\ Awaiting'
      BY <1>2, VanishLives DEF RequestDeletion
    <2> QED  BY <2>1, <2>2 DEF Life!AskToDelete
  <1>3. CASE ~Exists(lumigoes[l]) \/ lumigoes[l].deleting
    <2>1. lumigoes[l].deleting = Exists(lumigoes[l])
      BY <1>1, <1>3 DEF Awaiting, Lumigo, Exists
    <2>2. lumigoes' = [lumigoes EXCEPT ![l].deleting = lumigoes[l].deleting]
      BY <1>3, <2>1 DEF RequestDeletion, Awaiting
    <2>3. lumigoes' = lumigoes
      BY <1>1, <2>2 DEF Lumigo
    <2> QED  BY <2>3, LifeStutters
  <1>4. CASE Exists(lumigoes[l]) /\ lumigoes[l].fin /\ ~lumigoes[l].deleting
    <2> DEFINE o == [lumigoes[l] EXCEPT !.deleting = TRUE]
    <2>1. /\ o \in Lumigo /\ o.deleting /\ o.fin
          /\ o.uid = lumigoes[l].uid /\ Exists(o)
      BY <1>1, <1>4 DEF Lumigo, Exists
    <2>2. lumigoes' = [lumigoes EXCEPT ![l] = o]
      BY <1>4 DEF RequestDeletion
    <2>3. StageOf(lumigoes[l]) = "kept" /\ StageOf(o) = "leaving"
      BY <1>1, <1>4, <2>1, Stages
    <2> HIDE DEF o
    <2>4. Life!Become(l, "leaving")
      BY <2>1, <2>2, <2>3, BecomeStage
    <2>5. Awaiting'
      BY <1>1, <2>1, <2>2 DEF Awaiting
    <2> QED  BY <2>3, <2>4, <2>5 DEF Life!AskToDelete
  <1> QED  BY <1>2, <1>3, <1>4

LEMMA InitLife == Init => Life!Init /\ Awaiting
  <1> SUFFICES ASSUME Init PROVE Life!Init /\ Awaiting
    OBVIOUS
  <1> DEFINE k == [uid |-> 1, fin |-> TRUE, deleting |-> FALSE]
  <1>1. \A l \in Lumigoes : lumigoes[l] \in {k, NoLumigo}
    BY DEF Init
  <1>2. /\ StageOf(k) = "kept" /\ k.uid = 1 /\ ~k.deleting
        /\ StageOf(NoLumigo) = "absent" /\ NoLumigo.uid = 0 /\ ~NoLumigo.deleting
    BY DEF StageOf, Exists, NoLumigo
  <1>3. creations = 1
    BY DEF Init
  <1> HIDE DEF k
  <1> QED  BY <1>1, <1>2, <1>3 DEF Life!Init, Awaiting

LEMMA NextLives ==
  ASSUME Typed, Awaiting, [Next]_vars
  PROVE  [Life!Next]_Life!record /\ Awaiting'
  <1>1. CASE UNCHANGED <<lumigoes, creations>>
    BY <1>1, LifeStutters
  <1>2. CASE Delete
    <2>1. PICK l \in toDelete : RequestDeletion(l) \/ UNCHANGED lumigoes
      BY <1>2 DEF Delete
    <2>2. l \in Lumigoes /\ UNCHANGED creations
      BY <1>2 DEF Delete, Typed, TypeOK
    <2> QED  BY <2>1, <2>2, RequestDeletionLives, LifeStutters DEF Life!Next
  <1>3. ASSUME NEW l \in Lumigoes, Adopt(l) PROVE Life!Keep(l) /\ Awaiting'
    <2> DEFINE o == [lumigoes[l] EXCEPT !.fin = TRUE]
    <2>1. /\ lumigoes[l] \in Lumigo /\ lumigoes \in [Lumigoes -> Lumigo]
          /\ Exists(lumigoes[l]) /\ ~lumigoes[l].fin /\ ~lumigoes[l].deleting
          /\ lumigoes' = [lumigoes EXCEPT ![l] = o] /\ UNCHANGED creations
      BY <1>3 DEF Adopt, Awaiting, Typed, TypeOK
    <2>2. o \in Lumigo /\ o.fin /\ ~o.deleting /\ o.uid = lumigoes[l].uid /\ Exists(o)
      BY <2>1 DEF Lumigo, Exists
    <2> HIDE DEF o
    <2>3. StageOf(lumigoes[l]) = "new" /\ StageOf(o) = "kept"
      BY <2>1, <2>2, Stages
    <2>4. Life!Become(l, "kept")
      BY <2>1, <2>2, <2>3, BecomeStage
    <2> QED  BY <2>1, <2>2, <2>3, <2>4 DEF Life!Keep, Awaiting
  <1>4. ASSUME NEW l \in Lumigoes, Finalise(l) PROVE Life!Release(l) /\ Awaiting'
    <2>1. StageOf(lumigoes[l]) = "leaving"
      BY <1>4, Stages DEF Finalise, ToRelease, Awaiting, Typed, TypeOK
    <2> QED  BY <1>4, <2>1, VanishLives DEF Finalise, Life!Release
  <1>5. ASSUME NEW l \in Lumigoes, CreateLumigo(l) PROVE Life!Create(l) /\ Awaiting'
    <2> DEFINE o == [NoLumigo EXCEPT !.uid = creations']
    <2>1. /\ lumigoes \in [Lumigoes -> Lumigo] /\ creations \in Nat /\ creations' = creations + 1
          /\ ~Exists(lumigoes[l]) /\ lumigoes' = [lumigoes EXCEPT ![l] = o]
      BY <1>5 DEF CreateLumigo, Typed, TypeOK
    <2>2. o.uid = creations' /\ ~o.fin /\ ~o.deleting /\ StageOf(o) = "new"
      BY <2>1 DEF NoLumigo, StageOf, Exists
    <2> HIDE DEF o
    <2>3. StageOf(lumigoes[l]) = "absent"
      BY <2>1 DEF StageOf
    <2>4. [m \in Lumigoes |-> StageOf(lumigoes[m])]' =
              [[m \in Lumigoes |-> StageOf(lumigoes[m])] EXCEPT ![l] = "new"]
      BY <2>1, <2>2
    <2>5. [m \in Lumigoes |-> lumigoes[m].uid]' =
              [[m \in Lumigoes |-> lumigoes[m].uid] EXCEPT ![l] = creations']
      BY <2>1, <2>2
    <2>6. Awaiting'
      BY <2>1, <2>2 DEF Awaiting
    <2> QED  BY <2>1, <2>3, <2>4, <2>5, <2>6 DEF Life!Create
  <1>6. ASSUME NEW l \in Lumigoes, DeleteLumigo(l)
        PROVE  (Life!AskToDelete(l) \/ UNCHANGED Life!record) /\ Awaiting'
    BY <1>6, RequestDeletionLives DEF DeleteLumigo
  <1>7. CASE Hook /\ ~Delete
    <2>1. UNCHANGED <<lumigoes, creations>>
      BY <1>7 DEF Hook, List, InformerLists, Wait, DeleteFunc, InformerStops, Proceed,
         PassDeadline, ListNamespaces, EnterNamespace, ListKind, FinishNamespace, Get, Update,
         Succeed, cluster
    <2> QED  BY <1>1, <2>1
  <1>8. CASE (\E w \in Workloads : TouchWorkload(w)) \/ RequestFails \/ Tombstones \/ UNCHANGED vars
    <2>1. UNCHANGED <<lumigoes, creations>>
      BY <1>8 DEF TouchWorkload, RequestFails, Tombstones, vars, cluster
    <2> QED  BY <1>1, <2>1
  <1> QED  BY <1>2, <1>3, <1>4, <1>5, <1>6, <1>7, <1>8 DEF Next, Operator, Disturb, Life!Next

(* The uninstallation, which treats the operator's work on a Lumigo as one *)
(* step, takes Lumigoes through the life that the operator itself takes    *)
(* them through (LumigoReconciler): it deletes none that the operator has  *)
(* not released, and brings none back.                                     *)
THEOREM UninstallerImplementsLifecycle == Spec => ImplementsLifecycle
  <1>1. Typed /\ [Next]_vars => Typed'
    BY HookTyped, OthersTyped DEF Next
  <1>2. Typed /\ Awaiting /\ [Next]_vars => [Life!Next]_Life!record /\ Awaiting'
    BY NextLives
  <1> QED  BY <1>1, <1>2, InitTyped, InitLife, PTL DEF Spec, ImplementsLifecycle, Life!Spec

(***************************************************************************)
(* The attempts of the sweep.                                              *)
(***************************************************************************)

(* A Lumigo that this pod does not wait for, and for which the operator    *)
(* may still write workloads during the sweep.                             *)
Rival(l) ==
    /\ Exists(lumigoes[l]) /\ lumigoes[l].uid # awaited[l]
    /\ pc \in Sweeping \cup {"succeeded"} => ~lumigoes[l].fin \/ lumigoes[l].deleting

Rivals == {l \in Lumigoes : pc \notin {"list", "failed"} /\ Rival(l)}

Stale == IF pc = "update" /\ copy # workloads[Item] THEN 1 ELSE 0

(* Each attempt that failed, each copy that others overtook and each Lumi- *)
(* go that can make one stale is the work of a disturbance of its own.     *)
Charged ==
    /\ IsFiniteSet(abandoned) /\ IsFiniteSet(Rivals)
    /\ Cardinality(abandoned) + attempt + Cardinality(Rivals) + Stale <= disturbances

LEMMA OneMore ==
  ASSUME NEW S, NEW x, NEW T, IsFiniteSet(S), T \subseteq S \cup {x}
  PROVE  /\ IsFiniteSet(T) /\ Cardinality(T) \in Nat /\ Cardinality(S) \in Nat
         /\ Cardinality(T) <= Cardinality(S) + 1
         /\ T \subseteq S => Cardinality(T) <= Cardinality(S)
         /\ x \in S /\ T \subseteq S \ {x} => Cardinality(T) + 1 <= Cardinality(S)
  <1>1. IsFiniteSet(S \cup {x}) /\ Cardinality(S) \in Nat
        /\ Cardinality(S \cup {x}) \in {Cardinality(S), Cardinality(S) + 1}
    BY FS_AddElement, FS_CardinalityType
  <1>2. IsFiniteSet(T) /\ Cardinality(T) <= Cardinality(S \cup {x}) /\ Cardinality(T) \in Nat
    BY <1>1, FS_Subset, FS_CardinalityType
  <1>3. T \subseteq S => Cardinality(T) <= Cardinality(S)
    BY FS_Subset
  <1>4. ASSUME x \in S, T \subseteq S \ {x}
        PROVE  Cardinality(T) + 1 <= Cardinality(S)
    <2>1. IsFiniteSet(S \ {x}) /\ Cardinality(S \ {x}) = Cardinality(S) - 1
      BY <1>4, FS_RemoveElement
    <2>2. Cardinality(T) <= Cardinality(S \ {x})
      BY <1>4, <2>1, FS_Subset
    <2> QED  BY <1>1, <1>2, <2>1, <2>2
  <1> QED  BY <1>1, <1>2, <1>3, <1>4

LEMMA InitCharged == Init => Charged
  <1> SUFFICES ASSUME Init PROVE Charged
    OBVIOUS
  <1>1. Rivals = {} /\ abandoned = {} /\ attempt = 0 /\ Stale = 0 /\ disturbances = 0
    BY DEF Init, Rivals, Stale
  <1> QED  BY <1>1, FS_EmptySet DEF Charged

LEMMA PodFailsCharged ==
  ASSUME PodFails, disturbances' \in Nat
  PROVE  Charged'
  <1>1. Rivals' = {} /\ abandoned' = {} /\ attempt' = 0 /\ Stale' = 0
    BY DEF PodFails, Rivals, Stale
  <1> QED  BY <1>1, FS_EmptySet DEF Charged

(* What the sweep may add at most. *)
LEMMA ChargedKeeps ==
  ASSUME Typed, Typed', Charged, Rivals' \subseteq Rivals,
         \/ /\ UNCHANGED <<abandoned, attempt, disturbances>> /\ Stale' <= Stale
         \/ /\ UNCHANGED <<abandoned, attempt>> /\ disturbances' = disturbances + 1
         \/ /\ UNCHANGED <<abandoned, disturbances>> /\ attempt' = 0 /\ Stale' = 0
  PROVE  Charged'
  <1>1. /\ attempt \in Nat /\ attempt' \in Nat /\ disturbances \in Nat /\ disturbances' \in Nat
        /\ Stale \in 0..1 /\ Stale' \in 0..1
    BY DEF Typed, TypeOK, Stale
  <1>2. /\ IsFiniteSet(Rivals') /\ Cardinality(Rivals') \in Nat /\ Cardinality(Rivals) \in Nat
        /\ Cardinality(Rivals') <= Cardinality(Rivals)
    BY OneMore DEF Charged
  <1>3. Cardinality(abandoned) \in Nat
    BY FS_CardinalityType DEF Charged
  <1> QED  BY <1>1, <1>2, <1>3 DEF Charged

(* An attempt that fails because its copy is stale or its request fails.   *)
LEMMA FailureCharged ==
  ASSUME Typed, Typed', Charged, Rivals' \subseteq Rivals, pc' = "sweep",
         \/ Stale = 1 /\ UNCHANGED disturbances
         \/ disturbances' = disturbances + 1,
         FailedAttempt \/ GiveUp
  PROVE  Charged'
  <1>1. /\ attempt \in Nat /\ disturbances \in Nat /\ disturbances' \in Nat
        /\ Stale \in 0..1 /\ Stale' = 0
    BY DEF Typed, TypeOK, Stale
  <1>2. /\ IsFiniteSet(Rivals') /\ Cardinality(Rivals') \in Nat /\ Cardinality(Rivals) \in Nat
        /\ Cardinality(Rivals') <= Cardinality(Rivals)
    BY OneMore DEF Charged
  <1>3. Cardinality(abandoned) \in Nat
    BY FS_CardinalityType DEF Charged
  <1>4. CASE attempt' = attempt + 1 /\ UNCHANGED abandoned
    BY <1>1, <1>2, <1>3, <1>4 DEF Charged
  <1>5. CASE GiveUp
    <2>1. abandoned' \subseteq abandoned \cup {namespace} /\ attempt' = 0
      BY <1>5 DEF GiveUp, LeaveNamespace
    <2>2. IsFiniteSet(abandoned') /\ Cardinality(abandoned') \in Nat
          /\ Cardinality(abandoned') <= Cardinality(abandoned) + 1
      BY <2>1, OneMore DEF Charged
    <2> QED  BY <1>1, <1>2, <1>3, <2>1, <2>2 DEF Charged
  <1> QED  BY <1>4, <1>5 DEF FailedAttempt

(* A Lumigo's creation or deletion may make it a rival. *)
LEMMA RivalCharged ==
  ASSUME Typed, Typed', Charged, NEW l, Rivals' \subseteq Rivals \cup {l},
         disturbances' = disturbances + 1, UNCHANGED <<abandoned, attempt>>, Stale' = Stale
  PROVE  Charged'
  <1>1. /\ attempt \in Nat /\ disturbances \in Nat /\ Stale \in 0..1
    BY DEF Typed, TypeOK, Stale
  <1>2. /\ IsFiniteSet(Rivals') /\ Cardinality(Rivals') \in Nat /\ Cardinality(Rivals) \in Nat
        /\ Cardinality(Rivals') <= Cardinality(Rivals) + 1
    BY OneMore DEF Charged
  <1>3. Cardinality(abandoned) \in Nat
    BY FS_CardinalityType DEF Charged
  <1> QED  BY <1>1, <1>2, <1>3 DEF Charged

(* The operator's sweep for a rival is the last one that its disturbance   *)
(* pays for; outside the hook's sweep there is no copy to overtake.        *)
LEMMA OperatorCharged ==
  ASSUME Typed, Typed', Tracked, Awaiting, Charged, NEW l \in Lumigoes, Adopt(l) \/ Finalise(l)
  PROVE  Charged'
  <1>1. /\ UNCHANGED <<pc, awaited, todo, copy, abandoned, attempt, disturbances>>
        /\ \A m \in Lumigoes \ {l} : lumigoes'[m] = lumigoes[m]
        /\ \/ lumigoes'[l] = [lumigoes[l] EXCEPT !.fin = TRUE] /\ ~lumigoes[l].fin
           \/ lumigoes'[l] = NoLumigo
        /\ Exists(lumigoes[l]) /\ (~lumigoes[l].fin \/ lumigoes[l].deleting)
        /\ lumigoes[l].deleting => lumigoes[l].fin
        /\ pc # "succeeded" /\ lumigoes[l] \in Lumigo
    <2>1. CASE Adopt(l)
      BY <2>1 DEF Adopt, deletion, sweep, Typed, TypeOK, Awaiting
    <2>2. CASE Finalise(l)
      BY <2>2 DEF Finalise, Vanish, ToRelease, sweep, Typed, TypeOK, Awaiting
    <2> QED  BY <2>1, <2>2
  <1>2. lumigoes'[l].uid \in {0, lumigoes[l].uid}
    BY <1>1 DEF NoLumigo, Lumigo
  <1>3. Rivals' \subseteq Rivals
    BY <1>1, <1>2 DEF Rivals, Rival, Exists, NoLumigo, Lumigo
  <1>4. CASE pc # "update"
    <2>1. Stale = 0 /\ Stale' = 0
      BY <1>1, <1>4 DEF Stale
    <2> QED  BY <1>1, <1>3, <2>1, ChargedKeeps
  <1>5. CASE pc = "update"
    <2>1. lumigoes[l].uid # awaited[l]
      BY <1>1, <1>5, TrackedImplies DEF DeletedFirst, Sweeping, Exists
    <2>2. l \in Rivals /\ l \notin Rivals'
      BY <1>1, <1>5, <2>1 DEF Rivals, Rival, Exists, NoLumigo, Lumigo, Sweeping
    <2>3. IsFiniteSet(Rivals') /\ Cardinality(Rivals') \in Nat /\ Cardinality(Rivals) \in Nat
          /\ Cardinality(Rivals') + 1 <= Cardinality(Rivals)
      <3>1. Rivals' \subseteq Rivals \cup {l} /\ Rivals' \subseteq Rivals \ {l} /\ IsFiniteSet(Rivals)
        BY <1>3, <2>2 DEF Charged
      <3> QED  BY <2>2, <3>1, OneMore
    <2>4. attempt \in Nat /\ disturbances \in Nat /\ Stale \in 0..1 /\ Stale' \in 0..1
          /\ Cardinality(abandoned) \in Nat
      BY FS_CardinalityType DEF Typed, TypeOK, Stale, Charged
    <2> QED  BY <1>1, <2>3, <2>4 DEF Charged
  <1> QED  BY <1>4, <1>5

LEMMA HookCharged ==
  ASSUME Typed, Typed', Charged, Hook
  PROVE  Charged'
  <1> USE DEF Sweeping, Deleting
  <1>a. disturbances' \in Nat
    BY DEF Typed, TypeOK
  <1>1. CASE List
    <2>1. Rivals' = {}
      BY <1>1 DEF List, Rivals, Rival, Listed, cluster, deletion, Exists, Typed, TypeOK, Lumigo
    <2> QED  BY <1>1, <2>1, ChargedKeeps DEF List, sweep, Stale
  <1>2. CASE InformerLists \/ Wait \/ InformerStops \/ Proceed \/ ListNamespaces
             \/ EnterNamespace \/ ListKind \/ Succeed
    <2>1. /\ UNCHANGED <<lumigoes, awaited, abandoned, attempt, disturbances>>
          /\ pc' = "update" => UNCHANGED <<pc, workloads, todo, copy>>
      BY <1>2 DEF InformerLists, Wait, InformerStops, Proceed, ListNamespaces, EnterNamespace,
                  ListKind, Succeed, cluster, sweep, deletion
    <2>2. Stale' <= Stale
      <3>1. CASE pc' = "update"
        BY <2>1, <3>1 DEF Stale, Item
      <3>2. CASE pc' # "update"
        BY <3>2 DEF Stale
      <3> QED  BY <3>1, <3>2
    <2>3. Rivals' \subseteq Rivals
      BY <1>2 DEF InformerLists, Wait, InformerStops, Proceed, ListNamespaces, EnterNamespace,
                  ListKind, Succeed, cluster, sweep, deletion, Rivals, Rival
    <2> QED  BY <2>1, <2>2, <2>3, ChargedKeeps
  <1>3. CASE Delete
    <2>1. PICK l \in toDelete : \/ RequestDeletion(l) /\ UNCHANGED disturbances
                                \/ Disturbance /\ UNCHANGED <<lumigoes, events>>
      BY <1>3 DEF Delete
    <2>2. /\ pc = "delete" /\ UNCHANGED <<pc, awaited, abandoned, attempt>>
          /\ l \in Lumigoes
      BY <1>3 DEF Delete, sweep, Typed, TypeOK
    <2>3. \A m \in Lumigoes : Exists(lumigoes'[m]) => lumigoes'[m].uid = lumigoes[m].uid
      BY <2>1, <2>2, RequestDeletionFewer DEF Fewer
    <2>4. Rivals' \subseteq Rivals /\ Stale' = 0 /\ Stale = 0
      BY <2>2, <2>3 DEF Rivals, Rival, Stale, Exists
    <2> QED  BY <2>1, <2>2, <2>4, ChargedKeeps DEF Disturbance
  <1>4. CASE DeleteFunc
    <2>1. CASE PodFails
      BY <1>a, <2>1, PodFailsCharged
    <2>2. CASE ~PodFails
      <3>1. UNCHANGED <<pc, lumigoes, awaited, sweep, workloads, disturbances>>
        BY <1>4, <2>2 DEF DeleteFunc, cluster
      <3>2. Rivals' \subseteq Rivals /\ Stale' = Stale
        BY <3>1 DEF Rivals, Rival, Stale, Item, sweep
      <3> QED  BY <3>1, <3>2, ChargedKeeps DEF sweep, Stale
    <2> QED  BY <2>1, <2>2
  <1>5. CASE PassDeadline
    BY <1>a, <1>5, PodFailsCharged DEF PassDeadline
  <1>6. CASE FinishNamespace
    <2>1. Stale' = 0 /\ attempt' = 0 /\ UNCHANGED <<abandoned, disturbances>>
      BY <1>6 DEF FinishNamespace, LeaveNamespace, Stale
    <2>2. Rivals' \subseteq Rivals
      BY <1>6 DEF FinishNamespace, cluster, deletion, Rivals, Rival
    <2> QED  BY <2>1, <2>2, ChargedKeeps
  <1>7. CASE Get
    <2>1. Stale' = 0 /\ Stale = 0 /\ UNCHANGED <<abandoned, attempt, disturbances>>
      BY <1>7 DEF Get, cluster, Stale, Item
    <2>2. Rivals' \subseteq Rivals
      BY <1>7 DEF Get, cluster, deletion, Rivals, Rival
    <2> QED  BY <2>1, <2>2, ChargedKeeps
  <1>8. CASE Update
    <2>1. pc = "update" /\ pc' = "sweep" /\ UNCHANGED <<lumigoes, awaited, disturbances>>
      BY <1>8 DEF Update, deletion, FailedAttempt
    <2>2. Rivals' \subseteq Rivals /\ Stale' = 0
      BY <2>1 DEF Rivals, Rival, Stale
    <2>3. CASE copy # workloads[Item] /\ FailedAttempt
      <3>1. Stale = 1
        BY <2>1, <2>3 DEF Stale
      <3> QED  BY <2>1, <2>2, <2>3, <3>1, FailureCharged
    <2>4. CASE attempt' = 0 /\ UNCHANGED abandoned
      BY <2>1, <2>2, <2>4, ChargedKeeps
    <2> QED  BY <1>8, <2>3, <2>4 DEF Update
  <1> QED  BY <1>1, <1>2, <1>3, <1>4, <1>5, <1>6, <1>7, <1>8 DEF Hook

LEMMA DisturbCharged ==
  ASSUME Typed, Typed', Charged, Disturb
  PROVE  Charged'
  <1> USE DEF Sweeping, Deleting
  <1>1. disturbances' = disturbances + 1 /\ disturbances' \in Nat
    <2>1. Disturbance
      BY DEF Disturb, CreateLumigo, DeleteLumigo, TouchWorkload, RequestFails, Tombstones
    <2> QED  BY <2>1 DEF Disturbance, Typed, TypeOK
  <1>2. ASSUME NEW l \in Lumigoes, CreateLumigo(l) \/ DeleteLumigo(l) PROVE Charged'
    <2>1. /\ UNCHANGED <<pc, awaited, todo, copy, workloads, abandoned, attempt>>
          /\ \A m \in Lumigoes \ {l} : lumigoes'[m] = lumigoes[m]
      BY <1>2 DEF CreateLumigo, DeleteLumigo, RequestDeletion, Vanish, deletion, sweep,
                  Typed, TypeOK
    <2>2. Rivals' \subseteq Rivals \cup {l} /\ Stale' = Stale
      BY <2>1 DEF Rivals, Rival, Stale, Item
    <2> QED  BY <1>1, <2>1, <2>2, RivalCharged
  <1>3. CASE (\E w \in Workloads : TouchWorkload(w)) \/ Tombstones
    <2>1. UNCHANGED <<pc, lumigoes, awaited, abandoned, attempt>>
      BY <1>3 DEF TouchWorkload, Tombstones, cluster, deletion, sweep
    <2>2. Rivals' \subseteq Rivals
      BY <2>1 DEF Rivals, Rival
    <2> QED  BY <1>1, <2>1, <2>2, ChargedKeeps
  <1>4. CASE RequestFails
    <2>1. CASE PodFails
      BY <1>1, <2>1, PodFailsCharged
    <2>2. CASE ~PodFails
      <3>1. /\ pc \in {"sweep", "update"} /\ pc' = "sweep" /\ UNCHANGED <<lumigoes, awaited>>
            /\ FailedAttempt \/ GiveUp
        BY <1>4, <2>2 DEF RequestFails, FailedAttempt, cluster, deletion
      <3>2. Rivals' \subseteq Rivals
        BY <3>1 DEF Rivals, Rival
      <3> QED  BY <1>1, <3>1, <3>2, FailureCharged
    <2> QED  BY <2>1, <2>2
  <1> QED  BY <1>2, <1>3, <1>4 DEF Disturb

LEMMA NextCharged ==
    Typed /\ Typed' /\ Tracked /\ Awaiting /\ Charged /\ [Next]_vars => Charged'
  <1> SUFFICES ASSUME Typed, Typed', Tracked, Awaiting, Charged, [Next]_vars PROVE Charged'
    OBVIOUS
  <1>1. CASE UNCHANGED vars
    <2>1. Rivals' = Rivals /\ Stale' = Stale
      BY <1>1 DEF vars, cluster, deletion, sweep, Rivals, Rival, Stale, Item
    <2> QED  BY <1>1, <2>1, ChargedKeeps DEF vars, sweep, Stale
  <1> QED  BY <1>1, HookCharged, DisturbCharged, OperatorCharged DEF Next, Operator

LEMMA ChargedImplies == Typed /\ Charged => GivenUpOnlyIfDisturbed
  <1> SUFFICES ASSUME Typed, Charged PROVE GivenUpOnlyIfDisturbed
    OBVIOUS
  <1>1. Cardinality(abandoned) \in Nat /\ Cardinality(Rivals) \in Nat
    BY FS_CardinalityType DEF Charged
  <1> QED  BY <1>1 DEF Charged, GivenUpOnlyIfDisturbed, Stale, Typed, TypeOK

(* Because the hook waits for the Lumigoes, the operator does not get in   *)
(* the way of its sweep: each attempt that fails, and each namespace that  *)
(* is given up, is the work of a Lumigo that others created or deleted, of *)
(* a workload they wrote or of a request that failed.                      *)
THEOREM SweepFailsOnlyIfDisturbed == Spec => []GivenUpOnlyIfDisturbed
  <1>1. Typed /\ [Next]_vars => Typed'
    BY HookTyped, OthersTyped DEF Next
  <1> QED  BY <1>1, InitTyped, InitTracked, NextTracked, InitLife, NextLives, InitCharged,
              NextCharged, ChargedImplies, PTL DEF Spec
================================================================================
