------------------------ MODULE LumigoReconcilerProofs ------------------------
(***************************************************************************)
(* Theorems about LumigoReconciler, for any Lumigoes, workloads, specs,    *)
(* users, failures and bounds.                                             *)
(***************************************************************************)
EXTENDS LumigoReconciler, TLAPS

-----------------------------------------------------------------------------
(***************************************************************************)
(* What the operators return.                                              *)
(***************************************************************************)

(* Whatever the webhook decides, the API server stores a workload. *)
LEMMA AdmittedType ==
    ASSUME NEW t, NEW v \in Workload, NEW d
    PROVE  Admitted(t, v, d) \in Workload
  BY DEF Admitted, Processed, Injected, Workload, Labels

(* Injection and removal make workloads of workloads. *)
LEMMA MutatedType ==
    ASSUME NEW v
    PROVE  Mutated(v) \in Workload
  BY DEF Mutated, Injected, Removed, Workload, Labels

(* The next workload of a sweep is one of those left. *)
LEMMA ItemLeft ==
    ASSUME todo # {}
    PROVE  Item \in todo
  <1>1. PICK w : w \in todo
    OBVIOUS
  <1>2. QED
    BY <1>1, Zenon DEF Item

LEMMA NoLumigoType == NoLumigo \in LumigoObject
  BY DEF NoLumigo, LumigoObject, LumigoSpec, DefaultSpec, ConditionStatus

(* The API server's removal of an object included, a stored Lumigo is one  *)
(* and its conditions are those that were written.                         *)
LEMMA StoredType ==
    ASSUME NEW o \in LumigoObject
    PROVE  Stored(o) \in LumigoObject
  BY NoLumigoType DEF Stored

(* The status that ends a reconcile. *)
LEMMA NewStatusType ==
    ASSUME ProgressOK, pc \in {"statusReady", "statusError", "statusDeleted"}
    PROVE  NewStatus \in LumigoObject
  <1>1. /\ read \in LumigoObject /\ found \subseteq Workloads
    BY DEF ProgressOK
  <1>2. CASE pc = "statusReady"
    BY <1>1, <1>2 DEF NewStatus, ClearError, SetActive, Updated, LumigoObject, ConditionStatus
  <1>3. CASE pc = "statusError"
    BY <1>1, <1>3 DEF NewStatus, SetError, SetActive, Updated, LumigoObject, ConditionStatus
  <1>4. CASE pc = "statusDeleted"
    BY <1>1, <1>4 DEF NewStatus, ClearError, SetActive, Updated, LumigoObject, ConditionStatus
  <1>5. QED
    BY <1>2, <1>3, <1>4

-----------------------------------------------------------------------------
(***************************************************************************)
(* Type correctness.                                                       *)
(***************************************************************************)

LEMMA WriteLumigoType ==
    ASSUME StoreOK, NEW l \in Lumigoes, NEW o \in LumigoObject, WriteLumigo(l, o)
    PROVE  StoreOK'
  <1>1. lumigoes' \in Stores /\ cache' \in Stores
    BY StoredType DEF StoreOK, WriteLumigo, Stores
  <1>2. Append(undelivered, lumigoes') \in Seq(Stores)
    BY <1>1 DEF StoreOK
  <1>3. Queued(Append(undelivered, lumigoes')) \in Seq(Stores)
    BY <1>2, ConstantsOK DEF Queued, ConstantsOK
  <1>4. QED
    BY <1>1, <1>3 DEF StoreOK, WriteLumigo

LEMMA WriteWorkloadType ==
    ASSUME WorkOK, NEW w \in Workloads, NEW v \in Workload \cup {Absent}, WriteWorkload(w, v)
    PROVE  WorkOK'
  BY DEF WorkOK, Works, WriteWorkload

LEMMA ReturnType ==
    ASSUME Return
    PROVE  SweepOK' /\ ProgressOK'
  BY NoLumigoType, ConstantsOK DEF Return, NoSweep, SweepOK, ProgressOK, PCs, ConstantsOK

LEMMA UserSendType ==
    ASSUME WorkOK, ProgressOK, NEW w \in Workloads, NEW v \in Workload, Send(w, v)
    PROVE  WorkOK' /\ dirty' \subseteq Workloads /\ UNCHANGED <<store, outside>>
  <1>1. PICK d \in WebhookDecisions : WriteWorkload(w, Admitted(WorkloadTraits[w], v, d))
    BY DEF Send
  <1>2. WorkOK'
    BY <1>1, AdmittedType, WriteWorkloadType
  <1>3. QED
    BY <1>2 DEF Send, MarkDirty, ProgressOK

LEMMA InitTypeOK == Init => TypeOK
  <1> SUFFICES ASSUME Init PROVE TypeOK
    OBVIOUS
  <1>1. StoreOK
    BY NoLumigoType DEF Init, StoreOK, Stores
  <1>2. WorkOK
    <2>1. UserLabels \subseteq Labels
      BY ConstantsOK DEF ConstantsOK, Labels
    <2>2. Untouched \subseteq Workload \cup {Absent}
      BY <2>1 DEF Untouched, Workload
    <2>3. QED
      BY <2>2 DEF Init, WorkOK, Works
  <1>3. OutsideOK
    BY DEF Init, OutsideOK
  <1>4. SweepOK
    BY ConstantsOK DEF Init, SweepOK, ConstantsOK
  <1>5. ProgressOK
    BY NoLumigoType DEF Init, ProgressOK, PCs
  <1>6. CountsOK
    BY ConstantsOK DEF Init, CountsOK, ConstantsOK
  <1>7. QED
    BY <1>1, <1>2, <1>3, <1>4, <1>5, <1>6 DEF TypeOK

(* Each action, with the parts of TypeOK it can disturb. *)

LEMMA BeginType ==
    ASSUME TypeOK, NEW l \in Lumigoes, Begin(l)
    PROVE  TypeOK'
  <1>1. cache[l] \in LumigoObject
    BY DEF TypeOK, StoreOK, Stores
  <1>2. AfterRead(cache[l]) \in PCs /\ AfterRead(cache[l]) # "idle"
    BY DEF AfterRead, PCs
  <1>3. ProgressOK'
    BY <1>1, <1>2 DEF TypeOK, ProgressOK, Begin, work, sweep
  <1>4. QED
    BY <1>3 DEF TypeOK, StoreOK, WorkOK, OutsideOK, SweepOK, CountsOK, Begin,
                store, work, outside, sweep, counts

LEMMA UpdateFinalizerType ==
    ASSUME TypeOK, NEW fin \in BOOLEAN, NEW next \in {"check", "unmonitor"},
           pc \in {"addFinalizer", "dropFinalizer"}, UpdateFinalizer(fin, next)
    PROVE  TypeOK'
  <1>1. /\ read \in LumigoObject /\ name \in Lumigoes /\ up
        /\ [read EXCEPT !.fin = fin] \in LumigoObject
    BY DEF TypeOK, ProgressOK, LumigoObject
  <1>2. StoreOK' /\ SweepOK' /\ ProgressOK'
    <2>1. CASE lumigoes[name] = read
      <3>1. WriteLumigo(name, [read EXCEPT !.fin = fin]) /\ Goto(next)
            /\ read' = [read EXCEPT !.fin = fin] /\ up' = up
        BY <2>1 DEF UpdateFinalizer, Return, Goto
      <3>2. StoreOK'
        BY <1>1, <3>1, WriteLumigoType DEF TypeOK
      <3>3. SweepOK' /\ ProgressOK'
        BY <1>1, <3>1 DEF Goto, TypeOK, SweepOK, ProgressOK, PCs, sweep
      <3>4. QED
        BY <3>2, <3>3
    <2>2. CASE lumigoes[name] # read
      BY <2>2, ReturnType DEF UpdateFinalizer, TypeOK, StoreOK, store
    <2>3. QED
      BY <2>1, <2>2
  <1>3. QED
    BY <1>2 DEF UpdateFinalizer, TypeOK, WorkOK, OutsideOK, CountsOK, outside, counts

LEMMA CheckType ==
    ASSUME TypeOK, Check
    PROVE  TypeOK'
  <1>1. PICK next \in {"statusError", "inject", "telemetry"} : Goto(next)
    BY DEF Check
  <1>2. SweepOK' /\ ProgressOK'
    BY <1>1 DEF Check, Goto, TypeOK, SweepOK, ProgressOK, PCs, sweep
  <1>3. QED
    BY <1>2 DEF Check, TypeOK, StoreOK, WorkOK, OutsideOK, CountsOK,
                store, outside, counts

LEMMA ListKindType ==
    ASSUME TypeOK, ListKind
    PROVE  TypeOK'
  <1>1. SweepOK' /\ ProgressOK'
    BY DEF ListKind, Later, Phases, TypeOK, SweepOK, ProgressOK, work
  <1>2. QED
    BY <1>1 DEF ListKind, TypeOK, StoreOK, WorkOK, OutsideOK, CountsOK,
                store, work, outside, counts

LEMMA FinishSweepType ==
    ASSUME TypeOK, FinishSweep
    PROVE  TypeOK'
  <1>1. SweepOK' /\ ProgressOK'
    BY ConstantsOK DEF FinishSweep, SweepDone, NoSweep, TypeOK, SweepOK, ProgressOK, PCs,
                       work, ConstantsOK
  <1>2. QED
    BY <1>1 DEF FinishSweep, TypeOK, StoreOK, WorkOK, OutsideOK, CountsOK,
                store, work, outside, counts

LEMMA GiveUpType ==
    ASSUME TypeOK, GiveUp, up' = up
    PROVE  SweepOK' /\ ProgressOK'
  <1>1. CASE pc = "inject" /\ pc' = "telemetry" /\ NoSweep /\ UNCHANGED <<name, read, found, dirty>>
    BY <1>1, ConstantsOK DEF NoSweep, TypeOK, SweepOK, ProgressOK, PCs, ConstantsOK
  <1>2. CASE Return
    BY <1>2, ReturnType
  <1>3. QED
    BY <1>1, <1>2 DEF GiveUp

LEMMA FailedAttemptType ==
    ASSUME TypeOK, pc \in {"inject", "remove"}, FailedAttempt, up' = up
    PROVE  SweepOK' /\ ProgressOK'
  <1>1. CASE AttemptsLeft(attempt) /\ attempt' = attempt + 1
             /\ UNCHANGED <<pc, name, read, phase, todo, found, dirty>>
    BY <1>1, ConstantsOK DEF AttemptsLeft, TypeOK, SweepOK, ProgressOK, ConstantsOK
  <1>2. CASE GiveUp
    BY <1>2, GiveUpType
  <1>3. QED
    BY <1>1, <1>2 DEF FailedAttempt

LEMMA AttemptType ==
    ASSUME TypeOK, Attempt
    PROVE  TypeOK'
  <1>1. Item \in todo /\ Item \in Workloads
    BY ItemLeft DEF Attempt, Current, TypeOK, SweepOK
  <1>2. pc \in {"inject", "remove"} /\ up' = up
    BY DEF Attempt, Current
  <1>3. CASE FailedAttempt /\ UNCHANGED <<workloads, workloadCache>>
    <2>1. SweepOK' /\ ProgressOK'
      BY <1>2, <1>3, FailedAttemptType
    <2>2. QED
      BY <1>3, <2>1 DEF Attempt, Current, TypeOK, StoreOK, WorkOK, OutsideOK, CountsOK,
                        store, outside, counts
  <1>4. CASE /\ todo' = todo \ {Item} /\ attempt' = 0
             /\ UNCHANGED <<pc, name, read, phase, found, dirty>>
             /\ \/ UNCHANGED <<workloads, workloadCache>>
                \/ \E d \in WebhookDecisions :
                      WriteWorkload(Item, Admitted(WorkloadTraits[Item],
                                                   Mutated(workloadCache[Item]), d))
    <2>1. SweepOK' /\ ProgressOK'
      BY <1>2, <1>4, ConstantsOK DEF TypeOK, SweepOK, ProgressOK, ConstantsOK
    <2>2. WorkOK'
      <3>1. CASE UNCHANGED <<workloads, workloadCache>>
        BY <3>1 DEF TypeOK, WorkOK
      <3>2. ASSUME NEW d \in WebhookDecisions,
                   WriteWorkload(Item, Admitted(WorkloadTraits[Item],
                                                Mutated(workloadCache[Item]), d))
            PROVE  WorkOK'
        <4>1. Admitted(WorkloadTraits[Item], Mutated(workloadCache[Item]), d) \in Workload
          BY AdmittedType, MutatedType
        <4>2. QED
          BY <1>1, <3>2, <4>1, WriteWorkloadType DEF TypeOK
      <3>3. QED
        BY <1>4, <3>1, <3>2
    <2>3. QED
      BY <2>1, <2>2 DEF Attempt, Current, TypeOK, StoreOK, OutsideOK, CountsOK, store, outside, counts
  <1>5. QED
    BY <1>3, <1>4 DEF Attempt, Current

LEMMA MonitorType ==
    ASSUME TypeOK, pc \in {"telemetry", "unmonitor"},
           NEW wanted \in BOOLEAN, NEW next \in {"listReferences", "statusDeleted"},
           Monitor(wanted, next)
    PROVE  TypeOK'
  <1>1. SweepOK' /\ ProgressOK'
    BY DEF Monitor, Goto, TypeOK, SweepOK, ProgressOK, PCs, sweep
  <1>2. QED
    BY <1>1 DEF Monitor, TypeOK, StoreOK, WorkOK, OutsideOK, CountsOK, store, counts

LEMMA ListReferencesType ==
    ASSUME TypeOK, ListReferences
    PROVE  TypeOK'
  <1>1. SweepOK' /\ ProgressOK'
    BY DEF ListReferences, TypeOK, SweepOK, ProgressOK, PCs, sweep, work
  <1>2. QED
    BY <1>1 DEF ListReferences, TypeOK, StoreOK, WorkOK, OutsideOK, CountsOK,
                store, work, outside, counts

LEMMA UpdateStatusType ==
    ASSUME TypeOK, UpdateStatus
    PROVE  TypeOK'
  <1>1. name \in Lumigoes
    BY DEF TypeOK, ProgressOK, UpdateStatus
  <1>2. NewStatus \in LumigoObject
    BY NewStatusType DEF TypeOK, UpdateStatus
  <1>3. StoreOK'
    BY <1>1, <1>2, WriteLumigoType DEF UpdateStatus, TypeOK, StoreOK, store
  <1>4. QED
    BY <1>3, ReturnType DEF UpdateStatus, TypeOK, WorkOK, OutsideOK, CountsOK, outside, counts

LEMMA SyncType ==
    ASSUME TypeOK, \/ SyncLumigoes
                   \/ \E w \in Workloads : SyncWorkload(w)
    PROVE  TypeOK'
  <1>1. CASE SyncLumigoes
    <2>1. Head(undelivered) \in Stores /\ Tail(undelivered) \in Seq(Stores)
      BY <1>1 DEF SyncLumigoes, TypeOK, StoreOK
    <2>2. QED
      BY <1>1, <2>1 DEF SyncLumigoes, TypeOK, StoreOK, WorkOK, OutsideOK, SweepOK, ProgressOK,
                        CountsOK, work, outside, progress, sweep, counts
  <1>2. ASSUME NEW w \in Workloads, SyncWorkload(w)
        PROVE  TypeOK'
    <2>1. WorkOK'
      BY <1>2 DEF SyncWorkload, TypeOK, WorkOK, Works
    <2>2. QED
      BY <1>2, <2>1 DEF SyncWorkload, TypeOK, StoreOK, OutsideOK, SweepOK, ProgressOK,
                        CountsOK, store, outside, progress, sweep, counts
  <1>3. QED
    BY <1>1, <1>2

(* Users change Lumigoes, the secret or workloads. *)
LEMMA EditType ==
    ASSUME TypeOK, NEW op, Edit(op)
    PROVE  CountsOK' /\ UNCHANGED <<up, pc, name, read, phase, todo, attempt, found>>
  BY ConstantsOK DEF Edit, TypeOK, CountsOK, ConstantsOK, progress, sweep

LEMMA CreateLumigoType ==
    ASSUME TypeOK, NEW l \in Lumigoes, CreateLumigo(l)
    PROVE  TypeOK'
  <1>1. PICK spec \in UserSpecs : WriteLumigo(l, NewLumigo(creations + 1, spec))
    BY DEF CreateLumigo
  <1>2. spec \in LumigoSpec
    BY ConstantsOK DEF ConstantsOK
  <1>3. creations + 1 \in Nat /\ CountsOK'
    BY ConstantsOK DEF CreateLumigo, TypeOK, CountsOK, ConstantsOK
  <1>4. NewLumigo(creations + 1, spec) \in LumigoObject
    BY <1>2, <1>3 DEF NewLumigo, NoLumigo, LumigoObject, ConditionStatus
  <1>5. StoreOK'
    BY <1>1, <1>4, WriteLumigoType DEF TypeOK
  <1>6. QED
    BY <1>3, <1>5 DEF CreateLumigo, TypeOK, WorkOK, OutsideOK, SweepOK, ProgressOK,
                      work, outside, progress, sweep

LEMMA DeleteLumigoType ==
    ASSUME TypeOK, NEW l \in Lumigoes, DeleteLumigo(l)
    PROVE  TypeOK'
  <1>1. PICK held \in BOOLEAN :
            /\ Edit(IF held THEN "deleteForeground" ELSE "deleteLumigo")
            /\ WriteLumigo(l, [lumigoes[l] EXCEPT !.deleting = TRUE, !.held = held])
    BY DEF DeleteLumigo
  <1>2. [lumigoes[l] EXCEPT !.deleting = TRUE, !.held = held] \in LumigoObject
    BY DEF TypeOK, StoreOK, Stores, LumigoObject
  <1>3. StoreOK'
    BY <1>1, <1>2, WriteLumigoType DEF TypeOK
  <1>4. CountsOK' /\ UNCHANGED <<up, pc, name, read, phase, todo, attempt, found>>
    BY <1>1, EditType
  <1>5. QED
    BY <1>3, <1>4 DEF DeleteLumigo, TypeOK, WorkOK, OutsideOK, SweepOK, ProgressOK,
                      work, outside

LEMMA EditSpecType ==
    ASSUME TypeOK, NEW l \in Lumigoes, EditSpec(l)
    PROVE  TypeOK'
  <1>1. PICK spec \in UserSpecs : WriteLumigo(l, [lumigoes[l] EXCEPT !.spec = spec])
    BY DEF EditSpec
  <1>2. spec \in LumigoSpec
    BY ConstantsOK DEF ConstantsOK
  <1>3. [lumigoes[l] EXCEPT !.spec = spec] \in LumigoObject
    BY <1>2 DEF TypeOK, StoreOK, Stores, LumigoObject
  <1>4. StoreOK'
    BY <1>1, <1>3, WriteLumigoType DEF TypeOK
  <1>5. CountsOK' /\ UNCHANGED <<up, pc, name, read, phase, todo, attempt, found>>
    BY EditType DEF EditSpec
  <1>6. QED
    BY <1>4, <1>5 DEF EditSpec, TypeOK, WorkOK, OutsideOK, SweepOK, ProgressOK, work, outside

LEMMA ChangeSecretType ==
    ASSUME TypeOK, ChangeSecret
    PROVE  TypeOK'
  <1>1. CountsOK' /\ UNCHANGED <<up, pc, name, read, phase, todo, attempt, found>>
    BY EditType DEF ChangeSecret
  <1>2. QED
    BY <1>1 DEF ChangeSecret, TypeOK, StoreOK, WorkOK, OutsideOK, SweepOK, ProgressOK,
                store, work

LEMMA EndForegroundType ==
    ASSUME TypeOK, NEW l \in Lumigoes, EndForeground(l)
    PROVE  TypeOK'
  <1>1. [lumigoes[l] EXCEPT !.held = FALSE] \in LumigoObject
    BY DEF TypeOK, StoreOK, Stores, LumigoObject
  <1>2. StoreOK'
    BY <1>1, WriteLumigoType DEF EndForeground, TypeOK
  <1>3. QED
    BY <1>2 DEF EndForeground, TypeOK, WorkOK, OutsideOK, SweepOK, ProgressOK, CountsOK,
                work, outside, progress, sweep, counts

(* A write that users send, or a deletion. *)
LEMMA UserWorkType ==
    ASSUME TypeOK, NEW w \in Workloads,
           CreateWorkload(w) \/ TouchWorkload(w) \/ RelabelWorkload(w) \/ DeleteWorkload(w)
    PROVE  TypeOK'
  <1>1. CountsOK' /\ UNCHANGED <<up, pc, name, read, phase, todo, attempt, found>>
    BY EditType DEF CreateWorkload, TouchWorkload, RelabelWorkload, DeleteWorkload
  <1>2. UserLabels \subseteq Labels
    BY ConstantsOK DEF ConstantsOK, Labels
  <1>3. Present(workloads[w]) => workloads[w] \in Workload
    BY DEF TypeOK, WorkOK, Works, Present, Absent
  <1>4. WorkOK' /\ dirty' \subseteq Workloads /\ UNCHANGED <<store, outside>>
    <2>1. ASSUME NEW v \in Workload, Send(w, v)
          PROVE  WorkOK' /\ dirty' \subseteq Workloads /\ UNCHANGED <<store, outside>>
      BY <2>1, UserSendType DEF TypeOK
    <2>2. CASE CreateWorkload(w)
      <3>1. PICK label \in UserLabels : Send(w, [label |-> label, inst |-> FALSE])
        BY <2>2 DEF CreateWorkload
      <3>2. [label |-> label, inst |-> FALSE] \in Workload
        BY <1>2 DEF Workload
      <3>3. QED
        BY <2>1, <3>1, <3>2
    <2>3. CASE TouchWorkload(w)
      BY <1>3, <2>1, <2>3 DEF TouchWorkload
    <2>4. CASE RelabelWorkload(w)
      <3>1. PICK label \in UserLabels : Send(w, [workloads[w] EXCEPT !.label = label])
        BY <2>4 DEF RelabelWorkload
      <3>2. [workloads[w] EXCEPT !.label = label] \in Workload
        BY <1>2, <1>3, <2>4 DEF RelabelWorkload, Workload
      <3>3. QED
        BY <2>1, <3>1, <3>2
    <2>5. CASE DeleteWorkload(w)
      <3>1. WorkOK'
        BY <2>5, WriteWorkloadType DEF DeleteWorkload, TypeOK
      <3>2. QED
        BY <2>5, <3>1 DEF DeleteWorkload, MarkDirty, TypeOK, ProgressOK
    <2>6. QED
      BY <2>2, <2>3, <2>4, <2>5
  <1>5. QED
    BY <1>1, <1>4 DEF TypeOK, StoreOK, OutsideOK, SweepOK, ProgressOK, store, outside

LEMMA FailureType ==
    ASSUME TypeOK, Failure
    PROVE  TypeOK'
  <1>1. ASSUME NEW kind, Fault(kind)
        PROVE  CountsOK'
    BY <1>1, ConstantsOK DEF Fault, TypeOK, CountsOK, ConstantsOK
  <1>2. CASE ApiFault
    <2>1. SweepOK' /\ ProgressOK'
      BY <1>2, ReturnType, GiveUpType, FailedAttemptType DEF ApiFault
    <2>2. QED
      BY <1>1, <1>2, <2>1 DEF ApiFault, TypeOK, StoreOK, WorkOK, OutsideOK, store, outside
  <1>3. CASE FileFault
    <2>1. SweepOK' /\ ProgressOK'
      BY <1>3 DEF FileFault, Goto, TypeOK, SweepOK, ProgressOK, PCs, sweep
    <2>2. QED
      BY <1>1, <1>3, <2>1 DEF FileFault, TypeOK, StoreOK, WorkOK, OutsideOK, store, outside
  <1>4. CASE Crash
    <2>1. StoreOK'
      BY <1>4, NoLumigoType DEF Crash, TypeOK, StoreOK, Stores
    <2>2. SweepOK' /\ ProgressOK'
      BY <1>4, ReturnType DEF Crash
    <2>3. QED
      BY <1>1, <1>4, <2>1, <2>2 DEF Crash, TypeOK, WorkOK, OutsideOK, outside
  <1>5. QED
    BY <1>2, <1>3, <1>4 DEF Failure

LEMMA RestartType ==
    ASSUME TypeOK, Restart
    PROVE  TypeOK'
  BY DEF Restart, TypeOK, StoreOK, WorkOK, OutsideOK, SweepOK, ProgressOK, CountsOK,
         work, outside, progress, sweep, counts

LEMMA TypeOKStep == TypeOK /\ [Next]_vars => TypeOK'
  <1> SUFFICES ASSUME TypeOK, [Next]_vars PROVE TypeOK'
    OBVIOUS
  <1>1. CASE Reconcile
    <2>1. CASE AddFinalizer \/ DropFinalizer
      BY <2>1, UpdateFinalizerType DEF AddFinalizer, DropFinalizer
    <2>2. CASE Telemetry \/ Unmonitor
      <3>1. read.spec.events \in BOOLEAN
        BY DEF TypeOK, ProgressOK, LumigoObject, LumigoSpec
      <3>2. QED
        BY <2>2, <3>1, MonitorType DEF Telemetry, Unmonitor
    <2>3. QED
      BY <1>1, <2>1, <2>2, BeginType, CheckType, ListKindType, FinishSweepType, AttemptType,
         ListReferencesType, UpdateStatusType DEF Reconcile
  <1>2. CASE User
    BY <1>2, CreateLumigoType, DeleteLumigoType, EditSpecType, ChangeSecretType, UserWorkType
       DEF User
  <1>3. CASE UNCHANGED vars
    BY <1>3 DEF vars, TypeOK, StoreOK, WorkOK, OutsideOK, SweepOK, ProgressOK, CountsOK,
                store, work, outside, progress, sweep, counts
  <1>4. QED
    BY <1>1, <1>2, <1>3, SyncType, EndForegroundType, FailureType, RestartType DEF Next

(* Every reachable state is well formed: only a reconcile of a running     *)
(* process is in progress, only a sweep has workloads left, and no sweep   *)
(* makes more attempts at a workload than maxMutationRetryAttempts.        *)
THEOREM TypeCorrect == Spec => []TypeOK
  BY InitTypeOK, TypeOKStep, PTL DEF Spec

-----------------------------------------------------------------------------
(***************************************************************************)
(* Opting out.                                                             *)
(***************************************************************************)

(* The mutators and the webhook leave an object that opts out without      *)
(* instrumentation, whatever is decided.                                   *)
LEMMA OptOutAdmitted ==
    ASSUME NEW t, NEW v, ~v.inst, OptsOut(v) \/ v.label = "skip", NEW d
    PROVE  ~Admitted(t, v, d).inst
  BY DEF Admitted, Processed, InjectionMutates, OptsOut

(* A sweep's attempt at a workload that opts out: the injecting mutator    *)
(* leaves the current copy alone and the API server refuses an older one.  *)
LEMMA AttemptOptOut ==
    ASSUME TypeOK, Attempt, NEW w \in Workloads, OptsOut(workloads[w]), ~workloads[w].inst
    PROVE  ~workloads'[w].inst
  <1> DEFINE copy == workloadCache[Item]
  <1>1. CASE UNCHANGED <<workloads, workloadCache>>
    BY <1>1
  <1>2. ASSUME Mutates(Item, copy), copy = workloads[Item], NEW d \in WebhookDecisions,
               WriteWorkload(Item, Admitted(WorkloadTraits[Item], Mutated(copy), d))
        PROVE  ~workloads'[w].inst
    <2>1. CASE w # Item
      BY <1>2, <2>1 DEF WriteWorkload, TypeOK, WorkOK, Works
    <2>2. CASE w = Item
      <3>1. workloads'[w] = Admitted(WorkloadTraits[Item], Mutated(copy), d)
        BY <1>2, <2>2 DEF WriteWorkload, TypeOK, WorkOK, Works
      <3>2. CASE pc = "remove"
        <4>1. Mutated(copy) = [label |-> "skip", inst |-> FALSE]
          BY <3>2 DEF Mutated, Removed
        <4>2. QED
          BY <3>1, <4>1, OptOutAdmitted
      <3>3. CASE pc = "inject"
        <4>1. ~OptsOut(copy)
          BY <1>2, <3>3 DEF Mutates, InjectionMutates
        <4>2. QED
          BY <1>2, <2>2, <4>1
      <3>4. QED
        BY <3>2, <3>3 DEF Attempt, Current
    <2>3. QED
      BY <2>1, <2>2
  <1>3. QED
    BY <1>1, <1>2 DEF Attempt, Current

(* What any other step makes of a workload: only a user's creation or      *)
(* relabelling sends something else than what is stored.                   *)
LEMMA OtherStepsOptOut ==
    ASSUME TypeOK, [Next]_vars, ~Attempt, NEW w \in Workloads, ~RelabelWorkload(w),
           OptsOut(workloads[w]), ~workloads[w].inst
    PROVE  ~workloads'[w].inst
  <1>1. SUFFICES ASSUME ~UNCHANGED workloads
                 PROVE  ~workloads'[w].inst
    OBVIOUS
  <1>2. PICK x \in Workloads : \/ CreateWorkload(x) \/ TouchWorkload(x)
                               \/ RelabelWorkload(x) \/ DeleteWorkload(x)
    BY <1>1 DEF Next, Reconcile, Begin, AddFinalizer, DropFinalizer, UpdateFinalizer, Check,
       ListKind, FinishSweep, Telemetry, Unmonitor, Monitor, ListReferences, UpdateStatus,
       User, CreateLumigo, DeleteLumigo, EditSpec, ChangeSecret, Failure, ApiFault, FileFault,
       Crash, SyncLumigoes, SyncWorkload, EndForeground, Restart, vars, work
  <1>3. PICK v : WriteWorkload(x, v)
    BY <1>2 DEF CreateWorkload, TouchWorkload, RelabelWorkload, DeleteWorkload, Send
  <1>4. CASE x # w
    BY <1>3, <1>4 DEF WriteWorkload, TypeOK, WorkOK, Works
  <1>5. CASE x = w
    <2>1. Present(workloads[w])
      BY DEF OptsOut, Present
    <2>2. CASE DeleteWorkload(w)
      BY <2>2 DEF DeleteWorkload, WriteWorkload, Absent, TypeOK, WorkOK, Works
    <2>3. CASE TouchWorkload(w)
      <3>1. PICK d \in WebhookDecisions :
                WriteWorkload(w, Admitted(WorkloadTraits[w], workloads[w], d))
        BY <2>3 DEF TouchWorkload, Send
      <3>2. QED
        BY <3>1, OptOutAdmitted DEF WriteWorkload, TypeOK, WorkOK, Works
    <2>4. QED
      BY <1>2, <1>5, <2>1, <2>2, <2>3 DEF CreateWorkload
  <1>6. QED
    BY <1>4, <1>5

(* No step of the operator instruments a workload whose label is some      *)
(* spelling of false, however old the copies it works on, and neither does *)
(* the webhook when a user updates such a workload.                        *)
THEOREM OptOutRespected == Spec => OptOutNotInstrumented
  <1>1. TypeOK /\ [Next]_vars =>
            [\A w \in Workloads :
                OptsOut(workloads[w]) /\ ~workloads[w].inst /\ ~RelabelWorkload(w) =>
                   ~workloads'[w].inst]_vars
    BY AttemptOptOut, OtherStepsOptOut
  <1>2. QED
    BY <1>1, TypeCorrect, PTL DEF Spec, OptOutNotInstrumented

-----------------------------------------------------------------------------
(***************************************************************************)
(* At most one active Lumigo.  OldestGoverns says why: the cache shows     *)
(* Lumigoes without a gap in the order of their creation (ViewsComplete)   *)
(* and keeps showing the one a reconcile works for (ReadStaysCached), so   *)
(* the check cannot overlook an older one, and later ones only come after. *)
(***************************************************************************)

(* No two Lumigoes are created in the same second. *)
DistinctSeconds == \A m, n \in 1..MaxCreations : m < n => Second[m] < Second[n]

(* The views after a write are those before, in their order, and the store. *)
LEMMA ViewsAfterWrite ==
    ASSUME StoreOK, NEW l, NEW o, WriteLumigo(l, o),
           NEW i \in Views', NEW j \in Views', i <= j
    PROVE  \/ View(j)' = lumigoes'
           \/ \E h, k \in Views : h <= k /\ View(i)' = View(h) /\ View(j)' = View(k)
  <1> DEFINE n == Len(undelivered)
  <1>1. n \in Nat
    BY DEF StoreOK
  <1>2. cache' = cache
    BY DEF WriteLumigo
  <1>3. CASE undelivered' = undelivered
    BY <1>2, <1>3 DEF Views, View
  <1>4. CASE undelivered' = Append(undelivered, lumigoes')
    <2>1. /\ Len(undelivered') = n + 1 /\ undelivered'[n + 1] = lumigoes'
          /\ \A k \in 1..n : undelivered'[k] = undelivered[k]
      BY <1>1, <1>4 DEF StoreOK
    <2>2. CASE j = n + 1
      BY <1>1, <2>1, <2>2 DEF View
    <2>3. CASE j # n + 1
      <3>1. i \in Views /\ j \in Views
        BY <1>1, <2>1, <2>3 DEF Views
      <3>2. View(i)' = View(i) /\ View(j)' = View(j)
        BY <1>1, <1>2, <2>1, <3>1 DEF Views, View
      <3>3. QED
        BY <3>1, <3>2
    <2>4. QED
      BY <2>2, <2>3
  <1>5. CASE undelivered' = Tail(Append(undelivered, lumigoes'))
    <2>1. /\ Len(undelivered') = n
          /\ \A k \in 1..n : undelivered'[k] = IF k = n THEN lumigoes' ELSE undelivered[k + 1]
      BY <1>1, <1>5 DEF StoreOK
    <2>2. CASE j = n /\ n # 0
      BY <1>1, <2>1, <2>2 DEF View
    <2>3. CASE j < n \/ n = 0
      <3> DEFINE before(k) == IF k = 0 THEN 0 ELSE k + 1
      <3>1. \A k \in Views' : k < n \/ n = 0 => before(k) \in Views /\ View(k)' = View(before(k))
        BY <1>1, <1>2, <2>1 DEF Views, View
      <3>2. i \in Nat /\ j \in Nat /\ before(i) <= before(j) /\ (i < n \/ n = 0)
        BY <1>1, <2>1, <2>3 DEF Views
      <3>3. QED
        BY <2>3, <3>1, <3>2
    <2>4. QED
      BY <1>1, <2>1, <2>2, <2>3 DEF Views
  <1>6. QED
    BY <1>3, <1>4, <1>5 DEF WriteLumigo, Queued

(* A delivery only drops the first view. *)
LEMMA ViewsAfterSync ==
    ASSUME StoreOK, SyncLumigoes, NEW i \in Views'
    PROVE  i \in Nat /\ i + 1 \in Views /\ View(i)' = View(i + 1)
  <1> DEFINE n == Len(undelivered)
  <1>1. /\ n \in Nat /\ n # 0 /\ Len(undelivered') = n - 1 /\ cache' = undelivered[1]
        /\ \A k \in 1..(n - 1) : undelivered'[k] = undelivered[k + 1]
    BY DEF StoreOK, SyncLumigoes
  <1>2. QED
    BY <1>1 DEF Views, View

LEMMA ViewType ==
    ASSUME StoreOK, NEW i \in Views, NEW l \in Lumigoes
    PROVE  View(i)[l] \in LumigoObject /\ View(i)[l].uid \in Nat
  <1>1. View(i) \in Stores
    BY DEF StoreOK, Views, View
  <1>2. QED
    BY <1>1 DEF Stores, LumigoObject

(* What a step may do to the reconcile without a new check: nothing, end   *)
(* it, or take it on with the same Lumigo but not past the check.          *)
ProgressKept ==
    \/ UNCHANGED <<pc, name, read>>
    \/ pc' = "idle" /\ read' = NoLumigo
    \/ /\ pc # "idle" /\ name' = name /\ read'.uid = read.uid
       /\ pc' \in Approved => pc \in Approved

LEMMA ReturnKept == ASSUME Return PROVE ProgressKept
  BY DEF Return, ProgressKept

(* Steps that leave the Lumigoes and the cache alone. *)
LEMMA ProgressKeeps ==
    ASSUME TypeOK, OldestGoverns, ProgressKept, UNCHANGED <<store, creations>>
    PROVE  OldestGoverns'
  <1> USE DEF store
  <1>1. Views' = Views /\ \A i \in Views : View(i)' = View(i)
    BY DEF Views, View
  <1>2. UidsOK'
    <2>1. read'.uid <= creations' /\ (pc' # "idle" => Exists(read'))
      BY DEF ProgressKept, OldestGoverns, UidsOK, NoLumigo, Exists, TypeOK, CountsOK
    <2>2. QED
      BY <1>1, <2>1 DEF OldestGoverns, UidsOK
  <1>3. ViewsComplete'
    BY <1>1 DEF OldestGoverns, ViewsComplete
  <1>4. ReadStaysCached'
    BY <1>1 DEF OldestGoverns, ReadStaysCached, ProgressKept
  <1>5. ActiveIsOldest'
    BY DEF OldestGoverns, ActiveIsOldest, Oldest
  <1>6. ApprovedIsOldest'
    <2>1. "idle" \notin Approved
      BY DEF Approved
    <2>2. QED
      BY <2>1 DEF OldestGoverns, ApprovedIsOldest, Oldest, ProgressKept
  <1>7. QED
    BY <1>2, <1>3, <1>4, <1>5, <1>6 DEF OldestGoverns

(* Writes of one Lumigo: a new instance, which is not active, or the same  *)
(* one, active only if it is the oldest.                                   *)
LEMMA WriteKeeps ==
    ASSUME TypeOK, OldestGoverns, ProgressKept,
           NEW l \in Lumigoes, NEW o \in LumigoObject, WriteLumigo(l, o),
           \/ /\ o.uid = creations + 1 /\ creations' = creations + 1 /\ ~IsActive(o)
           \/ /\ o.uid = lumigoes[l].uid /\ creations' = creations
              /\ IsActive(o) => Oldest(l)
    PROVE  OldestGoverns'
  <1> DEFINE new == lumigoes'
  <1>1. /\ creations \in Nat /\ creations' \in Nat /\ creations <= creations'
        /\ \A m \in Lumigoes : lumigoes[m].uid \in Nat
    BY ConstantsOK DEF TypeOK, CountsOK, StoreOK, Stores, LumigoObject, ConstantsOK
  <1>2. /\ \A m \in Lumigoes \ {l} : new[m] = lumigoes[m]
        /\ new[l] = o \/ new[l] = NoLumigo
    BY DEF WriteLumigo, Stored, TypeOK, StoreOK, Stores
  <1>3. /\ \A m \in Lumigoes : /\ new[m].uid \in Nat
                               /\ \/ new[m].uid = lumigoes[m].uid
                                  \/ new[m].uid = 0
                                  \/ /\ m = l /\ new[m].uid = creations + 1
                                     /\ creations' = creations + 1
    BY <1>1, <1>2 DEF NoLumigo
  <1>4. \A i \in Views' :
            \/ View(i)' = new
            \/ \E k \in Views : View(i)' = View(k)
    <2>1. TAKE i \in Views'
    <2>2. i <= i
      BY DEF Views
    <2>3. QED
      BY <2>2, ViewsAfterWrite DEF TypeOK
  <1>5. UidsOK'
    <2>1. \A m \in Lumigoes : new[m].uid <= creations'
      BY <1>1, <1>3 DEF OldestGoverns, UidsOK
    <2>2. \A k, m \in Lumigoes : Exists(new[k]) /\ new[k].uid = new[m].uid => k = m
      <3>1. TAKE k \in Lumigoes, m \in Lumigoes
      <3>2. /\ lumigoes[k].uid # creations + 1 /\ lumigoes[m].uid # creations + 1
            /\ Exists(lumigoes[k]) /\ lumigoes[k].uid = lumigoes[m].uid => k = m
        BY <1>1 DEF OldestGoverns, UidsOK
      <3>3. QED
        BY <1>3, <3>2 DEF Exists
    <2>3. ASSUME NEW i \in Views', NEW m \in Lumigoes
          PROVE  View(i)'[m].uid <= creations'
      <3>2. CASE View(i)' = new
        BY <2>1, <3>2
      <3>3. ASSUME NEW k \in Views, View(i)' = View(k)
            PROVE  View(i)'[m].uid <= creations'
        <4>1. View(k)[m].uid <= creations /\ View(k)[m].uid \in Nat
          BY ViewType DEF OldestGoverns, UidsOK, TypeOK
        <4>2. QED
          BY <1>1, <3>3, <4>1
      <3>4. QED
        BY <1>4, <3>2, <3>3
    <2>4. read'.uid <= creations' /\ (pc' # "idle" => Exists(read'))
      <3>1. read.uid \in Nat /\ read.uid <= creations /\ (pc # "idle" => Exists(read))
        BY DEF TypeOK, ProgressOK, LumigoObject, OldestGoverns, UidsOK
      <3>2. QED
        BY <1>1, <3>1 DEF ProgressKept, NoLumigo, Exists
    <2>5. QED
      BY <2>1, <2>2, <2>3, <2>4 DEF UidsOK
  <1>6. ViewsComplete'
    <2> SUFFICES ASSUME NEW i \in Views', NEW j \in Views', i <= j,
                        NEW k \in Lumigoes, NEW m \in Lumigoes,
                        Exists(View(i)'[k]), Exists(new[m]), new[m].uid <= View(i)'[k].uid,
                        View(j)' # new
                 PROVE  View(j)'[m].uid = new[m].uid
      BY DEF ViewsComplete
    <2>1. PICK g, h \in Views : g <= h /\ View(i)' = View(g) /\ View(j)' = View(h)
      BY ViewsAfterWrite DEF TypeOK
    <2>2. View(g)[k].uid <= creations /\ View(g)[k].uid \in Nat
      BY ViewType DEF OldestGoverns, UidsOK, TypeOK
    <2>3. new[m].uid = lumigoes[m].uid
      BY <1>1, <1>3, <2>1, <2>2 DEF Exists
    <2>4. View(h)[m].uid = lumigoes[m].uid
      BY <2>1, <2>3 DEF OldestGoverns, ViewsComplete, Exists
    <2>5. QED
      BY <2>1, <2>3, <2>4
  <1>7. ReadStaysCached'
    <2> SUFFICES ASSUME pc' # "idle", new[name'].uid = read'.uid, NEW i \in Views'
                 PROVE  View(i)'[name'].uid = read'.uid
      BY DEF ReadStaysCached
    <2>1. pc # "idle" /\ name' = name /\ read'.uid = read.uid /\ name \in Lumigoes
      BY DEF ProgressKept, TypeOK, ProgressOK
    <2>2. read.uid # 0 /\ read.uid # creations + 1
      BY <1>1, <2>1 DEF OldestGoverns, UidsOK, Exists, TypeOK, ProgressOK, LumigoObject
    <2>3. lumigoes[name].uid = read.uid
      BY <1>3, <2>1, <2>2
    <2>4. \A k \in Views : View(k)[name].uid = read.uid
      BY <2>1, <2>3 DEF OldestGoverns, ReadStaysCached
    <2>5. QED
      BY <1>4, <2>1, <2>4
  <1>8. ASSUME NEW k \in Lumigoes, Oldest(k), new[k].uid = lumigoes[k].uid
        PROVE  Oldest(k)'
    <2>1. SUFFICES ASSUME NEW m \in Lumigoes, Exists(new[m])
                   PROVE  new[k].uid <= new[m].uid
      BY <1>8 DEF Oldest, Exists
    <2>2. lumigoes[k].uid <= creations
      BY DEF OldestGoverns, UidsOK
    <2>3. CASE new[m].uid = lumigoes[m].uid
      BY <1>8, <2>1, <2>3 DEF Oldest, Exists
    <2>4. CASE new[m].uid = creations + 1
      BY <1>1, <1>8, <2>2, <2>4
    <2>5. QED
      BY <1>3, <2>1, <2>3, <2>4 DEF Exists
  <1>9. ActiveIsOldest'
    <2>1. SUFFICES ASSUME NEW k \in Lumigoes, IsActive(new[k])
                   PROVE  Oldest(k)'
      BY DEF ActiveIsOldest
    <2>2. ~IsActive(NoLumigo)
      BY DEF IsActive, NoLumigo
    <2>3. CASE k = l
      BY <1>2, <1>8, <2>1, <2>2, <2>3
    <2>4. CASE k # l
      BY <1>2, <1>8, <2>1, <2>4 DEF OldestGoverns, ActiveIsOldest
    <2>5. QED
      BY <2>3, <2>4
  <1>10. ApprovedIsOldest'
    <2> SUFFICES ASSUME pc' \in Approved, new[name'].uid = read'.uid
                 PROVE  /\ Exists(new[name'])
                        /\ \A m \in Lumigoes : Exists(new[m]) => new[name'].uid <= new[m].uid
      BY DEF ApprovedIsOldest, Oldest
    <2>1. /\ pc \in Approved /\ pc # "idle" /\ name' = name /\ read'.uid = read.uid
          /\ name \in Lumigoes
      BY DEF ProgressKept, Approved, TypeOK, ProgressOK
    <2>2. read.uid # 0 /\ read.uid # creations + 1
      BY <1>1, <2>1 DEF OldestGoverns, UidsOK, Exists, TypeOK, ProgressOK, LumigoObject
    <2>3. new[name].uid = lumigoes[name].uid /\ lumigoes[name].uid = read.uid
      BY <1>3, <2>1, <2>2
    <2>4. Oldest(name)
      BY <2>1, <2>3 DEF OldestGoverns, ApprovedIsOldest
    <2>5. Oldest(name)'
      BY <1>8, <2>1, <2>3, <2>4
    <2>6. QED
      BY <2>1, <2>5 DEF Oldest
  <1>11. QED
    BY <1>5, <1>6, <1>7, <1>9, <1>10 DEF OldestGoverns

LEMMA BeginKeeps ==
    ASSUME TypeOK, OldestGoverns, NEW l \in Lumigoes, Begin(l)
    PROVE  OldestGoverns'
  <1> USE DEF store
  <1>1. Views' = Views /\ \A i \in Views : View(i)' = View(i)
    BY DEF Begin, Views, View
  <1>2. /\ Len(undelivered) \in Nat /\ 0 \in Views /\ View(0) = cache
        /\ \A i \in Views : 0 <= i
    BY DEF TypeOK, StoreOK, Views, View
  <1>3. UidsOK'
    BY <1>1, <1>2 DEF Begin, OldestGoverns, UidsOK, counts
  <1>4. ViewsComplete'
    BY <1>1 DEF Begin, OldestGoverns, ViewsComplete
  <1>5. ReadStaysCached'
    <2>1. cache[l].uid \in Nat
      BY DEF TypeOK, StoreOK, Stores, LumigoObject
    <2>2. lumigoes[l].uid = cache[l].uid => \A i \in Views : View(i)[l].uid = cache[l].uid
      BY <1>2, <2>1 DEF Begin, OldestGoverns, ViewsComplete, Exists
    <2>3. QED
      BY <1>1, <2>2 DEF Begin, ReadStaysCached
  <1>6. ActiveIsOldest'
    BY DEF Begin, OldestGoverns, ActiveIsOldest, Oldest
  <1>7. ApprovedIsOldest'
    <2>1. AfterRead(cache[l]) \notin Approved
      BY DEF AfterRead, Approved
    <2>2. QED
      BY <2>1 DEF Begin, ApprovedIsOldest
  <1>8. QED
    BY <1>3, <1>4, <1>5, <1>6, <1>7 DEF OldestGoverns

(* A Lumigo that passes the check and still exists is the oldest. *)
LEMMA PassedIsOldest ==
    ASSUME DistinctSeconds, TypeOK, OldestGoverns, pc = "check", lumigoes[name].uid = read.uid,
           Cached \ {name} = {} \/ \E f \in First : f.uid = read.uid
    PROVE  Oldest(name)
  <1>1. SUFFICES ASSUME NEW m \in Lumigoes, Exists(lumigoes[m]),
                        lumigoes[m].uid < read.uid
                 PROVE  FALSE
    <2>1. /\ read.uid \in Nat
          /\ \A m \in Lumigoes : lumigoes[m].uid \in Nat
      BY DEF TypeOK, ProgressOK, StoreOK, Stores, LumigoObject
    <2>2. Exists(lumigoes[name])
      BY DEF OldestGoverns, UidsOK, Exists
    <2>3. QED
      BY <1>1, <2>1, <2>2 DEF Oldest
  <1>2. name \in Lumigoes /\ Exists(read)
    BY DEF TypeOK, ProgressOK, OldestGoverns, UidsOK
  <1>3. 0 \in Views /\ 0 <= 0 /\ View(0) = cache
    BY DEF TypeOK, StoreOK, Views, View
  <1>4. cache[name].uid = read.uid
    BY <1>2, <1>3 DEF OldestGoverns, ReadStaysCached
  <1>5. \A k, n \in Lumigoes : cache[k].uid \in 0..creations /\ lumigoes[n].uid \in Nat
    <2>1. TAKE k \in Lumigoes, n \in Lumigoes
    <2>2. cache[k].uid \in Nat /\ lumigoes[n].uid \in Nat
      BY DEF TypeOK, StoreOK, Stores, LumigoObject
    <2>3. cache[k].uid <= creations
      BY <1>3 DEF OldestGoverns, UidsOK
    <2>4. creations \in Nat
      BY ConstantsOK DEF TypeOK, CountsOK, ConstantsOK
    <2>5. QED
      BY <2>2, <2>3, <2>4
  <1>6. cache[m].uid = lumigoes[m].uid /\ m \in Cached /\ m # name
    <2>1. lumigoes[m].uid <= View(0)[name].uid /\ Exists(View(0)[name])
      BY <1>1, <1>2, <1>3, <1>4, <1>5 DEF Exists
    <2>2. View(0)[m].uid = lumigoes[m].uid
      BY <1>1, <1>2, <1>3, <2>1 DEF OldestGoverns, ViewsComplete
    <2>3. lumigoes[m].uid # read.uid
      BY <1>1, <1>2, <1>4, <1>5
    <2>4. QED
      BY <1>1, <1>3, <2>2, <2>3 DEF Cached, Exists
  <1>7. PICK f \in First : f.uid = read.uid
    BY <1>6
  <1>8. PICK k \in Cached : f = cache[k] /\ Second[cache[k].uid] <= Second[cache[m].uid]
    BY <1>6 DEF First
  <1>9. /\ creations \in 0..MaxCreations /\ MaxCreations \in Nat
        /\ cache[m].uid \in 1..MaxCreations /\ cache[k].uid \in 1..MaxCreations
        /\ cache[m].uid < cache[k].uid
    BY <1>1, <1>5, <1>6, <1>7, <1>8, ConstantsOK
       DEF TypeOK, CountsOK, ConstantsOK, Cached, Exists
  <1>10. Second[cache[m].uid] \in Nat /\ Second[cache[k].uid] \in Nat
    BY <1>9, ConstantsOK DEF ConstantsOK
  <1>11. QED
    BY <1>8, <1>9, <1>10 DEF DistinctSeconds

LEMMA CheckKeeps ==
    ASSUME DistinctSeconds, TypeOK, OldestGoverns, Check
    PROVE  OldestGoverns'
  <1>1. pc = "check" /\ UNCHANGED <<store, name, read, creations>>
    BY DEF Check, Goto, counts
  <1>2. CASE pc' = "statusError"
    BY <1>1, <1>2, ProgressKeeps DEF ProgressKept, Approved
  <1>3. CASE Cached \ {name} = {} \/ \E f \in First : f.uid = read.uid
    <2>1. lumigoes[name].uid = read.uid => Oldest(name)
      BY <1>1, <1>3, PassedIsOldest
    <2>2. ApprovedIsOldest'
      BY <1>1, <2>1 DEF ApprovedIsOldest, Oldest, store
    <2>3. UidsOK'
      BY <1>1 DEF OldestGoverns, UidsOK, Views, View, store
    <2>4. ViewsComplete'
      BY <1>1 DEF OldestGoverns, ViewsComplete, Views, View, store
    <2>5. ReadStaysCached'
      BY <1>1 DEF OldestGoverns, ReadStaysCached, Views, View, store
    <2>6. ActiveIsOldest'
      BY <1>1 DEF OldestGoverns, ActiveIsOldest, Oldest, store
    <2>7. QED
      BY <2>2, <2>3, <2>4, <2>5, <2>6 DEF OldestGoverns
  <1>4. QED
    BY <1>2, <1>3 DEF Check, Goto

(* The cache moves on by one change. *)
LEMMA SyncKeeps ==
    ASSUME TypeOK, OldestGoverns, SyncLumigoes
    PROVE  OldestGoverns'
  <1>1. UNCHANGED <<lumigoes, pc, name, read, creations>>
    BY DEF SyncLumigoes, progress, counts
  <1>2. \A i \in Views' : i \in Nat /\ i + 1 \in Views /\ View(i)' = View(i + 1)
    BY ViewsAfterSync DEF TypeOK
  <1>3. UidsOK'
    BY <1>1, <1>2 DEF OldestGoverns, UidsOK
  <1>4. ViewsComplete'
    <2> SUFFICES ASSUME NEW i \in Views', NEW j \in Views', i <= j,
                        NEW l \in Lumigoes, NEW m \in Lumigoes,
                        Exists(View(i)'[l]), Exists(lumigoes[m]),
                        lumigoes[m].uid <= View(i)'[l].uid
                 PROVE  View(j)'[m].uid = lumigoes[m].uid
      BY <1>1 DEF ViewsComplete
    <2>1. i + 1 <= j + 1
      BY <1>2
    <2>2. QED
      BY <1>2, <2>1 DEF OldestGoverns, ViewsComplete
  <1>5. ReadStaysCached'
    BY <1>1, <1>2 DEF OldestGoverns, ReadStaysCached
  <1>6. ActiveIsOldest' /\ ApprovedIsOldest'
    BY <1>1 DEF OldestGoverns, ActiveIsOldest, ApprovedIsOldest, Oldest
  <1>7. QED
    BY <1>3, <1>4, <1>5, <1>6 DEF OldestGoverns

(* The cache is lost with the process, and filled by the next one. *)
LEMMA RestartKeeps ==
    ASSUME TypeOK, OldestGoverns,
           undelivered' = <<>>, pc' = "idle", read'.uid <= creations, UNCHANGED <<lumigoes, creations>>,
           cache' = lumigoes \/ \A l \in Lumigoes : cache'[l].uid = 0
    PROVE  OldestGoverns'
  <1>1. \A i \in Views' : i = 0 /\ View(i)' = cache'
    BY DEF Views, View
  <1>2. creations \in Nat
    BY ConstantsOK DEF TypeOK, CountsOK, ConstantsOK
  <1>3. UidsOK'
    BY <1>1, <1>2 DEF OldestGoverns, UidsOK
  <1>4. ViewsComplete'
    BY <1>1 DEF ViewsComplete, Exists
  <1>5. ReadStaysCached' /\ ApprovedIsOldest'
    BY DEF ReadStaysCached, ApprovedIsOldest, Approved
  <1>6. ActiveIsOldest'
    BY DEF OldestGoverns, ActiveIsOldest, Oldest
  <1>7. QED
    BY <1>3, <1>4, <1>5, <1>6 DEF OldestGoverns

(* Adding or removing the finalizer. *)
LEMMA UpdateFinalizerKeeps ==
    ASSUME TypeOK, OldestGoverns, NEW fin \in BOOLEAN, NEW next \in {"check", "unmonitor"},
           pc \in {"addFinalizer", "dropFinalizer"}, UpdateFinalizer(fin, next)
    PROVE  OldestGoverns'
  <1>1. UNCHANGED creations
    BY DEF UpdateFinalizer, counts
  <1>2. CASE lumigoes[name] # read
    BY <1>1, <1>2, ReturnKept, ProgressKeeps DEF UpdateFinalizer
  <1>3. CASE lumigoes[name] = read
    <2> DEFINE o == [read EXCEPT !.fin = fin]
    <2>1. WriteLumigo(name, o) /\ pc' = next /\ name' = name /\ read' = o
      BY <1>3 DEF UpdateFinalizer, Goto
    <2>2. name \in Lumigoes /\ o \in LumigoObject /\ o.uid = read.uid /\ o.active = read.active
      BY DEF TypeOK, ProgressOK, LumigoObject
    <2>3. ProgressKept
      BY <2>1, <2>2 DEF ProgressKept, Approved
    <2>4. IsActive(o) => Oldest(name)
      BY <1>3, <2>2 DEF OldestGoverns, ActiveIsOldest, IsActive
    <2>5. QED
      BY <1>1, <1>3, <2>1, <2>2, <2>3, <2>4, WriteKeeps
  <1>4. QED
    BY <1>2, <1>3

(* The status that ends a reconcile: only an approved one makes a Lumigo   *)
(* active.                                                                 *)
LEMMA UpdateStatusKeeps ==
    ASSUME TypeOK, OldestGoverns, UpdateStatus
    PROVE  OldestGoverns'
  <1>1. ProgressKept /\ UNCHANGED creations
    BY ReturnKept DEF UpdateStatus, counts
  <1>2. CASE lumigoes[name] # read
    BY <1>1, <1>2, ProgressKeeps DEF UpdateStatus
  <1>3. CASE lumigoes[name] = read
    <2>1. name \in Lumigoes /\ read \in LumigoObject
      BY DEF TypeOK, ProgressOK, UpdateStatus
    <2>2. NewStatus \in LumigoObject
      BY NewStatusType DEF TypeOK, UpdateStatus
    <2>3. NewStatus.uid = lumigoes[name].uid
      BY <1>3, <2>1 DEF UpdateStatus, NewStatus, ClearError, SetError, SetActive, LumigoObject
    <2>4. IsActive(NewStatus) => pc = "statusReady"
      BY <2>1 DEF UpdateStatus, NewStatus, ClearError, SetError, SetActive, Updated, IsActive,
                  LumigoObject
    <2>5. IsActive(NewStatus) => Oldest(name)
      BY <1>3, <2>4 DEF OldestGoverns, ApprovedIsOldest, Approved
    <2>6. QED
      BY <1>1, <1>3, <2>1, <2>2, <2>3, <2>5, WriteKeeps DEF UpdateStatus
  <1>4. QED
    BY <1>2, <1>3

(* Users' writes of Lumigoes, and the end of a foreground deletion. *)
LEMMA UserLumigoKeeps ==
    ASSUME TypeOK, OldestGoverns, NEW l \in Lumigoes,
           CreateLumigo(l) \/ DeleteLumigo(l) \/ EditSpec(l) \/ EndForeground(l)
    PROVE  OldestGoverns'
  <1>1. ProgressKept
    BY DEF CreateLumigo, DeleteLumigo, EditSpec, EndForeground, Edit, progress, ProgressKept
  <1>2. lumigoes[l] \in LumigoObject /\ (IsActive(lumigoes[l]) => Oldest(l))
    BY DEF TypeOK, StoreOK, Stores, OldestGoverns, ActiveIsOldest
  <1>3. \A spec \in UserSpecs : spec \in LumigoSpec
    BY ConstantsOK DEF ConstantsOK
  <1>4. CASE CreateLumigo(l)
    <2>1. PICK spec \in UserSpecs : WriteLumigo(l, NewLumigo(creations + 1, spec))
      BY <1>4 DEF CreateLumigo
    <2>2. creations + 1 \in Nat /\ creations' = creations + 1
      BY <1>4, ConstantsOK DEF CreateLumigo, TypeOK, CountsOK, ConstantsOK
    <2>3. /\ NewLumigo(creations + 1, spec) \in LumigoObject
          /\ NewLumigo(creations + 1, spec).uid = creations + 1
          /\ ~IsActive(NewLumigo(creations + 1, spec))
      BY <1>3, <2>2 DEF NewLumigo, NoLumigo, LumigoObject, ConditionStatus, IsActive
    <2>4. QED
      BY <1>1, <2>1, <2>2, <2>3, WriteKeeps
  <1>5. CASE DeleteLumigo(l) \/ EditSpec(l) \/ EndForeground(l)
    <2>1. creations' = creations
      BY <1>5 DEF DeleteLumigo, EditSpec, EndForeground, Edit, counts
    <2>2. ASSUME NEW o \in LumigoObject, WriteLumigo(l, o),
                 o.uid = lumigoes[l].uid, o.active = lumigoes[l].active
          PROVE  OldestGoverns'
      <3>1. IsActive(o) => Oldest(l)
        BY <1>2, <2>2 DEF IsActive
      <3>2. QED
        BY <1>1, <2>1, <2>2, <3>1, WriteKeeps
    <2>3. CASE DeleteLumigo(l)
      <3>1. PICK held \in BOOLEAN :
                WriteLumigo(l, [lumigoes[l] EXCEPT !.deleting = TRUE, !.held = held])
        BY <2>3 DEF DeleteLumigo
      <3> DEFINE o == [lumigoes[l] EXCEPT !.deleting = TRUE, !.held = held]
      <3>2. o \in LumigoObject /\ o.uid = lumigoes[l].uid /\ o.active = lumigoes[l].active
        BY <1>2 DEF LumigoObject
      <3>3. QED
        BY <2>2, <3>1, <3>2
    <2>4. CASE EditSpec(l)
      <3>1. PICK spec \in UserSpecs : WriteLumigo(l, [lumigoes[l] EXCEPT !.spec = spec])
        BY <2>4 DEF EditSpec
      <3> DEFINE o == [lumigoes[l] EXCEPT !.spec = spec]
      <3>2. o \in LumigoObject /\ o.uid = lumigoes[l].uid /\ o.active = lumigoes[l].active
        BY <1>2, <1>3 DEF LumigoObject
      <3>3. QED
        BY <2>2, <3>1, <3>2
    <2>5. CASE EndForeground(l)
      <3> DEFINE o == [lumigoes[l] EXCEPT !.held = FALSE]
      <3>1. o \in LumigoObject /\ o.uid = lumigoes[l].uid /\ o.active = lumigoes[l].active
        BY <1>2 DEF LumigoObject
      <3>2. QED
        BY <2>2, <2>5, <3>1 DEF EndForeground
    <2>6. QED
      BY <1>5, <2>3, <2>4, <2>5
  <1>6. QED
    BY <1>4, <1>5

LEMMA InitOldestGoverns == Init => OldestGoverns
  <1> SUFFICES ASSUME Init PROVE OldestGoverns
    OBVIOUS
  <1>1. Views = {0} /\ View(0) = cache
    BY DEF Init, Views, View
  <1>2. \A l \in Lumigoes : lumigoes[l] = NoLumigo /\ cache[l] = NoLumigo
    BY DEF Init
  <1>3. UidsOK
    BY <1>1, <1>2 DEF Init, UidsOK, NoLumigo, Exists
  <1>4. ViewsComplete
    BY <1>2 DEF ViewsComplete, NoLumigo, Exists
  <1>5. ReadStaysCached /\ ApprovedIsOldest
    BY DEF Init, ReadStaysCached, ApprovedIsOldest, Approved
  <1>6. ActiveIsOldest
    BY <1>2 DEF ActiveIsOldest, IsActive, NoLumigo
  <1>7. QED
    BY <1>3, <1>4, <1>5, <1>6 DEF OldestGoverns

LEMMA OldestGovernsStep ==
    ASSUME DistinctSeconds
    PROVE  TypeOK /\ OldestGoverns /\ [Next]_vars => OldestGoverns'
  <1> SUFFICES ASSUME TypeOK, OldestGoverns, [Next]_vars PROVE OldestGoverns'
    OBVIOUS
  <1>1. CASE Reconcile
    <2>1. CASE AddFinalizer \/ DropFinalizer
      BY <2>1, UpdateFinalizerKeeps DEF AddFinalizer, DropFinalizer
    <2>2. CASE ListKind \/ FinishSweep \/ Telemetry \/ Unmonitor \/ ListReferences
      <3>1. ProgressKept /\ UNCHANGED <<store, creations>>
        BY <2>2 DEF ListKind, FinishSweep, SweepDone, Telemetry, Unmonitor, Monitor, Goto,
                    ListReferences, ProgressKept, Approved, counts
      <3>2. QED
        BY <3>1, ProgressKeeps
    <2>3. CASE Attempt
      <3>1. ProgressKept /\ UNCHANGED <<store, creations>>
        BY <2>3, ReturnKept DEF Attempt, FailedAttempt, GiveUp, ProgressKept, Approved, counts
      <3>2. QED
        BY <3>1, ProgressKeeps
    <2>4. QED
      BY <1>1, <2>1, <2>2, <2>3, BeginKeeps, CheckKeeps, UpdateStatusKeeps DEF Reconcile
  <1>2. CASE \/ ChangeSecret
             \/ \E w \in Workloads : \/ CreateWorkload(w) \/ TouchWorkload(w)
                                     \/ RelabelWorkload(w) \/ DeleteWorkload(w)
                                     \/ SyncWorkload(w)
    <2>1. ProgressKept /\ UNCHANGED <<store, creations>>
      BY <1>2 DEF ChangeSecret, CreateWorkload, TouchWorkload, RelabelWorkload, DeleteWorkload,
                  Send, SyncWorkload, Edit, ProgressKept, progress, counts
    <2>2. QED
      BY <2>1, ProgressKeeps
  <1>3. CASE ApiFault \/ FileFault
    <2>1. ProgressKept /\ UNCHANGED <<store, creations>>
      BY <1>3, ReturnKept DEF ApiFault, FileFault, Fault, FailedAttempt, GiveUp, Goto,
                              ProgressKept, Approved
    <2>2. QED
      BY <2>1, ProgressKeeps
  <1>4. CASE Crash
    <2>1. NoLumigo.uid <= creations /\ NoLumigo.uid = 0
      BY ConstantsOK DEF NoLumigo, TypeOK, CountsOK, ConstantsOK
    <2>2. QED
      BY <1>4, <2>1, RestartKeeps DEF Crash, Fault, Return
  <1>5. CASE Restart
    BY <1>5, RestartKeeps DEF Restart, TypeOK, ProgressOK, OldestGoverns, UidsOK,
                              progress, counts
  <1>6. CASE UNCHANGED vars
    BY <1>6, ProgressKeeps DEF vars, progress, counts, ProgressKept
  <1>7. QED
    BY <1>1, <1>2, <1>3, <1>4, <1>5, <1>6, SyncKeeps, UserLumigoKeeps
       DEF Next, User, Failure

LEMMA OldestGovernsImplies == TypeOK /\ OldestGoverns => AtMostOneActive
  <1> SUFFICES ASSUME TypeOK, OldestGoverns, NEW l \in Lumigoes, NEW m \in Lumigoes,
                      IsActive(lumigoes[l]), IsActive(lumigoes[m]), l # m
               PROVE  FALSE
    BY DEF AtMostOneActive
  <1>1. Oldest(l) /\ Oldest(m)
    BY DEF OldestGoverns, ActiveIsOldest
  <1>2. lumigoes[l].uid \in Nat /\ lumigoes[m].uid \in Nat
    BY DEF TypeOK, StoreOK, Stores, LumigoObject
  <1>3. QED
    BY <1>1, <1>2 DEF Oldest, OldestGoverns, UidsOK

(* However creations, deletions, reconciles and failures interleave, and   *)
(* however late the cache is, at most one Lumigo is active, provided that  *)
(* creation times tell the Lumigoes apart.                                 *)
THEOREM OneActive ==
    ASSUME DistinctSeconds
    PROVE  Spec => []AtMostOneActive
  <1>1. Init => TypeOK /\ OldestGoverns
    BY InitTypeOK, InitOldestGoverns
  <1>2. TypeOK /\ OldestGoverns /\ [Next]_vars => TypeOK' /\ OldestGoverns'
    BY TypeOKStep, OldestGovernsStep
  <1>3. TypeOK /\ OldestGoverns => AtMostOneActive
    BY OldestGovernsImplies
  <1>4. QED
    BY <1>1, <1>2, <1>3, PTL DEF Spec

-----------------------------------------------------------------------------
(***************************************************************************)
(* The conditions of a Lumigo.                                             *)
(***************************************************************************)

(* A write that keeps a Lumigo's conditions, or sets them consistently.    *)
LEMMA WriteExclusive ==
    ASSUME TypeOK, ConditionsExclusive, NEW l \in Lumigoes, NEW o, WriteLumigo(l, o),
           ~(IsActive(o) /\ o.error = "True")
    PROVE  ConditionsExclusive'
  BY DEF ConditionsExclusive, WriteLumigo, Stored, NoLumigo, IsActive, TypeOK, StoreOK, Stores

LEMMA ConditionsExclusiveStep ==
    TypeOK /\ ConditionsExclusive /\ [Next]_vars => ConditionsExclusive'
  <1> SUFFICES ASSUME TypeOK, ConditionsExclusive, [Next]_vars PROVE ConditionsExclusive'
    OBVIOUS
  <1>1. CASE UNCHANGED lumigoes
    BY <1>1 DEF ConditionsExclusive
  <1>2. CASE \E fin \in BOOLEAN, next \in {"check", "unmonitor"} :
                pc # "idle" /\ UpdateFinalizer(fin, next)
    <2>1. PICK fin \in BOOLEAN, next \in {"check", "unmonitor"} : UpdateFinalizer(fin, next)
      BY <1>2
    <2>2. name \in Lumigoes /\ read \in LumigoObject
      BY <1>2 DEF TypeOK, ProgressOK
    <2>3. CASE lumigoes[name] = read /\ WriteLumigo(name, [read EXCEPT !.fin = fin])
      <3> DEFINE o == [read EXCEPT !.fin = fin]
      <3>1. o.active = read.active /\ o.error = read.error
        BY <2>2 DEF LumigoObject
      <3>2. ~(IsActive(o) /\ o.error = "True")
        BY <2>2, <2>3, <3>1 DEF ConditionsExclusive, IsActive
      <3>3. QED
        BY <2>2, <2>3, <3>2, WriteExclusive
    <2>4. QED
      BY <1>1, <2>1, <2>3 DEF UpdateFinalizer, store
  <1>3. CASE UpdateStatus
    <2>1. name \in Lumigoes /\ read \in LumigoObject
      BY <1>3 DEF UpdateStatus, TypeOK, ProgressOK
    <2>2. ~(IsActive(NewStatus) /\ NewStatus.error = "True")
      BY <1>3, <2>1 DEF UpdateStatus, NewStatus, ClearError, SetError, SetActive, Updated,
                        IsActive, LumigoObject
    <2>3. QED
      BY <1>1, <1>3, <2>1, <2>2, WriteExclusive DEF UpdateStatus, store
  <1>4. ASSUME NEW l \in Lumigoes,
               CreateLumigo(l) \/ DeleteLumigo(l) \/ EditSpec(l) \/ EndForeground(l)
        PROVE  ConditionsExclusive'
    <2>1. lumigoes[l] \in LumigoObject /\ ~(IsActive(lumigoes[l]) /\ lumigoes[l].error = "True")
      BY DEF TypeOK, StoreOK, Stores, ConditionsExclusive
    <2>2. CASE CreateLumigo(l)
      <3>1. PICK spec \in UserSpecs : WriteLumigo(l, NewLumigo(creations + 1, spec))
        BY <2>2 DEF CreateLumigo
      <3>2. ~IsActive(NewLumigo(creations + 1, spec))
        BY DEF NewLumigo, NoLumigo, IsActive
      <3>3. QED
        BY <3>1, <3>2, WriteExclusive
    <2>3. CASE DeleteLumigo(l)
      <3>1. PICK held \in BOOLEAN :
                WriteLumigo(l, [lumigoes[l] EXCEPT !.deleting = TRUE, !.held = held])
        BY <2>3 DEF DeleteLumigo
      <3> DEFINE o == [lumigoes[l] EXCEPT !.deleting = TRUE, !.held = held]
      <3>2. ~(IsActive(o) /\ o.error = "True")
        BY <2>1 DEF LumigoObject, IsActive
      <3>3. QED
        BY <3>1, <3>2, WriteExclusive
    <2>4. CASE EditSpec(l)
      <3>1. PICK spec : WriteLumigo(l, [lumigoes[l] EXCEPT !.spec = spec])
        BY <2>4 DEF EditSpec
      <3> DEFINE o == [lumigoes[l] EXCEPT !.spec = spec]
      <3>2. ~(IsActive(o) /\ o.error = "True")
        BY <2>1 DEF LumigoObject, IsActive
      <3>3. QED
        BY <3>1, <3>2, WriteExclusive
    <2>5. CASE EndForeground(l)
      <3> DEFINE o == [lumigoes[l] EXCEPT !.held = FALSE]
      <3>1. ~(IsActive(o) /\ o.error = "True")
        BY <2>1 DEF LumigoObject, IsActive
      <3>2. QED
        BY <2>5, <3>1, WriteExclusive DEF EndForeground
    <2>6. QED
      BY <1>4, <2>2, <2>3, <2>4, <2>5
  <1>5. QED
    BY <1>1, <1>2, <1>3, <1>4
       DEF Next, Reconcile, Begin, AddFinalizer, DropFinalizer, Check, ListKind, FinishSweep,
           Attempt, Telemetry, Unmonitor, Monitor, ListReferences, User, ChangeSecret,
           CreateWorkload, TouchWorkload, RelabelWorkload, DeleteWorkload, Send, Failure,
           ApiFault, FileFault, Crash, SyncLumigoes, SyncWorkload, Restart, vars, store

(* No Lumigo is ever reported both active and in error.                    *)
THEOREM NeverActiveInError == Spec => []ConditionsExclusive
  <1>1. Init => ConditionsExclusive
    BY DEF Init, ConditionsExclusive, NoLumigo, IsActive
  <1>2. QED
    BY <1>1, ConditionsExclusiveStep, TypeCorrect, PTL DEF Spec
=============================================================================
