--------------------------- MODULE LumigoLifeProofs ---------------------------
(***************************************************************************)
(* The life of a Lumigo, for any Lumigoes, workloads, specs, users and     *)
(* bounds: it turns active after its creation sweep, its finalizer keeps   *)
(* it until the instrumentation is removed, and nothing collects events    *)
(* for it afterwards.                                                      *)
(***************************************************************************)
EXTENDS LumigoReconcilerProofs

-----------------------------------------------------------------------------
(***************************************************************************)
(* The finalizer.                                                          *)
(***************************************************************************)

(* No user deletes a Lumigo in the foreground, which adds a finalizer that *)
(* outlives the operator's.                                                *)
NoForeground == "deleteForeground" \notin UserOps

(* A Lumigo that is active, or being deleted, has the operator's finalizer,*)
(* and no other one.                                                       *)
SoundLumigo(o) == ~o.held /\ (o.deleting \/ IsActive(o) => o.fin)

SoundStores == {s \in Stores : \A l \in Lumigoes : SoundLumigo(s[l])}

StoreSound ==
    lumigoes \in SoundStores /\ cache \in SoundStores /\ undelivered \in Seq(SoundStores)

Holding == {"check", "inject", "telemetry", "listReferences", "statusReady"}

Removing == {"remove", "dropFinalizer"}

(* What a reconcile knows of the Lumigo it works for. *)
ReadSound ==
    /\ pc # "idle" => Exists(read)
    /\ pc \in Holding => read.fin
    /\ pc \in Removing => read.deleting /\ read.fin
    /\ pc = "addFinalizer" => ~read.deleting

FinalizerInv == StoreSound /\ ReadSound

(* The moves of a reconcile between its requests. *)
Move(from, to) ==
    \/ from = to \/ to = "idle"
    \/ from = "check" /\ to \in {"statusError", "inject", "telemetry"}
    \/ from = "inject" /\ to = "telemetry"
    \/ from = "remove" /\ to = "dropFinalizer"
    \/ from = "telemetry" /\ to = "listReferences"
    \/ from = "listReferences" /\ to = "statusReady"
    \/ from = "unmonitor" /\ to = "statusDeleted"

MovesOn == Move(pc, pc') /\ (pc' # "idle" => read' = read /\ name' = name)

LEMMA ReturnMoves == ASSUME Return PROVE MovesOn
  BY DEF Return, MovesOn, Move

(* Every step but the first and the finalizer's moves the reconcile on. *)
LEMMA StepMoves ==
    ASSUME TypeOK, [Next]_vars
    PROVE  \/ MovesOn
           \/ \E l \in Lumigoes : Begin(l)
           \/ AddFinalizer \/ DropFinalizer
  <1>1. CASE UNCHANGED <<pc, read, name>>
    BY <1>1 DEF MovesOn, Move
  <1>2. CASE Check \/ FinishSweep \/ Telemetry \/ Unmonitor \/ ListReferences
    BY <1>2 DEF Check, FinishSweep, SweepDone, Telemetry, Unmonitor, ListReferences, Monitor,
                Goto, MovesOn, Move
  <1>3. CASE pc \in {"inject", "remove"} /\ (FailedAttempt \/ GiveUp)
    BY <1>3, ReturnMoves DEF FailedAttempt, GiveUp, MovesOn, Move
  <1>4. CASE UpdateStatus \/ Crash
    BY <1>4, ReturnMoves DEF UpdateStatus, Crash
  <1>5. CASE ApiFault \/ FileFault
    BY <1>3, <1>5, ReturnMoves DEF ApiFault, FileFault, Goto, MovesOn, Move
  <1>6. CASE Attempt
    BY <1>1, <1>3, <1>6 DEF Attempt
  <1>7. CASE User
    BY <1>1, <1>7 DEF User, CreateLumigo, DeleteLumigo, EditSpec, ChangeSecret, Edit, progress,
                      CreateWorkload, TouchWorkload, RelabelWorkload, DeleteWorkload
  <1> QED
    BY <1>1, <1>2, <1>4, <1>5, <1>6, <1>7
       DEF Next, Reconcile, ListKind, SyncLumigoes, SyncWorkload, EndForeground, Failure,
           Restart, progress, vars

LEMMA ReadSoundStep ==
    ASSUME TypeOK, FinalizerInv, [Next]_vars
    PROVE  ReadSound'
  <1>1. CASE MovesOn
    BY <1>1 DEF MovesOn, Move, FinalizerInv, ReadSound, Holding, Removing
  <1>2. ASSUME NEW l \in Lumigoes, Begin(l)
        PROVE  ReadSound'
    <2>1. SoundLumigo(cache[l]) /\ cache[l] \in LumigoObject
      BY DEF FinalizerInv, StoreSound, SoundStores, Stores
    <2> QED
      BY <1>2, <2>1 DEF Begin, AfterRead, SoundLumigo, ReadSound, Holding, Removing, LumigoObject
  <1>3. CASE AddFinalizer \/ DropFinalizer
    <2>1. read \in LumigoObject
      BY DEF TypeOK, ProgressOK
    <2>2. CASE AddFinalizer /\ read' = [read EXCEPT !.fin = TRUE] /\ pc' = "check"
      BY <2>1, <2>2 DEF AddFinalizer, FinalizerInv, ReadSound, Holding, Removing, Exists,
                        LumigoObject
    <2>3. CASE DropFinalizer /\ read' = [read EXCEPT !.fin = FALSE] /\ pc' = "unmonitor"
      BY <2>1, <2>3 DEF DropFinalizer, FinalizerInv, ReadSound, Holding, Removing, Exists,
                        LumigoObject
    <2>4. CASE pc' = "idle"
      BY <2>4 DEF ReadSound, Holding, Removing
    <2> QED
      BY <1>3, <2>2, <2>3, <2>4 DEF AddFinalizer, DropFinalizer, UpdateFinalizer, Goto, Return
  <1> QED  BY <1>1, <1>2, <1>3, StepMoves

LEMMA WriteSound ==
    ASSUME StoreSound, NEW l \in Lumigoes, NEW o \in LumigoObject, SoundLumigo(Stored(o)),
           WriteLumigo(l, o)
    PROVE  StoreSound'
  <1>1. lumigoes' \in SoundStores
    BY StoredType DEF StoreSound, SoundStores, Stores, WriteLumigo
  <1>2. Append(undelivered, lumigoes') \in Seq(SoundStores)
    BY <1>1 DEF StoreSound
  <1>3. Queued(Append(undelivered, lumigoes')) \in Seq(SoundStores)
    BY <1>2, ConstantsOK DEF Queued, ConstantsOK
  <1> QED  BY <1>1, <1>3 DEF StoreSound, WriteLumigo

(* How a Lumigo can be written: for the first time, with its finalizer     *)
(* kept, or by the end of its deletion.                                    *)
New(l, o) ==
    /\ ~Exists(lumigoes[l]) /\ creations' = creations + 1 /\ o.uid = creations'
    /\ ~o.held /\ ~o.deleting /\ ~IsActive(o)

Kept(l, o) ==
    /\ Exists(lumigoes[l]) /\ o.uid = lumigoes[l].uid /\ creations' = creations /\ ~o.held
    /\ lumigoes[l].deleting => o.deleting
    /\ lumigoes[l].fin => o.fin
    /\ IsActive(o) => o.fin

Dropped(l, o) ==
    /\ pc = "dropFinalizer" /\ pc' = "unmonitor" /\ creations' = creations /\ l = name
    /\ lumigoes[l] = read /\ o = [read EXCEPT !.fin = FALSE]

Writes == \E l \in Lumigoes, o \in LumigoObject :
              WriteLumigo(l, o) /\ (New(l, o) \/ Kept(l, o) \/ Dropped(l, o))

LEMMA ReconcileWrites ==
    ASSUME TypeOK, FinalizerInv, AddFinalizer \/ DropFinalizer \/ UpdateStatus
    PROVE  UNCHANGED store \/ Writes
  <1>1. name \in Lumigoes /\ read \in LumigoObject
    BY DEF AddFinalizer, DropFinalizer, UpdateStatus, TypeOK, ProgressOK
  <1> Exists(read)
    BY DEF AddFinalizer, DropFinalizer, UpdateStatus, FinalizerInv, ReadSound
  <1> creations' = creations
    BY DEF AddFinalizer, DropFinalizer, UpdateFinalizer, UpdateStatus, counts
  <1>2. lumigoes[name] = read => SoundLumigo(read)
    BY <1>1 DEF FinalizerInv, StoreSound, SoundStores
  <1>3. CASE UNCHANGED store
    BY <1>3
  <1>4. CASE /\ AddFinalizer /\ lumigoes[name] = read
             /\ WriteLumigo(name, [read EXCEPT !.fin = TRUE])
    <2> DEFINE o == [read EXCEPT !.fin = TRUE]
    <2>1. o \in LumigoObject /\ Kept(name, o)
      BY <1>1, <1>2, <1>4 DEF Kept, SoundLumigo, LumigoObject
    <2> QED  BY <1>1, <1>4, <2>1 DEF Writes
  <1>5. CASE /\ DropFinalizer /\ lumigoes[name] = read /\ pc' = "unmonitor"
             /\ WriteLumigo(name, [read EXCEPT !.fin = FALSE])
    <2> DEFINE o == [read EXCEPT !.fin = FALSE]
    <2>1. o \in LumigoObject /\ Dropped(name, o)
      BY <1>1, <1>5 DEF Dropped, DropFinalizer, LumigoObject
    <2> QED  BY <1>1, <1>5, <2>1 DEF Writes
  <1>6. CASE /\ UpdateStatus /\ lumigoes[name] = read
             /\ WriteLumigo(name, NewStatus)
    <2>1. NewStatus \in LumigoObject
      BY <1>6, NewStatusType DEF UpdateStatus, TypeOK
    <2>2. /\ NewStatus.uid = read.uid /\ NewStatus.held = read.held
          /\ NewStatus.deleting = read.deleting /\ NewStatus.fin = read.fin
          /\ IsActive(NewStatus) => pc = "statusReady"
      BY <1>1, <1>6 DEF UpdateStatus, NewStatus, ClearError, SetError, SetActive, Updated,
                        IsActive, LumigoObject
    <2>3. pc = "statusReady" => read.fin
      BY DEF FinalizerInv, ReadSound, Holding
    <2>4. Kept(name, NewStatus)
      BY <1>2, <1>6, <2>2, <2>3 DEF Kept, SoundLumigo
    <2> QED  BY <1>1, <1>6, <2>1, <2>4 DEF Writes
  <1> QED
    BY <1>3, <1>4, <1>5, <1>6
       DEF AddFinalizer, DropFinalizer, UpdateFinalizer, UpdateStatus, Goto, store

LEMMA UserWrites ==
    ASSUME TypeOK, FinalizerInv, NoForeground, NEW l \in Lumigoes,
           CreateLumigo(l) \/ DeleteLumigo(l) \/ EditSpec(l) \/ EndForeground(l)
    PROVE  Writes
  <1>1. lumigoes[l] \in LumigoObject /\ SoundLumigo(lumigoes[l])
    BY DEF FinalizerInv, StoreSound, SoundStores, Stores
  <1>2. CASE CreateLumigo(l)
    <2>1. PICK spec \in UserSpecs : WriteLumigo(l, NewLumigo(creations + 1, spec))
      BY <1>2 DEF CreateLumigo
    <2> DEFINE o == NewLumigo(creations + 1, spec)
    <2>2. New(l, o)
      BY <1>2 DEF CreateLumigo, New, NewLumigo, NoLumigo, IsActive
    <2>3. creations + 1 \in Nat /\ spec \in LumigoSpec
      BY ConstantsOK DEF ConstantsOK, TypeOK, CountsOK
    <2>4. o \in LumigoObject
      BY <2>3 DEF NewLumigo, NoLumigo, LumigoObject, ConditionStatus
    <2> QED  BY <2>1, <2>2, <2>4 DEF Writes
  <1>3. CASE DeleteLumigo(l)
    <2>1. WriteLumigo(l, [lumigoes[l] EXCEPT !.deleting = TRUE, !.held = FALSE])
      BY <1>3 DEF DeleteLumigo, Edit, NoForeground
    <2> DEFINE o == [lumigoes[l] EXCEPT !.deleting = TRUE, !.held = FALSE]
    <2>2. o \in LumigoObject /\ Kept(l, o)
      BY <1>1, <1>3 DEF DeleteLumigo, Edit, Kept, SoundLumigo, IsActive, LumigoObject
    <2> QED  BY <2>1, <2>2 DEF Writes
  <1>4. CASE EditSpec(l)
    <2>1. PICK spec \in UserSpecs : WriteLumigo(l, [lumigoes[l] EXCEPT !.spec = spec])
      BY <1>4 DEF EditSpec
    <2> DEFINE o == [lumigoes[l] EXCEPT !.spec = spec]
    <2>2. o \in LumigoObject /\ Kept(l, o)
      BY <1>1, <1>4, ConstantsOK DEF EditSpec, Edit, Kept, SoundLumigo, IsActive, LumigoObject,
            ConstantsOK
    <2> QED  BY <2>1, <2>2 DEF Writes
  <1>5. CASE EndForeground(l)
    BY <1>1, <1>5 DEF EndForeground, SoundLumigo
  <1> QED  BY <1>2, <1>3, <1>4, <1>5

(* Nothing else writes a Lumigo; deliveries, crashes and restarts change   *)
(* the cache.                                                              *)
LEMMA StepWrites ==
    ASSUME TypeOK, FinalizerInv, NoForeground, [Next]_vars
    PROVE  UNCHANGED store \/ Writes \/ SyncLumigoes \/ Crash \/ Restart
  <1>1. CASE AddFinalizer \/ DropFinalizer \/ UpdateStatus
    BY <1>1, ReconcileWrites
  <1>2. CASE \E l \in Lumigoes :
                CreateLumigo(l) \/ DeleteLumigo(l) \/ EditSpec(l) \/ EndForeground(l)
    BY <1>2, UserWrites
  <1> QED
    BY <1>1, <1>2
       DEF Next, Reconcile, Begin, Check, ListKind, FinishSweep, Attempt, Telemetry, Unmonitor,
           Monitor, ListReferences, User, ChangeSecret, CreateWorkload, TouchWorkload,
           RelabelWorkload, DeleteWorkload, Send, Failure, ApiFault, FileFault, SyncWorkload, vars

LEMMA NoLumigoSound == SoundLumigo(NoLumigo)
  BY DEF SoundLumigo, NoLumigo, IsActive

LEMMA StoreSoundStep ==
    ASSUME TypeOK, FinalizerInv, NoForeground, [Next]_vars
    PROVE  StoreSound'
  <1>1. CASE UNCHANGED store
    BY <1>1 DEF FinalizerInv, StoreSound, store
  <1>2. CASE Writes
    <2>1. PICK l \in Lumigoes, o \in LumigoObject :
              WriteLumigo(l, o) /\ (New(l, o) \/ Kept(l, o) \/ Dropped(l, o))
      BY <1>2 DEF Writes
    <2>2. SoundLumigo(lumigoes[l])
      BY DEF FinalizerInv, StoreSound, SoundStores
    <2>3. SoundLumigo(Stored(o))
      BY <2>1, <2>2, NoLumigoSound DEF New, Kept, Dropped, SoundLumigo, Stored, LumigoObject,
            FinalizerInv, ReadSound, Removing
    <2> QED  BY <2>1, <2>3, WriteSound DEF FinalizerInv
  <1>3. CASE SyncLumigoes
    BY <1>3 DEF SyncLumigoes, FinalizerInv, StoreSound
  <1>4. CASE Crash
    BY <1>4, NoLumigoSound, NoLumigoType DEF Crash, FinalizerInv, StoreSound, SoundStores, Stores
  <1>5. CASE Restart
    BY <1>5 DEF Restart, FinalizerInv, StoreSound
  <1> QED  BY <1>1, <1>2, <1>3, <1>4, <1>5, StepWrites

LEMMA FinalizerInvHolds ==
    ASSUME NoForeground
    PROVE  Spec => []FinalizerInv
  <1>1. Init => FinalizerInv
    BY NoLumigoSound, NoLumigoType
       DEF Init, FinalizerInv, StoreSound, SoundStores, Stores, ReadSound, Holding, Removing
  <1>2. TypeOK /\ FinalizerInv /\ [Next]_vars => FinalizerInv'
    BY ReadSoundStep, StoreSoundStep DEF FinalizerInv
  <1> QED  BY <1>1, <1>2, TypeCorrect, PTL DEF Spec

(* However late the cache is, whatever fails and whatever else is changed  *)
(* meanwhile, an active Lumigo has the finalizer that Reconcile relies on  *)
(* to remove its instrumentation, if it is not deleted in the foreground.  *)
THEOREM FinalizerGuardsActive ==
    ASSUME NoForeground
    PROVE  Spec => []ActiveHasFinalizer
  <1>1. FinalizerInv => ActiveHasFinalizer
    BY DEF FinalizerInv, StoreSound, SoundStores, SoundLumigo, ActiveHasFinalizer
  <1> QED  BY <1>1, FinalizerInvHolds, PTL

-----------------------------------------------------------------------------
(***************************************************************************)
(* The removal of the instrumentation.                                     *)
(***************************************************************************)

(* The kind of w has been listed. *)
Listed(w) == \E p \in 1..phase : WorkloadTraits[w].kind = KindOf(p)

Cleaned(w) == w \in dirty \/ ~Sweepable(w) \/ ~Instrumented(w)

WantsRemoval(o) == IsActive(o) /\ o.spec.injection /\ o.spec.onDeletion

Faithful == workloadCache = workloads

(* What the removal has passed is clean, unless a user wrote it since.     *)
RemovalInv ==
    /\ pc = "remove" => \A w \in Workloads : Listed(w) /\ w \notin todo => Cleaned(w)
    /\ pc = "dropFinalizer" /\ WantsRemoval(read) => \A w \in Workloads : Cleaned(w)

(* A user's write of a workload. *)
UserWork == \E w \in Workloads : (\E v : WriteWorkload(w, v)) /\ MarkDirty(w)

LEMMA UserWorks ==
    ASSUME NEW w \in Workloads,
           CreateWorkload(w) \/ TouchWorkload(w) \/ RelabelWorkload(w) \/ DeleteWorkload(w)
    PROVE  UserWork /\ UNCHANGED <<pc, name, read, phase, todo, lumigoes>>
  <1>1. ASSUME NEW v, Send(w, v)
        PROVE  UserWork
    BY <1>1 DEF Send, UserWork
  <1> QED
    BY <1>1 DEF CreateWorkload, TouchWorkload, RelabelWorkload, DeleteWorkload, Edit, Send, UserWork,
                progress, sweep, store

(* One attempt at the next workload of a sweep's list. *)
LEMMA AttemptWorks ==
    ASSUME TypeOK, Faithful, Attempt
    PROVE  /\ Item \in todo /\ Item \in Workloads
           /\ \/ /\ UNCHANGED <<workloads, workloadCache>>
                 /\ FailedAttempt
                 /\ Refuses(Item, workloads[Item])
              \/ /\ UNCHANGED <<workloads, workloadCache>>
                 /\ todo' = todo \ {Item} /\ UNCHANGED <<pc, name, read, phase, found, dirty>>
                 /\ ~Refuses(Item, workloads[Item]) /\ ~Mutates(Item, workloads[Item])
              \/ /\ \E d : WriteWorkload(Item, Admitted(WorkloadTraits[Item],
                                                        Mutated(workloads[Item]), d))
                 /\ todo' = todo \ {Item} /\ UNCHANGED <<pc, name, read, phase, found, dirty>>
  <1>1. Item \in todo /\ Item \in Workloads
    BY ItemLeft DEF Attempt, TypeOK, SweepOK
  <1>2. workloadCache[Item] = workloads[Item]
    BY DEF Faithful
  <1> QED  BY <1>1, <1>2 DEF Attempt, Current

LEMMA WriteFaithful ==
    ASSUME Faithful, WorkloadCacheLags = FALSE, NEW w, NEW v, WriteWorkload(w, v)
    PROVE  Faithful'
  BY DEF Faithful, WriteWorkload

LEMMA FaithfulStep ==
    ASSUME TypeOK, Faithful, WorkloadCacheLags = FALSE, [Next]_vars
    PROVE  Faithful'
  <1>1. ASSUME NEW d,
               WriteWorkload(Item, Admitted(WorkloadTraits[Item], Mutated(workloads[Item]), d))
        PROVE  Faithful'
    BY <1>1, WriteFaithful
  <1>2. CASE UserWork
    BY <1>2, WriteFaithful DEF UserWork
  <1>3. CASE UNCHANGED <<workloads, workloadCache>>
    BY <1>3 DEF Faithful
  <1>4. CASE Restart
    BY <1>4 DEF Restart, Faithful
  <1>5. CASE \E w \in Workloads : SyncWorkload(w)
    BY <1>5 DEF SyncWorkload, Faithful
  <1>6. CASE Attempt
    BY <1>1, <1>3, <1>6, AttemptWorks
  <1> QED
    BY <1>2, <1>3, <1>4, <1>5, <1>6, UserWorks
       DEF Next, Reconcile, Begin, AddFinalizer, DropFinalizer, UpdateFinalizer, Check, ListKind,
           FinishSweep, Telemetry, Unmonitor, Monitor, ListReferences, UpdateStatus, User,
           CreateLumigo, DeleteLumigo, EditSpec, ChangeSecret, SyncLumigoes, EndForeground,
           Failure, ApiFault, FileFault, Crash, work, vars

LEMMA FaithfulHolds ==
    ASSUME WorkloadCacheLags = FALSE
    PROVE  Spec => []Faithful
  <1>1. Init => Faithful
    BY DEF Init, Faithful
  <1> QED  BY <1>1, FaithfulStep, TypeCorrect, PTL DEF Spec

LEMMA RemovalBegins ==
    ASSUME TypeOK, NEW l \in Lumigoes, Begin(l)
    PROVE  RemovalInv'
  <1>1. phase' = 0 /\ pc = "idle"
    BY DEF Begin, TypeOK, ProgressOK, sweep
  <1>2. \A w : ~Listed(w)'
    BY <1>1 DEF Listed
  <1>3. pc' = "dropFinalizer" => ~WantsRemoval(read')
    BY DEF Begin, AfterRead, WantsRemoval
  <1> QED  BY <1>2, <1>3 DEF RemovalInv

(* The kinds are in the order of the phases, none is passed over: what a   *)
(* step of the sweep adds to those listed is left to do or not selected.   *)
LEMMA ListedNow ==
    ASSUME TypeOK, ListKind, NEW w \in Workloads, Listed(w)', w \notin todo'
    PROVE  todo = {} /\ (Listed(w) \/ ~Selected(workloads[w]))
  <1>1. todo = {} /\ phase \in 0..5
    BY DEF ListKind, TypeOK, SweepOK
  <1>2. PICK p \in Later : /\ \A q \in Later : p <= q
                           /\ phase' = p
                           /\ todo' = {v \in Workloads : WorkloadTraits[v].kind = KindOf(p)
                                                         /\ Selected(workloads[v])}
    BY DEF ListKind
  <1>3. PICK q \in 1..p : WorkloadTraits[w].kind = KindOf(q)
    BY <1>2 DEF Listed
  <1>4. p \in 1..5
    BY DEF Later, Phases
  <1>5. CASE q <= phase
    BY <1>1, <1>3, <1>5 DEF Listed
  <1>6. CASE q > phase
    <2>1. q \in Later
      BY <1>3, <1>4, <1>6 DEF Later, Phases
    <2>2. q = p
      BY <1>2, <1>3, <1>4, <2>1
    <2> QED  BY <1>1, <1>2, <1>3, <2>2
  <1> QED  BY <1>1, <1>3, <1>4, <1>5, <1>6

LEMMA AllListed ==
    ASSUME TypeOK, FinishSweep, NEW w \in Workloads, Sweepable(w)
    PROVE  todo = {} /\ Listed(w)
  <1>1. todo = {} /\ Later = {} /\ phase \in 0..5
    BY DEF FinishSweep, TypeOK, SweepOK
  <1>2. WorkloadTraits[w].kind \in Kinds \ {"Job"}
    BY ConstantsOK DEF ConstantsOK, Traits, Sweepable
  <1>3. PICK p \in 1..5 : WorkloadTraits[w].kind = KindOf(p)
    <2>1. /\ KindOf(1) = "DaemonSet" /\ KindOf(2) = "Deployment" /\ KindOf(3) = "ReplicaSet"
          /\ KindOf(4) = "StatefulSet" /\ KindOf(5) = "CronJob"
      BY DEF KindOf
    <2>2. 1 \in 1..5 /\ 2 \in 1..5 /\ 3 \in 1..5 /\ 4 \in 1..5 /\ 5 \in 1..5
      OBVIOUS
    <2> QED  BY <1>2, <2>1, <2>2 DEF Kinds
  <1>4. p <= phase
    BY <1>1, <1>3 DEF Later, Phases
  <1> QED  BY <1>1, <1>3, <1>4 DEF Listed

LEMMA RemovalLists ==
    ASSUME TypeOK, RemovalInv, ListKind
    PROVE  RemovalInv'
  <1>1. pc' = pc /\ workloads' = workloads /\ dirty' = dirty /\ pc \in {"inject", "remove"}
    BY DEF ListKind, work
  <1>2. ASSUME pc = "remove", NEW w \in Workloads, Listed(w)', w \notin todo'
        PROVE  Cleaned(w)'
    <2>1. CASE Listed(w)
      BY <1>1, <1>2, <2>1, ListedNow DEF RemovalInv, Cleaned, Instrumented
    <2>2. CASE ~Selected(workloads[w])
      BY <1>1, <1>2, <2>2 DEF Selected, Present, Cleaned, Instrumented, TypeOK, WorkOK, Works,
                              Workload, Labels, Absent
    <2> QED  BY <1>2, <2>1, <2>2, ListedNow
  <1> QED  BY <1>1, <1>2 DEF RemovalInv

LEMMA RemovalFinishes ==
    ASSUME TypeOK, RemovalInv, FinishSweep
    PROVE  RemovalInv'
  <1>1. /\ workloads' = workloads /\ dirty' = dirty
        /\ pc' # "remove" /\ (pc' = "dropFinalizer" => pc = "remove")
    BY DEF FinishSweep, SweepDone, work
  <1>2. ASSUME NEW w \in Workloads, pc = "remove"
        PROVE  Cleaned(w)'
    BY <1>1, <1>2, AllListed DEF RemovalInv, Cleaned, Sweepable, Instrumented
  <1> QED  BY <1>1, <1>2 DEF RemovalInv

LEMMA RemovalAttempts ==
    ASSUME TypeOK, Faithful, RemovalInv, Attempt
    PROVE  RemovalInv'
  <1>1. PICK i \in todo : i = Item
    BY AttemptWorks
  <1>2. i \in Workloads /\ pc \in {"inject", "remove"}
    BY DEF TypeOK, SweepOK, Attempt
  <1>3. CASE UNCHANGED <<workloads, workloadCache>> /\ FailedAttempt
    <2>1. CASE UNCHANGED <<pc, read, phase, todo, dirty>>
      BY <1>3, <2>1 DEF RemovalInv, Listed, Cleaned, Instrumented
    <2>2. CASE pc' \notin {"remove", "dropFinalizer"}
      BY <2>2 DEF RemovalInv
    <2> QED  BY <1>3, <2>1, <2>2 DEF FailedAttempt, GiveUp, Return
  <1>4. ASSUME todo' = todo \ {i}, UNCHANGED <<pc, name, read, phase, found, dirty>>,
               \A w \in Workloads \ {i} : workloads'[w] = workloads[w],
               pc = "remove" => Cleaned(i)'
        PROVE  RemovalInv'
    <2>1. pc' \in {"inject", "remove"}
      BY <1>2, <1>4
    <2>2. ASSUME pc = "remove", NEW w \in Workloads, Listed(w)', w \notin todo'
          PROVE  Cleaned(w)'
      BY <1>4, <2>2 DEF RemovalInv, Listed, Cleaned, Instrumented
    <2> QED  BY <1>4, <2>1, <2>2 DEF RemovalInv
  <1>5. CASE /\ UNCHANGED <<workloads, workloadCache>> /\ ~Mutates(i, workloads[i])
             /\ todo' = todo \ {i} /\ UNCHANGED <<pc, name, read, phase, found, dirty>>
    <2>1. pc = "remove" => Cleaned(i)'
      BY <1>2, <1>5 DEF Mutates, RemovalMutates, Cleaned, Sweepable, Instrumented
    <2> QED  BY <1>4, <1>5, <2>1
  <1>6. ASSUME NEW d, WriteWorkload(i, Admitted(WorkloadTraits[i], Mutated(workloads[i]), d)),
               todo' = todo \ {i}, UNCHANGED <<pc, name, read, phase, found, dirty>>
        PROVE  RemovalInv'
    <2>1. /\ workloads'[i] = Admitted(WorkloadTraits[i], Mutated(workloads[i]), d)
          /\ \A w \in Workloads \ {i} : workloads'[w] = workloads[w]
      BY <1>2, <1>6 DEF WriteWorkload, TypeOK, WorkOK, Works
    <2>2. pc = "remove" => ~workloads'[i].inst
      BY <2>1 DEF Mutated, Removed, Admitted, Processed
    <2>3. pc = "remove" => Cleaned(i)'
      BY <2>2 DEF Cleaned, Instrumented
    <2> QED  BY <1>4, <1>6, <2>1, <2>3
  <1> QED  BY <1>1, <1>3, <1>5, <1>6, AttemptWorks

LEMMA RemovalInvStep ==
    ASSUME TypeOK, Faithful, RemovalInv, [Next]_vars
    PROVE  RemovalInv'
  <1>1. CASE \/ ListKind \/ FinishSweep \/ Attempt \/ \E l \in Lumigoes : Begin(l)
    BY <1>1, RemovalBegins, RemovalLists, RemovalFinishes, RemovalAttempts
  <1>2. CASE UserWork /\ UNCHANGED <<pc, name, read, phase, todo, lumigoes>>
    <2>1. PICK w \in Workloads : /\ \A v \in Workloads \ {w} : workloads'[v] = workloads[v]
                                 /\ pc # "idle" => dirty' = dirty \cup {w}
      BY <1>2 DEF UserWork, WriteWorkload, MarkDirty, TypeOK, WorkOK, Works
    <2> QED  BY <1>2, <2>1 DEF RemovalInv, Listed, Cleaned, Instrumented
  <1>3. CASE /\ UNCHANGED <<workloads, dirty, read, phase, todo>>
             /\ pc' \in {"remove", "dropFinalizer"} => pc' = pc
    BY <1>3 DEF RemovalInv, Listed, Cleaned, Instrumented
  <1>4. CASE pc' \notin {"remove", "dropFinalizer"}
    BY <1>4 DEF RemovalInv
  <1>5. CASE AddFinalizer \/ DropFinalizer \/ Check \/ Telemetry \/ Unmonitor \/ ListReferences
             \/ UpdateStatus \/ FileFault \/ Crash
    BY <1>4, <1>5 DEF AddFinalizer, DropFinalizer, UpdateFinalizer, Check, Telemetry, Unmonitor,
                      Monitor, ListReferences, UpdateStatus, FileFault, Crash, Goto, Return
  <1>6. CASE ApiFault
    BY <1>3, <1>4, <1>6 DEF ApiFault, FailedAttempt, GiveUp, Return
  <1>7. CASE UNCHANGED <<workloads, dirty, progress>>
    BY <1>3, <1>7 DEF progress, sweep
  <1>8. CASE \E w \in Workloads : \/ CreateWorkload(w) \/ TouchWorkload(w)
                                  \/ RelabelWorkload(w) \/ DeleteWorkload(w)
    BY <1>2, <1>8, UserWorks
  <1> QED
    BY <1>1, <1>5, <1>6, <1>7, <1>8
       DEF Next, Reconcile, User, CreateLumigo, DeleteLumigo, EditSpec, ChangeSecret, Edit,
           SyncLumigoes, SyncWorkload, EndForeground, Failure, Restart, work, vars

(* An active Lumigo goes by losing the operator's finalizer.               *)
LEMMA VanishesByDrop ==
    ASSUME TypeOK, FinalizerInv, NoForeground, [Next]_vars,
           NEW l \in Lumigoes, Vanishes(l), IsActive(lumigoes[l])
    PROVE  pc = "dropFinalizer" /\ read = lumigoes[l]
  <1>1. lumigoes'[l] # lumigoes[l] /\ Exists(lumigoes[l])
    BY DEF Vanishes
  <1>2. Writes
    BY <1>1, StepWrites DEF store, SyncLumigoes, Crash, Restart
  <1>3. PICK k \in Lumigoes, o \in LumigoObject :
            WriteLumigo(k, o) /\ (New(k, o) \/ Kept(k, o) \/ Dropped(k, o))
    BY <1>2 DEF Writes
  <1>4. k = l /\ lumigoes'[l] = Stored(o)
    BY <1>1, <1>3 DEF WriteLumigo, TypeOK, StoreOK, Stores
  <1>5. ~New(l, o)
    BY <1>1 DEF New
  <1>6. SoundLumigo(lumigoes[l])
    BY DEF FinalizerInv, StoreSound, SoundStores
  <1>7. ~Kept(l, o)
    BY <1>1, <1>4, <1>6 DEF Kept, SoundLumigo, Stored, Vanishes, Exists
  <1> QED  BY <1>3, <1>4, <1>5, <1>7 DEF Dropped

(* An active Lumigo that asks for it is only gone once its instrumentation *)
(* is: RemoveLumigoFromResources passes every kind and every workload, and *)
(* a failed sweep starts again, if cached workloads are up to date and no  *)
(* Lumigo is deleted in the foreground.                                    *)
THEOREM RemovalIsComplete ==
    ASSUME NoForeground, WorkloadCacheLags = FALSE
    PROVE  Spec => RemovalComplete
  <1>1. Init => RemovalInv
    BY DEF Init, RemovalInv
  <1>2. TypeOK /\ FinalizerInv /\ RemovalInv /\ [Next]_vars =>
            [\A l \in Lumigoes : Vanishes(l) /\ IsActive(lumigoes[l]) =>
                \A w \in Workloads \ dirty : Sweepable(w) => ~Instrumented(w)]_vars
    <2> SUFFICES ASSUME TypeOK, FinalizerInv, RemovalInv, [Next]_vars, NEW l \in Lumigoes,
                        Vanishes(l), IsActive(lumigoes[l]), NEW w \in Workloads \ dirty,
                        Sweepable(w)
                 PROVE  ~Instrumented(w)
      OBVIOUS
    <2>1. pc = "dropFinalizer" /\ WantsRemoval(read)
      BY VanishesByDrop DEF Vanishes, WantsRemoval
    <2> QED  BY <2>1 DEF RemovalInv, Cleaned
  <1>3. TypeOK /\ Faithful /\ RemovalInv /\ [Next]_vars => RemovalInv'
    BY RemovalInvStep
  <1> QED
    BY <1>1, <1>2, <1>3, TypeCorrect, FaithfulHolds, FinalizerInvHolds, PTL
       DEF Spec, RemovalComplete

-----------------------------------------------------------------------------
(***************************************************************************)
(* The creation sweep.                                                     *)
(***************************************************************************)

(* No request fails, and users neither relabel nor delete workloads: what  *)
(* was listed can be instrumented, so the sweep is not given up.           *)
Undisturbed ==
    {"relabel", "deleteWorkload"} \cap UserOps = {} /\ "api" \notin AllowedFaults

Covered(w) ==
    w \in dirty \/ ~Sweepable(w) \/ workloads[w] # [label |-> "none", inst |-> FALSE]

Injectable(w) == Present(workloads[w]) /\ ~OptsOut(workloads[w])

AfterSweep == {"telemetry", "listReferences", "statusReady"}

(* What the sweep has passed is covered, and what it has left can be.      *)
CreationInv ==
    /\ pc = "inject" => \A w \in Workloads :
           IF w \in todo THEN Injectable(w) ELSE Listed(w) => Covered(w)
    /\ pc \in AfterSweep /\ WantsCreationSweep(read) => \A w \in Workloads : Covered(w)

LEMMA CreationLists ==
    ASSUME TypeOK, CreationInv, ListKind
    PROVE  CreationInv'
  <1>1. pc' = pc /\ workloads' = workloads /\ dirty' = dirty /\ pc \in {"inject", "remove"}
    BY DEF ListKind, work
  <1>2. ASSUME pc = "inject", NEW w \in Workloads, Listed(w)', w \notin todo'
        PROVE  Covered(w)'
    <2>1. CASE Listed(w)
      BY <1>1, <1>2, <2>1, ListedNow DEF CreationInv, Covered
    <2>2. CASE ~Selected(workloads[w])
      BY <1>1, <1>2, <2>2 DEF Selected, Present, NotAutoTraced, Covered
    <2> QED  BY <1>2, <2>1, <2>2, ListedNow
  <1>3. ASSUME pc = "inject", NEW w \in todo'
        PROVE  Injectable(w)'
    BY <1>1, <1>3 DEF ListKind, Selected, NotAutoTraced, Injectable, OptsOut
  <1> QED  BY <1>1, <1>2, <1>3 DEF CreationInv, AfterSweep

LEMMA CreationFinishes ==
    ASSUME TypeOK, CreationInv, FinishSweep
    PROVE  CreationInv'
  <1>1. /\ workloads' = workloads /\ dirty' = dirty /\ read' = read
        /\ pc' # "inject" /\ (pc' \in AfterSweep => pc = "inject")
    BY DEF FinishSweep, SweepDone, AfterSweep, work
  <1>2. ASSUME NEW w \in Workloads, pc = "inject"
        PROVE  Covered(w)'
    BY <1>1, <1>2, AllListed DEF CreationInv, Covered, Sweepable
  <1> QED  BY <1>1, <1>2 DEF CreationInv

LEMMA CreationAttempts ==
    ASSUME TypeOK, Faithful, CreationInv, Attempt
    PROVE  CreationInv'
  <1>1. PICK i \in todo : i = Item
    BY AttemptWorks
  <1>2. i \in Workloads /\ pc \in {"inject", "remove"} /\ todo \subseteq Workloads
    BY DEF TypeOK, SweepOK, Attempt
  <1>3. CASE pc = "remove"
    BY <1>2, <1>3, AttemptWorks DEF FailedAttempt, GiveUp, Return, CreationInv, AfterSweep
  <1>4. CASE pc = "inject"
    <2>1. ~Refuses(i, workloads[i])
      BY <1>1, <1>2, <1>4 DEF CreationInv, Injectable, Refuses, InjectionRefused
    <2>2. todo' = todo \ {i} /\ UNCHANGED <<pc, name, read, phase, found, dirty>>
      BY <1>1, <2>1, AttemptWorks
    <2>3. \/ UNCHANGED workloads /\ ~Mutates(i, workloads[i])
          \/ \E d : WriteWorkload(i, Admitted(WorkloadTraits[i], Mutated(workloads[i]), d))
      BY <1>1, <2>1, AttemptWorks
    <2>4. \A w \in Workloads \ {i} : workloads'[w] = workloads[w]
      BY <1>2, <2>3 DEF WriteWorkload, TypeOK, WorkOK, Works
    <2>5. Covered(i)'
      <3>1. CASE UNCHANGED workloads /\ ~Mutates(i, workloads[i])
        BY <1>1, <1>2, <1>4, <3>1 DEF Mutates, InjectionMutates, Covered, Sweepable, CreationInv,
                                      Injectable
      <3>2. CASE \E d : WriteWorkload(i, Admitted(WorkloadTraits[i], Mutated(workloads[i]), d))
        <4>1. PICK d : workloads'[i] = Admitted(WorkloadTraits[i], Mutated(workloads[i]), d)
          BY <1>2, <3>2 DEF WriteWorkload, TypeOK, WorkOK, Works
        <4>2. workloads'[i].label = "lumigo"
          BY <1>4, <4>1 DEF Mutated, Injected, Admitted, Processed, InjectionMutates
        <4> QED  BY <4>2 DEF Covered
      <3> QED  BY <2>3, <3>1, <3>2
    <2>6. ASSUME NEW w \in Workloads
          PROVE  IF w \in todo' THEN Injectable(w)' ELSE Listed(w)' => Covered(w)'
      BY <1>2, <1>4, <2>2, <2>4, <2>5 DEF CreationInv, Injectable, Listed, Covered
    <2> QED  BY <1>4, <2>2, <2>6 DEF CreationInv, AfterSweep
  <1> QED  BY <1>2, <1>3, <1>4

(* A user's write leaves a listed workload injectable. *)
LEMMA CreationUsers ==
    ASSUME TypeOK, Faithful, Undisturbed, CreationInv, NEW w \in Workloads,
           CreateWorkload(w) \/ TouchWorkload(w) \/ RelabelWorkload(w) \/ DeleteWorkload(w)
    PROVE  CreationInv'
  <1>1. UNCHANGED <<pc, read, phase, todo>>
    BY UserWorks
  <1>2. /\ \A v \in Workloads \ {w} : workloads'[v] = workloads[v]
        /\ pc # "idle" => dirty' = dirty \cup {w}
    BY DEF CreateWorkload, TouchWorkload, RelabelWorkload, DeleteWorkload, Send, MarkDirty,
           WriteWorkload, TypeOK, WorkOK, Works
  <1>3. CASE CreateWorkload(w)
    <2>1. ~Injectable(w)
      BY <1>3 DEF CreateWorkload, Injectable
    <2> QED  BY <1>1, <1>2, <2>1 DEF CreationInv, Injectable, Listed, Covered, AfterSweep
  <1>4. CASE TouchWorkload(w)
    <2>1. PICK d : workloads'[w] = Admitted(WorkloadTraits[w], workloads[w], d)
      BY <1>4 DEF TouchWorkload, Send, WriteWorkload, TypeOK, WorkOK, Works
    <2>2. workloads[w] \in Workload
      BY <1>4 DEF TouchWorkload, Present, Absent, TypeOK, WorkOK, Works
    <2>3. Injectable(w) => Injectable(w)'
      BY <2>1, <2>2 DEF Injectable, Present, OptsOut, Admitted, Processed, Injected, Workload
    <2> QED  BY <1>1, <1>2, <2>3 DEF CreationInv, Injectable, Listed, Covered, AfterSweep
  <1>5. ~RelabelWorkload(w) /\ ~DeleteWorkload(w)
    BY DEF RelabelWorkload, DeleteWorkload, Edit, Undisturbed
  <1> QED  BY <1>3, <1>4, <1>5

LEMMA CreationInvStep ==
    ASSUME TypeOK, Faithful, Undisturbed, CreationInv, [Next]_vars
    PROVE  CreationInv'
  <1>1. CASE ListKind \/ FinishSweep \/ Attempt
    BY <1>1, CreationLists, CreationFinishes, CreationAttempts
  <1>2. CASE \E w \in Workloads : \/ CreateWorkload(w) \/ TouchWorkload(w)
                                  \/ RelabelWorkload(w) \/ DeleteWorkload(w)
    BY <1>2, CreationUsers
  <1>3. CASE pc' \notin {"inject"} \cup AfterSweep
    BY <1>3 DEF CreationInv
  <1>4. CASE /\ UNCHANGED <<workloads, dirty, read, phase, todo>>
             /\ pc' \in {"inject"} \cup AfterSweep =>
                    pc' = pc \/ (pc' \in AfterSweep /\ pc \in AfterSweep)
    BY <1>4 DEF CreationInv, Listed, Covered, Injectable, AfterSweep
  <1>5. CASE Check
    <2>1. CASE pc' = "inject"
      <3>1. todo' = {} /\ phase' = 0
        BY <1>5 DEF Check, Goto, TypeOK, ProgressOK, sweep
      <3> QED  BY <2>1, <3>1 DEF CreationInv, Listed, AfterSweep
    <2>2. CASE pc' = "telemetry" /\ ~WantsCreationSweep(read) /\ read' = read
      BY <2>2 DEF CreationInv, WantsCreationSweep
    <2> QED  BY <1>3, <1>5, <2>1, <2>2 DEF Check, Goto, AfterSweep
  <1>6. CASE AddFinalizer \/ DropFinalizer \/ UpdateStatus \/ Crash \/ \E l \in Lumigoes : Begin(l)
    BY <1>3, <1>6 DEF AddFinalizer, DropFinalizer, UpdateFinalizer, UpdateStatus, Crash, Begin,
                      AfterRead, Goto, Return, AfterSweep
  <1>7. CASE Telemetry \/ Unmonitor \/ ListReferences \/ FileFault
    BY <1>4, <1>7 DEF Telemetry, Unmonitor, Monitor, ListReferences, FileFault, Goto, AfterSweep,
                      sweep, work
  <1>8. CASE UNCHANGED <<workloads, dirty, progress>>
    BY <1>4, <1>8 DEF progress, sweep
  <1> QED
    BY <1>1, <1>2, <1>5, <1>6, <1>7, <1>8
       DEF Next, Reconcile, User, CreateLumigo, DeleteLumigo, EditSpec, ChangeSecret, Edit,
           SyncLumigoes, SyncWorkload, EndForeground, Failure, ApiFault, Fault, Undisturbed,
           Restart, work, vars

(* Only the end of a successful reconcile makes a Lumigo active. *)
LEMMA TurnsActive ==
    ASSUME TypeOK, [Next]_vars, NEW l \in Lumigoes,
           ~IsActive(lumigoes[l]), IsActive(lumigoes'[l])
    PROVE  pc = "statusReady" /\ read = lumigoes[l]
  <1>1. lumigoes \in Stores /\ lumigoes' # lumigoes
    BY DEF TypeOK, StoreOK
  <1>2. ASSUME NEW k \in Lumigoes, NEW o, WriteLumigo(k, o), o.active = lumigoes[k].active
        PROVE  FALSE
    BY <1>1, <1>2 DEF WriteLumigo, Stored, NoLumigo, Stores, IsActive
  <1>3. CASE \E fin \in BOOLEAN : \E next : pc # "idle" /\ UpdateFinalizer(fin, next)
    <2>1. PICK fin \in BOOLEAN : WriteLumigo(name, [read EXCEPT !.fin = fin])
                                 /\ lumigoes[name] = read
      BY <1>1, <1>3 DEF UpdateFinalizer, store
    <2>2. name \in Lumigoes /\ read \in LumigoObject
      BY <1>3 DEF TypeOK, ProgressOK
    <2> DEFINE o == [read EXCEPT !.fin = fin]
    <2>3. o.active = lumigoes[name].active
      BY <2>1, <2>2 DEF LumigoObject
    <2> QED  BY <1>2, <2>1, <2>2, <2>3
  <1>4. ASSUME NEW k \in Lumigoes, DeleteLumigo(k) \/ EditSpec(k) \/ EndForeground(k)
        PROVE  FALSE
    <2>1. \A held \in BOOLEAN :
              [lumigoes[k] EXCEPT !.deleting = TRUE, !.held = held].active = lumigoes[k].active
      BY <1>1 DEF Stores, LumigoObject
    <2>2. \A spec : [lumigoes[k] EXCEPT !.spec = spec].active = lumigoes[k].active
      BY <1>1 DEF Stores, LumigoObject
    <2>3. [lumigoes[k] EXCEPT !.held = FALSE].active = lumigoes[k].active
      BY <1>1 DEF Stores, LumigoObject
    <2> QED  BY <1>2, <1>4, <2>1, <2>2, <2>3 DEF DeleteLumigo, EditSpec, EndForeground
  <1>5. ASSUME NEW k \in Lumigoes, CreateLumigo(k)
        PROVE  FALSE
    <2>1. PICK spec : WriteLumigo(k, NewLumigo(creations + 1, spec))
      BY <1>5 DEF CreateLumigo
    <2> DEFINE o == NewLumigo(creations + 1, spec)
    <2>2. ~IsActive(o) /\ ~IsActive(Stored(o))
      BY DEF NewLumigo, NoLumigo, IsActive, Stored
    <2>3. lumigoes'[l] = IF k = l THEN Stored(o) ELSE lumigoes[l]
      BY <1>1, <2>1 DEF WriteLumigo, Stores
    <2> QED  BY <2>2, <2>3
  <1>6. CASE UpdateStatus
    <2>1. WriteLumigo(name, NewStatus) /\ lumigoes[name] = read
          /\ name \in Lumigoes /\ read \in LumigoObject
      BY <1>1, <1>6 DEF UpdateStatus, TypeOK, ProgressOK, store
    <2>2. name = l /\ IsActive(NewStatus)
      BY <1>1, <2>1 DEF WriteLumigo, Stored, NoLumigo, IsActive, Stores
    <2>3. pc = "statusReady"
      BY <1>6, <2>1, <2>2 DEF UpdateStatus, NewStatus, ClearError, SetError, SetActive, Updated,
                              IsActive, LumigoObject
    <2> QED  BY <2>1, <2>2, <2>3
  <1> QED
    BY <1>1, <1>3, <1>4, <1>5, <1>6
       DEF Next, Reconcile, Begin, AddFinalizer, DropFinalizer, Check, ListKind, FinishSweep,
           Attempt, Telemetry, Unmonitor, Monitor, ListReferences, User, ChangeSecret,
           CreateWorkload, TouchWorkload, RelabelWorkload, DeleteWorkload, Send, Failure,
           ApiFault, FileFault, Crash, SyncLumigoes, SyncWorkload, Restart, vars, store

(* A new Lumigo that asks for it turns active once every workload without  *)
(* the lumigo.auto-trace label is instrumented: injectLumigoInto-          *)
(* Resources passes every kind and every workload, if nothing makes it     *)
(* give up and cached workloads are up to date.                            *)
THEOREM CreationSweepIsComplete ==
    ASSUME Undisturbed, WorkloadCacheLags = FALSE
    PROVE  Spec => CreationSweepComplete
  <1>1. Init => CreationInv
    BY DEF Init, CreationInv, AfterSweep
  <1>2. TypeOK /\ CreationInv /\ [Next]_vars =>
            [\A l \in Lumigoes :
                WantsCreationSweep(lumigoes[l]) /\ IsActive(lumigoes'[l]) =>
                    \A w \in Workloads \ dirty :
                        Sweepable(w) => workloads[w] # [label |-> "none", inst |-> FALSE]]_vars
    <2> SUFFICES ASSUME TypeOK, CreationInv, [Next]_vars, NEW l \in Lumigoes,
                        WantsCreationSweep(lumigoes[l]), IsActive(lumigoes'[l]),
                        NEW w \in Workloads \ dirty, Sweepable(w)
                 PROVE  workloads[w] # [label |-> "none", inst |-> FALSE]
      OBVIOUS
    <2>1. ~IsActive(lumigoes[l])
      BY DEF WantsCreationSweep, JustCreated, IsActive
    <2>2. pc = "statusReady" /\ WantsCreationSweep(read)
      BY <2>1, TurnsActive
    <2> QED  BY <2>2 DEF CreationInv, AfterSweep, Covered
  <1>3. TypeOK /\ Faithful /\ CreationInv /\ [Next]_vars => CreationInv'
    BY CreationInvStep
  <1> QED
    BY <1>1, <1>2, <1>3, TypeCorrect, FaithfulHolds, PTL DEF Spec, CreationSweepComplete

-----------------------------------------------------------------------------
(***************************************************************************)
(* The collection of the namespace's events.                               *)
(***************************************************************************)

(* The namespaces file can be written, and the process does not stop       *)
(* between dropping the finalizer and writing it.                          *)
ReliableFile == {"file", "crash"} \cap AllowedFaults = {}

Live(o) == Exists(o) /\ o.fin /\ ~o.deleting

(* A Lumigo that is being deleted is in every later copy of it. *)
Precedes(s, t) ==
    \A l \in Lumigoes : s[l].deleting /\ t[l].uid = s[l].uid => t[l].deleting

StoredSane ==
    \A l \in Lumigoes : /\ lumigoes[l].uid <= creations
                        /\ lumigoes[l].fin \/ lumigoes[l].deleting => Exists(lumigoes[l])

(* A live Lumigo of the cache, now or later, still has its finalizer. *)
LiveKept(o, l) == Live(o) => lumigoes[l].uid = o.uid /\ lumigoes[l].fin

ViewsSane ==
    /\ \A i \in Views : \A l \in Lumigoes :
          /\ View(i)[l].uid <= creations
          /\ View(i)[l].deleting => Exists(View(i)[l])
          /\ LiveKept(View(i)[l], l)
    /\ \A i \in Views : Precedes(View(i), lumigoes)
    /\ \A i, j \in Views : i <= j => Precedes(View(i), View(j))

(* The Lumigo that a reconcile holds has its finalizer; the one that it    *)
(* removes is live in no copy.                                             *)
ReadKept ==
    /\ pc # "idle" => read.uid <= creations
    /\ pc \in Holding => lumigoes[name].uid = read.uid /\ lumigoes[name].fin
    /\ pc \in Removing =>
          /\ lumigoes[name].uid = read.uid => lumigoes[name].deleting
          /\ \A i \in Views : View(i)[name].uid = read.uid => View(i)[name].deleting

Collected == monitored => pc = "unmonitor" \/ \E l \in Lumigoes : lumigoes[l].fin

CollectionInv == StoredSane /\ ViewsSane /\ ReadKept /\ Collected

(* What is stored after a write. *)
LEMMA WriteStores ==
    ASSUME TypeOK, FinalizerInv, CollectionInv, NEW l \in Lumigoes, NEW o \in LumigoObject,
           WriteLumigo(l, o), New(l, o) \/ Kept(l, o) \/ Dropped(l, o)
    PROVE  /\ creations' \in Nat /\ creations <= creations'
           /\ \A m \in Lumigoes \ {l} : lumigoes'[m] = lumigoes[m]
           /\ StoredSane'
           /\ lumigoes'[l].uid \in {0, creations + 1, lumigoes[l].uid}
           /\ lumigoes'[l].uid = creations + 1 => ~lumigoes'[l].deleting
           /\ lumigoes'[l].uid = lumigoes[l].uid /\ lumigoes[l].deleting => lumigoes'[l].deleting
           /\ lumigoes[l].fin => \/ lumigoes'[l].uid = lumigoes[l].uid /\ lumigoes'[l].fin
                                 \/ Dropped(l, o)
  <1>1. /\ creations \in Nat /\ lumigoes[l] \in LumigoObject
        /\ \A m \in Lumigoes : lumigoes[m].uid \in Nat /\ lumigoes[m].uid <= creations
    BY ConstantsOK DEF TypeOK, StoreOK, Stores, CountsOK, ConstantsOK, LumigoObject,
                       CollectionInv, StoredSane
  <1> creations' \in Nat /\ creations <= creations'
    BY <1>1 DEF New, Kept, Dropped
  <1>2. /\ lumigoes'[l] = Stored(o)
        /\ \A m \in Lumigoes \ {l} : lumigoes'[m] = lumigoes[m]
    BY DEF WriteLumigo, TypeOK, StoreOK, Stores
  <1>3. Dropped(l, o) => Stored(o) = NoLumigo
    BY <1>1 DEF Dropped, Stored, FinalizerInv, ReadSound, Removing, StoreSound, SoundStores,
                SoundLumigo, LumigoObject
  <1>4. CASE Stored(o) = NoLumigo
    <2>1. Kept(l, o) => ~lumigoes[l].fin
      <3>1. Kept(l, o) => Exists(o)
        BY DEF Kept, Exists
      <3>2. Kept(l, o) => Stored(o) # o
        BY <1>4, <3>1 DEF Exists, NoLumigo
      <3> QED  BY <3>2 DEF Kept, Stored
    <2>2. ~New(l, o)
      BY <1>1, <1>4 DEF New, Stored, NoLumigo
    <2>3. lumigoes'[l].uid = 0 /\ ~lumigoes'[l].fin /\ ~lumigoes'[l].deleting
      BY <1>2, <1>4 DEF NoLumigo
    <2>4. lumigoes[l].deleting => lumigoes[l].uid # 0
      BY DEF CollectionInv, StoredSane, Exists
    <2>5. StoredSane'
      BY <1>1, <1>2, <2>3 DEF CollectionInv, StoredSane, Exists
    <2>6. lumigoes[l].fin => Dropped(l, o)
      BY <2>1, <2>2, <1>1 DEF CollectionInv, StoredSane
    <2> QED  BY <1>1, <1>2, <2>3, <2>4, <2>5, <2>6
  <1>5. CASE Stored(o) = o /\ New(l, o)
    <2>1. lumigoes'[l].uid = creations + 1 /\ ~lumigoes'[l].deleting /\ creations' = creations + 1
      BY <1>2, <1>5 DEF New
    <2>2. lumigoes[l].uid = 0 /\ ~lumigoes[l].fin /\ ~lumigoes[l].deleting
      BY <1>5 DEF New, Exists, CollectionInv, StoredSane
    <2>3. StoredSane'
      BY <1>1, <1>2, <2>1 DEF CollectionInv, StoredSane, Exists
    <2> QED  BY <1>1, <1>2, <2>1, <2>2, <2>3
  <1>6. CASE Stored(o) = o /\ Kept(l, o)
    <2>1. /\ lumigoes'[l].uid = lumigoes[l].uid /\ lumigoes'[l].uid # 0
          /\ lumigoes[l].deleting => lumigoes'[l].deleting
          /\ lumigoes[l].fin => lumigoes'[l].fin
      BY <1>2, <1>6 DEF Kept, Exists
    <2>2. StoredSane'
      BY <1>1, <1>2, <2>1 DEF CollectionInv, StoredSane, Exists
    <2> QED  BY <1>1, <1>2, <2>1, <2>2
  <1> QED  BY <1>3, <1>4, <1>5, <1>6 DEF Stored

(* What is written comes after every copy there is. *)
LEMMA WriteViews ==
    ASSUME TypeOK, FinalizerInv, CollectionInv, NEW l \in Lumigoes, NEW o \in LumigoObject,
           WriteLumigo(l, o), New(l, o) \/ Kept(l, o) \/ Dropped(l, o)
    PROVE  ViewsSane'
  <1>1. /\ creations \in Nat /\ creations' \in Nat /\ creations <= creations'
        /\ \A h \in Views : \A m \in Lumigoes : View(h)[m].uid \in Nat
        /\ \A m \in Lumigoes \ {l} : lumigoes'[m] = lumigoes[m]
    BY ViewType, WriteStores, ConstantsOK DEF TypeOK, CountsOK, ConstantsOK
  <1>2. ASSUME NEW h \in Views, Live(View(h)[l]), Dropped(l, o)
        PROVE  FALSE
    <2>1. View(h)[l].uid = read.uid /\ l = name /\ pc \in Removing
      BY <1>2 DEF Dropped, Removing, CollectionInv, ViewsSane, LiveKept
    <2> QED  BY <1>2, <2>1 DEF CollectionInv, ReadKept, Live
  <1>3. ASSUME NEW h \in Views
        PROVE  \A m \in Lumigoes : View(h)[m].deleting /\ lumigoes'[m].uid = View(h)[m].uid =>
                                       lumigoes'[m].deleting
    <2> SUFFICES ASSUME NEW m \in Lumigoes, View(h)[m].deleting, lumigoes'[m].uid = View(h)[m].uid
                 PROVE  lumigoes'[m].deleting
      OBVIOUS
    <2>1. View(h)[m].uid <= creations /\ View(h)[m].uid # 0
      BY DEF CollectionInv, ViewsSane, Exists
    <2>2. lumigoes[m].uid = View(h)[m].uid => lumigoes[m].deleting
      BY DEF CollectionInv, ViewsSane, Precedes
    <2> QED  BY <1>1, <2>1, <2>2, WriteStores
  <1>4. ASSUME NEW i \in Views'
        PROVE  View(i)' = lumigoes' \/ \E h \in Views : View(i)' = View(h)
    <2>1. i <= i
      BY DEF Views
    <2> QED  BY <2>1, ViewsAfterWrite DEF TypeOK
  <1>5. /\ \A m \in Lumigoes : lumigoes'[m].uid <= creations'
        /\ \A m \in Lumigoes : lumigoes'[m].deleting => Exists(lumigoes'[m])
    BY WriteStores DEF StoredSane, Exists
  <1>6. \A i \in Views' : \A m \in Lumigoes :
            /\ View(i)'[m].uid <= creations'
            /\ View(i)'[m].deleting => Exists(View(i)'[m])
            /\ Live(View(i)'[m]) => lumigoes'[m].uid = View(i)'[m].uid /\ lumigoes'[m].fin
    <2> SUFFICES ASSUME NEW i \in Views', NEW m \in Lumigoes
                 PROVE  /\ View(i)'[m].uid <= creations'
                        /\ View(i)'[m].deleting => Exists(View(i)'[m])
                        /\ Live(View(i)'[m]) => lumigoes'[m].uid = View(i)'[m].uid
                                                /\ lumigoes'[m].fin
      OBVIOUS
    <2>1. CASE View(i)' = lumigoes'
      BY <1>5, <2>1 DEF Live
    <2>2. ASSUME NEW h \in Views, View(i)' = View(h)
          PROVE  /\ View(i)'[m].uid <= creations'
                 /\ View(i)'[m].deleting => Exists(View(i)'[m])
                 /\ Live(View(i)'[m]) => lumigoes'[m].uid = View(i)'[m].uid /\ lumigoes'[m].fin
      <3>1. View(h)[m].uid <= creations /\ (View(h)[m].deleting => Exists(View(h)[m]))
        BY DEF CollectionInv, ViewsSane
      <3>2. Live(View(h)[m]) => lumigoes'[m].uid = View(h)[m].uid /\ lumigoes'[m].fin
        <4>1. LiveKept(View(h)[m], m) /\ (m = l \/ lumigoes'[m] = lumigoes[m])
          BY <1>1 DEF CollectionInv, ViewsSane
        <4> QED  BY <1>2, <4>1, WriteStores DEF LiveKept
      <3> QED  BY <1>1, <2>2, <3>1, <3>2
    <2> QED  BY <1>4, <2>1, <2>2
  <1>7. \A i \in Views' : \A m \in Lumigoes :
            View(i)'[m].deleting /\ lumigoes'[m].uid = View(i)'[m].uid => lumigoes'[m].deleting
    BY <1>3, <1>4
  <1>8. ASSUME NEW i \in Views', NEW j \in Views', i <= j
        PROVE  \A m \in Lumigoes : View(i)'[m].deleting /\ View(j)'[m].uid = View(i)'[m].uid =>
                                       View(j)'[m].deleting
    <2>1. CASE View(j)' = lumigoes'
      BY <1>7, <2>1
    <2>2. CASE \E h, k \in Views : h <= k /\ View(i)' = View(h) /\ View(j)' = View(k)
      BY <2>2 DEF CollectionInv, ViewsSane, Precedes
    <2> QED  BY <1>8, <2>1, <2>2, ViewsAfterWrite DEF TypeOK
  <1> QED  BY <1>6, <1>7, <1>8 DEF ViewsSane, LiveKept, Precedes

LEMMA SyncViews ==
    ASSUME TypeOK, CollectionInv, SyncLumigoes
    PROVE  ViewsSane' /\ \A i \in Views' : \E h \in Views : View(i)' = View(h)
  <1>1. ASSUME NEW i \in Views'
        PROVE  i \in Nat /\ i + 1 \in Views /\ View(i)' = View(i + 1)
    BY ViewsAfterSync DEF TypeOK
  <1>2. lumigoes' = lumigoes /\ creations' = creations
    BY DEF SyncLumigoes, counts
  <1>3. \A i \in Views' : \A m \in Lumigoes :
            /\ View(i)'[m].uid <= creations'
            /\ View(i)'[m].deleting => Exists(View(i)'[m])
            /\ Live(View(i)'[m]) => lumigoes'[m].uid = View(i)'[m].uid /\ lumigoes'[m].fin
    BY <1>1, <1>2 DEF CollectionInv, ViewsSane, LiveKept
  <1>4. \A i \in Views' : \A m \in Lumigoes :
            View(i)'[m].deleting /\ lumigoes'[m].uid = View(i)'[m].uid => lumigoes'[m].deleting
    BY <1>1, <1>2 DEF CollectionInv, ViewsSane, Precedes
  <1>5. ASSUME NEW i \in Views', NEW j \in Views', i <= j
        PROVE  \A m \in Lumigoes : View(i)'[m].deleting /\ View(j)'[m].uid = View(i)'[m].uid =>
                                       View(j)'[m].deleting
    <2>1. i + 1 <= j + 1 /\ i + 1 \in Views /\ j + 1 \in Views
      BY <1>1, <1>5
    <2> QED  BY <1>1, <2>1 DEF CollectionInv, ViewsSane, Precedes
  <1> QED  BY <1>1, <1>3, <1>4, <1>5 DEF ViewsSane, LiveKept, Precedes

LEMMA RestartViews ==
    ASSUME TypeOK, CollectionInv, Restart
    PROVE  ViewsSane' /\ \A i \in Views' : View(i)' = lumigoes
  <1>1. Views' = {0} /\ View(0)' = lumigoes /\ lumigoes' = lumigoes /\ creations' = creations
    BY DEF Restart, Views, View, counts
  <1>2. \A m \in Lumigoes : /\ lumigoes'[m].uid <= creations'
                            /\ lumigoes'[m].deleting => Exists(lumigoes'[m])
    BY <1>1 DEF CollectionInv, StoredSane
  <1>3. \A i \in Views' : i = 0 /\ View(i)' = lumigoes'
    BY <1>1
  <1> QED  BY <1>1, <1>2, <1>3 DEF ViewsSane, LiveKept, Live, Precedes, CollectionInv, StoredSane

LEMMA MovesKeepGroups ==
    ASSUME MovesOn
    PROVE  /\ pc' # "idle" => pc # "idle" /\ read' = read /\ name' = name
           /\ pc' \in Holding => pc \in Holding
           /\ pc' \in Removing => pc \in Removing
  BY DEF MovesOn, Move, Holding, Removing

LEMMA BeginReads ==
    ASSUME TypeOK, FinalizerInv, CollectionInv, NEW l \in Lumigoes, Begin(l)
    PROVE  ReadKept'
  <1>1. /\ View(0) = cache /\ 0 \in Views /\ Views' = Views /\ \A i \in Views : View(i)' = View(i)
        /\ lumigoes' = lumigoes /\ creations' = creations
        /\ name' = l /\ read' = cache[l] /\ Exists(cache[l]) /\ pc' = AfterRead(cache[l])
    BY DEF Begin, Views, View, store, counts, TypeOK, StoreOK
  <1>2. SoundLumigo(cache[l]) /\ cache[l] \in LumigoObject
    BY DEF FinalizerInv, StoreSound, SoundStores, Stores
  <1>3. cache[l].uid <= creations
    BY <1>1 DEF CollectionInv, ViewsSane
  <1>4. pc' \in Holding => Live(cache[l])
    BY <1>1, <1>2 DEF AfterRead, Holding, SoundLumigo, Live, LumigoObject
  <1>5. pc' \in Holding => lumigoes[l].uid = cache[l].uid /\ lumigoes[l].fin
    BY <1>1, <1>4 DEF CollectionInv, ViewsSane, LiveKept
  <1>6. pc' \in Removing => cache[l].deleting
    BY <1>1 DEF AfterRead, Removing
  <1>7. ASSUME cache[l].deleting
        PROVE  /\ lumigoes[l].uid = cache[l].uid => lumigoes[l].deleting
               /\ \A i \in Views : View(i)[l].uid = cache[l].uid => View(i)[l].deleting
    <2>1. \A i \in Views : 0 <= i
      BY DEF Views
    <2> QED  BY <1>1, <1>7, <2>1 DEF CollectionInv, ViewsSane, Precedes
  <1> QED  BY <1>1, <1>3, <1>5, <1>6, <1>7 DEF ReadKept

(* The reconcile moves on while a Lumigo is written, perhaps its own. *)
LEMMA WriteReads ==
    ASSUME TypeOK, FinalizerInv, CollectionInv, MovesOn, NEW l \in Lumigoes, NEW o \in LumigoObject,
           WriteLumigo(l, o), New(l, o) \/ Kept(l, o) \/ Dropped(l, o)
    PROVE  ReadKept'
  <1>1. creations \in Nat /\ creations' \in Nat /\ creations <= creations' /\ read.uid \in Nat
    BY WriteStores, ConstantsOK DEF TypeOK, CountsOK, ConstantsOK, ProgressOK, LumigoObject
  <1>2. pc' # "idle" => /\ pc # "idle" /\ read' = read /\ name' = name
                        /\ read.uid # 0 /\ read.uid <= creations
    BY MovesKeepGroups DEF FinalizerInv, ReadSound, Exists, CollectionInv, ReadKept
  <1>3. pc' # "idle" => read'.uid <= creations'
    BY <1>1, <1>2
  <1>4. ASSUME pc' \in Holding
        PROVE  lumigoes'[name].uid = read.uid /\ lumigoes'[name].fin
    <2>1. pc \in Holding /\ ~Dropped(l, o) /\ pc # "idle" /\ name \in Lumigoes
      BY <1>4, MovesKeepGroups DEF Holding, Dropped, TypeOK, ProgressOK
    <2>2. lumigoes[name].uid = read.uid /\ lumigoes[name].fin
      BY <2>1 DEF CollectionInv, ReadKept
    <2> QED  BY <2>1, <2>2, WriteStores
  <1>5. ASSUME pc' \in Removing
        PROVE  /\ lumigoes'[name].uid = read.uid => lumigoes'[name].deleting
               /\ \A i \in Views' : View(i)'[name].uid = read.uid => View(i)'[name].deleting
    <2>1. pc \in Removing /\ pc # "idle" /\ pc' # "idle" /\ name \in Lumigoes
      BY <1>5, MovesKeepGroups DEF Removing, TypeOK, ProgressOK
    <2>2. lumigoes[name].uid = read.uid => lumigoes[name].deleting
      BY <2>1 DEF CollectionInv, ReadKept
    <2>3. lumigoes'[name].uid = read.uid => lumigoes'[name].deleting
      <3>1. CASE name = l
        BY <1>1, <1>2, <2>1, <2>2, <3>1, WriteStores
      <3>2. CASE name # l
        BY <2>1, <2>2, <3>2, WriteStores
      <3> QED  BY <3>1, <3>2
    <2>4. ASSUME NEW i \in Views'
          PROVE  View(i)' = lumigoes' \/ \E h \in Views : View(i)' = View(h)
      <3>1. i <= i
        BY DEF Views
      <3> QED  BY <3>1, ViewsAfterWrite DEF TypeOK
    <2> QED  BY <2>1, <2>3, <2>4 DEF CollectionInv, ReadKept
  <1>6. "idle" \notin Holding /\ "idle" \notin Removing
    BY DEF Holding, Removing
  <1> QED  BY <1>2, <1>3, <1>4, <1>5, <1>6 DEF ReadKept

LEMMA FinalizerReads ==
    ASSUME TypeOK, FinalizerInv, CollectionInv, AddFinalizer \/ DropFinalizer
    PROVE  ReadKept'
  <1>1. name \in Lumigoes /\ read \in LumigoObject /\ read.uid <= creations /\ creations' = creations
    BY DEF AddFinalizer, DropFinalizer, UpdateFinalizer, TypeOK, ProgressOK, CollectionInv,
           ReadKept, counts
  <1>2. CASE pc' = "idle"
    BY <1>2 DEF ReadKept, Holding, Removing
  <1>3. CASE /\ AddFinalizer /\ pc' = "check" /\ name' = name
             /\ read' = [read EXCEPT !.fin = TRUE] /\ WriteLumigo(name, read')
    <2>1. read'.uid = read.uid /\ read'.fin
      BY <1>1, <1>3 DEF LumigoObject
    <2>2. lumigoes'[name] = read'
      BY <1>1, <1>3, <2>1 DEF WriteLumigo, Stored, TypeOK, StoreOK, Stores
    <2> QED  BY <1>1, <1>3, <2>1, <2>2 DEF ReadKept, Removing
  <1>4. CASE /\ DropFinalizer /\ pc' = "unmonitor" /\ read' = [read EXCEPT !.fin = FALSE]
    <2>1. read'.uid = read.uid
      BY <1>1, <1>4 DEF LumigoObject
    <2> QED  BY <1>1, <1>4, <2>1 DEF ReadKept, Holding, Removing
  <1> QED
    BY <1>2, <1>3, <1>4 DEF AddFinalizer, DropFinalizer, UpdateFinalizer, Goto, Return

LEMMA CollectedStep ==
    ASSUME TypeOK, FinalizerInv, ReliableFile, NoForeground, CollectionInv, [Next]_vars
    PROVE  Collected'
  <1> SUFFICES ASSUME monitored', pc' # "unmonitor"
               PROVE  \E l \in Lumigoes : lumigoes'[l].fin
    BY DEF Collected
  <1>1. CASE Telemetry
    <2>1. name \in Lumigoes /\ lumigoes'[name].fin
      BY <1>1 DEF Telemetry, Monitor, store, Holding, TypeOK, ProgressOK, CollectionInv, ReadKept
    <2> QED  BY <2>1
  <1>2. CASE Unmonitor
    BY <1>2 DEF Unmonitor, Monitor
  <1>3. CASE monitored /\ pc # "unmonitor"
    <2>1. PICK k \in Lumigoes : lumigoes[k].fin
      BY <1>3 DEF CollectionInv, Collected
    <2>2. CASE Writes
      <3>1. PICK l \in Lumigoes, o \in LumigoObject :
                WriteLumigo(l, o) /\ (New(l, o) \/ Kept(l, o) \/ Dropped(l, o))
        BY <2>2 DEF Writes
      <3>2. ~Dropped(l, o)
        BY DEF Dropped
      <3>3. lumigoes'[k].fin
        BY <2>1, <3>1, <3>2, WriteStores
      <3> QED  BY <3>3
    <2>3. CASE UNCHANGED lumigoes
      BY <2>1, <2>3
    <2> QED  BY <2>2, <2>3, StepWrites DEF store, SyncLumigoes, Crash, Restart
  <1>4. CASE UNCHANGED <<monitored, pc>>
    BY <1>3, <1>4
  <1>5. CASE FileFault \/ Crash
    BY <1>5 DEF FileFault, Crash, Fault, ReliableFile
  <1> QED
    BY <1>1, <1>2, <1>3, <1>4, <1>5
       DEF Next, Reconcile, Begin, AddFinalizer, DropFinalizer, UpdateFinalizer, Check, ListKind,
           FinishSweep, Attempt, ListReferences, UpdateStatus, User, CreateLumigo, DeleteLumigo,
           EditSpec, ChangeSecret, CreateWorkload, TouchWorkload, RelabelWorkload, DeleteWorkload,
           Send, Edit, Failure, ApiFault, SyncLumigoes, SyncWorkload, EndForeground, Restart,
           outside, progress, vars

LEMMA CreationsGrow ==
    ASSUME TypeOK, [Next]_vars
    PROVE  creations \in Nat /\ creations' \in Nat /\ creations <= creations'
  <1>1. creations \in Nat
    BY ConstantsOK DEF TypeOK, CountsOK, ConstantsOK
  <1>2. creations' = creations \/ creations' = creations + 1
    BY DEF Next, Reconcile, Begin, AddFinalizer, DropFinalizer, UpdateFinalizer, Check, ListKind,
           FinishSweep, Attempt, Telemetry, Unmonitor, Monitor, ListReferences, UpdateStatus,
           User, CreateLumigo, DeleteLumigo, EditSpec, ChangeSecret, CreateWorkload,
           TouchWorkload, RelabelWorkload, DeleteWorkload, Edit, Failure, ApiFault, FileFault,
           Crash, Fault, SyncLumigoes, SyncWorkload, EndForeground, Restart, counts, vars
  <1> QED  BY <1>1, <1>2

(* A reconcile moves on while nothing is written; the views may become     *)
(* fewer.                                                                  *)
LEMMA MoveReads ==
    ASSUME TypeOK, CollectionInv, FinalizerInv, [Next]_vars, MovesOn, UNCHANGED lumigoes,
           \A i \in Views' : \E h \in Views : View(i)' = View(h)
    PROVE  ReadKept'
  <1>1. pc' # "idle" => pc # "idle" /\ read' = read /\ name' = name /\ read.uid <= creations
    BY MovesKeepGroups DEF CollectionInv, ReadKept
  <1>2. pc # "idle" => read.uid \in Nat
    BY DEF TypeOK, ProgressOK, LumigoObject
  <1>3. pc' # "idle" => read'.uid <= creations'
    BY <1>1, <1>2, CreationsGrow
  <1>4. "idle" \notin Holding /\ "idle" \notin Removing
    BY DEF Holding, Removing
  <1> QED  BY <1>1, <1>3, <1>4, MovesKeepGroups DEF CollectionInv, ReadKept

LEMMA CollectionInvStep ==
    ASSUME TypeOK, FinalizerInv, ReliableFile, NoForeground, CollectionInv, [Next]_vars
    PROVE  CollectionInv'
  <1>1. Collected'
    BY CollectedStep
  <1>2. ASSUME AddFinalizer \/ DropFinalizer \/ \E l \in Lumigoes : Begin(l)
        PROVE  ReadKept'
    BY <1>2, FinalizerReads, BeginReads
  <1>3. CASE UNCHANGED lumigoes
    <2>1. StoredSane'
      <3>1. \A l \in Lumigoes : lumigoes[l].uid \in Nat
        BY DEF TypeOK, StoreOK, Stores, LumigoObject
      <3> QED  BY <1>3, <3>1, CreationsGrow DEF CollectionInv, StoredSane
    <2>2. CASE UNCHANGED store
      <3>1. Views' = Views /\ \A i \in Views : View(i)' = View(i)
        BY <2>2 DEF Views, View, store
      <3>2. \A i \in Views : \A l \in Lumigoes : View(i)[l].uid \in Nat
        BY ViewType DEF TypeOK
      <3>3. \A i \in Views' : \A l \in Lumigoes :
                /\ View(i)'[l].uid <= creations'
                /\ View(i)'[l].deleting => Exists(View(i)'[l])
                /\ Live(View(i)'[l]) => lumigoes'[l].uid = View(i)'[l].uid /\ lumigoes'[l].fin
        BY <1>3, <3>1, <3>2, CreationsGrow DEF CollectionInv, ViewsSane, LiveKept
      <3>4. \A i \in Views' : \A l \in Lumigoes :
                View(i)'[l].deleting /\ lumigoes'[l].uid = View(i)'[l].uid => lumigoes'[l].deleting
        BY <1>3, <3>1 DEF CollectionInv, ViewsSane, Precedes
      <3>5. \A i, j \in Views' : i <= j => \A l \in Lumigoes :
                View(i)'[l].deleting /\ View(j)'[l].uid = View(i)'[l].uid => View(j)'[l].deleting
        BY <3>1 DEF CollectionInv, ViewsSane, Precedes
      <3>6. ViewsSane'
        BY <3>3, <3>4, <3>5 DEF ViewsSane, LiveKept, Precedes
      <3>7. ReadKept'
        BY <1>2, <1>3, <3>1, StepMoves, MoveReads
      <3> QED  BY <1>1, <2>1, <3>6, <3>7 DEF CollectionInv
    <2>3. CASE SyncLumigoes
      <3>1. MovesOn
        BY <2>3 DEF SyncLumigoes, progress, MovesOn, Move
      <3> QED  BY <1>1, <1>3, <2>1, <2>3, <3>1, SyncViews, MoveReads DEF CollectionInv
    <2>4. CASE Restart
      <3>1. pc' = "idle"
        BY <2>4 DEF Restart, progress, TypeOK, ProgressOK
      <3>2. ReadKept'
        BY <3>1 DEF ReadKept, Holding, Removing
      <3> QED  BY <1>1, <2>1, <2>4, <3>2, RestartViews DEF CollectionInv
    <2>5. ~Crash
      BY DEF Crash, Fault, ReliableFile
    <2>6. CASE Writes
      <3>1. PICK l \in Lumigoes, o \in LumigoObject :
                WriteLumigo(l, o) /\ (New(l, o) \/ Kept(l, o) \/ Dropped(l, o))
        BY <2>6 DEF Writes
      <3>2. UNCHANGED store
        BY <1>3, <3>1 DEF WriteLumigo, store
      <3> QED  BY <2>2, <3>2
    <2> QED  BY <2>2, <2>3, <2>4, <2>5, <2>6, StepWrites
  <1>4. CASE Writes
    <2>1. PICK l \in Lumigoes, o \in LumigoObject :
              WriteLumigo(l, o) /\ (New(l, o) \/ Kept(l, o) \/ Dropped(l, o))
      BY <1>4 DEF Writes
    <2>2. StoredSane' /\ ViewsSane'
      BY <2>1, WriteStores, WriteViews
    <2>3. ReadKept'
      BY <1>2, <2>1, StepMoves, WriteReads
    <2> QED  BY <1>1, <2>2, <2>3 DEF CollectionInv
  <1> QED
    BY <1>3, <1>4, StepWrites DEF store, SyncLumigoes, Restart, Crash

(* The namespaces file names the namespace only while a Lumigo with its    *)
(* finalizer is there, or until the reconcile that dropped the finalizer   *)
(* takes it out: an out-of-date copy never lets a later reconcile add it   *)
(* again.  This takes a file that can be written and a process that does   *)
(* not stop in between.                                                    *)
THEOREM CollectionHasLumigo ==
    ASSUME ReliableFile, NoForeground
    PROVE  Spec => []MonitoredHasLumigo
  <1>1. Init => CollectionInv
    <2> SUFFICES ASSUME Init PROVE CollectionInv
      OBVIOUS
    <2>1. /\ Views = {0} /\ View(0) = lumigoes
          /\ \A l \in Lumigoes : lumigoes[l] = NoLumigo
      BY DEF Init, Views, View
    <2>2. NoLumigo.uid = 0 /\ ~NoLumigo.deleting /\ ~NoLumigo.fin /\ 0 <= creations
      BY DEF NoLumigo, Init
    <2>3. StoredSane
      BY <2>1, <2>2 DEF StoredSane
    <2>4. \A i \in Views : i = 0 /\ View(i) = lumigoes
      BY <2>1
    <2>5. ViewsSane
      BY <2>1, <2>2, <2>4 DEF ViewsSane, LiveKept, Live, Precedes
    <2> QED  BY <2>3, <2>5 DEF Init, CollectionInv, ReadKept, Holding, Removing, Collected
  <1>2. TypeOK /\ FinalizerInv /\ CollectionInv /\ [Next]_vars => CollectionInv'
    BY CollectionInvStep
  <1>3. CollectionInv => MonitoredHasLumigo
    BY DEF CollectionInv, Collected, StoredSane, MonitoredHasLumigo
  <1> QED
    BY <1>1, <1>2, <1>3, TypeCorrect, FinalizerInvHolds, PTL DEF Spec

-----------------------------------------------------------------------------
(***************************************************************************)
(* A Lumigo that is being deleted is not brought back.                     *)
(***************************************************************************)

(* The Lumigo that a reconcile approves was not being deleted. *)
ApprovedLive == pc \in Holding => ~read.deleting

LEMMA ApprovedLiveStep ==
    ASSUME TypeOK, FinalizerInv, ApprovedLive, [Next]_vars
    PROVE  ApprovedLive'
  <1>1. CASE MovesOn
    BY <1>1 DEF MovesOn, Move, ApprovedLive, Holding
  <1>2. ASSUME NEW l \in Lumigoes, Begin(l)
        PROVE  ApprovedLive'
    <2>1. SoundLumigo(cache[l]) /\ cache[l] \in LumigoObject
      BY DEF FinalizerInv, StoreSound, SoundStores, Stores
    <2> QED
      BY <1>2, <2>1 DEF Begin, AfterRead, SoundLumigo, ApprovedLive, Holding, LumigoObject
  <1>3. CASE AddFinalizer \/ DropFinalizer
    <2>1. CASE AddFinalizer /\ read' = [read EXCEPT !.fin = TRUE]
      <3>1. read \in LumigoObject /\ ~read.deleting
        BY <2>1 DEF AddFinalizer, TypeOK, ProgressOK, FinalizerInv, ReadSound
      <3> QED  BY <2>1, <3>1 DEF ApprovedLive, LumigoObject
    <2>2. CASE pc' \notin Holding
      BY <2>2 DEF ApprovedLive
    <2> QED
      BY <1>3, <2>1, <2>2
         DEF AddFinalizer, DropFinalizer, UpdateFinalizer, Goto, Return, Holding
  <1> QED  BY <1>1, <1>2, <1>3, StepMoves

(* However stale the copy that a reconcile started from: its last write,   *)
(* updateStatusIfNeeded, does not make a Lumigo active that has been       *)
(* deleted meanwhile and was not active, unless it is deleted in the       *)
(* foreground.                                                             *)
THEOREM DeletionIsFinal ==
    ASSUME NoForeground
    PROVE  Spec => NoReactivation
  <1>1. Init => ApprovedLive
    BY DEF Init, ApprovedLive, Holding
  <1>2. TypeOK /\ FinalizerInv /\ ApprovedLive /\ [Next]_vars => ApprovedLive'
    BY ApprovedLiveStep
  <1>3. TypeOK /\ ApprovedLive /\ [Next]_vars =>
            [\A l \in Lumigoes :
                /\ lumigoes[l].deleting /\ ~IsActive(lumigoes[l])
                /\ lumigoes'[l].uid = lumigoes[l].uid
                => ~IsActive(lumigoes'[l])]_vars
    BY TurnsActive DEF ApprovedLive, Holding
  <1> QED
    BY <1>1, <1>2, <1>3, TypeCorrect, FinalizerInvHolds, PTL DEF Spec, NoReactivation

-----------------------------------------------------------------------------
(***************************************************************************)
(* A reconcile comes to its end.                                           *)
(***************************************************************************)

Place == <<pc, phase, todo, attempt>>

LEMMA ReturnAhead == ASSUME Return PROVE Ahead
  BY DEF Return, Ahead

LEMMA GiveUpAhead == ASSUME GiveUp PROVE Ahead
  BY ReturnAhead DEF GiveUp, Ahead, Rank

LEMMA FailedAttemptAhead ==
    ASSUME TypeOK, FailedAttempt
    PROVE  Ahead
  <1>1. attempt \in Nat /\ MaxAttempts \in Nat
    BY ConstantsOK DEF TypeOK, SweepOK, ConstantsOK
  <1>2. CASE AttemptsLeft(attempt)
    BY <1>1, <1>2 DEF FailedAttempt, AttemptsLeft, Ahead
  <1> QED  BY <1>2, GiveUpAhead DEF FailedAttempt

LEMMA AttemptAhead ==
    ASSUME TypeOK, Attempt
    PROVE  Ahead
  <1>1. CASE FailedAttempt
    BY <1>1, FailedAttemptAhead
  <1>2. CASE ~FailedAttempt
    <2>1. todo' = todo \ {Item} /\ UNCHANGED <<pc, phase>> /\ todo # {}
      BY <1>2 DEF Attempt
    <2>2. Item \in todo
      BY <2>1, ItemLeft
    <2> QED  BY <2>1, <2>2 DEF Ahead
  <1> QED  BY <1>1, <1>2

LEMMA ReconcileAhead ==
    ASSUME TypeOK, pc # "idle", Reconcile
    PROVE  Ahead
  <1>1. CASE AddFinalizer
    BY <1>1, ReturnAhead DEF AddFinalizer, UpdateFinalizer, Goto, Ahead, Rank
  <1>2. CASE DropFinalizer
    BY <1>2, ReturnAhead DEF DropFinalizer, UpdateFinalizer, Goto, Ahead, Rank
  <1>3. CASE Check
    BY <1>3 DEF Check, Goto, Ahead, Rank
  <1>4. CASE ListKind
    <2>1. PICK p \in Later : phase' = p /\ pc' = pc
      BY <1>4 DEF ListKind
    <2>2. p \in 1..5 /\ p > phase /\ phase \in 0..5
      BY DEF Later, Phases, TypeOK, SweepOK
    <2> QED  BY <2>1, <2>2 DEF Ahead
  <1>5. CASE FinishSweep
    BY <1>5 DEF FinishSweep, SweepDone, Ahead, Rank
  <1>6. CASE Attempt
    BY <1>6, AttemptAhead
  <1>7. CASE Telemetry \/ Unmonitor \/ ListReferences
    BY <1>7 DEF Telemetry, Unmonitor, ListReferences, Monitor, Goto, Ahead, Rank
  <1>8. CASE UpdateStatus
    BY <1>8, ReturnAhead DEF UpdateStatus
  <1> QED
    BY <1>1, <1>2, <1>3, <1>4, <1>5, <1>6, <1>7, <1>8 DEF Reconcile, Begin

LEMMA StepAhead ==
    ASSUME TypeOK, pc # "idle", [Next]_vars
    PROVE  Ahead \/ UNCHANGED Place
  <1>1. CASE Reconcile
    BY <1>1, ReconcileAhead
  <1>2. CASE Failure
    <2>1. CASE ApiFault
      BY <2>1, ReturnAhead, GiveUpAhead, FailedAttemptAhead DEF ApiFault
    <2>2. CASE FileFault
      BY <2>2 DEF FileFault, Goto, Ahead, Rank
    <2> QED  BY <1>2, <2>1, <2>2, ReturnAhead DEF Failure, Crash
  <1>3. CASE UNCHANGED progress
    BY <1>3 DEF progress, sweep, Place
  <1> QED
    BY <1>1, <1>2, <1>3
       DEF Next, SyncLumigoes, SyncWorkload, EndForeground, User, CreateLumigo, DeleteLumigo,
           EditSpec, ChangeSecret, Edit, CreateWorkload, TouchWorkload, RelabelWorkload,
           DeleteWorkload, Restart, vars

(* Neither rejected updates nor failing requests nor the workloads that    *)
(* others create meanwhile keep a reconcile going: what is left of it      *)
(* shrinks with each of its steps, and nothing else makes it grow.         *)
THEOREM ReconcileEnds == Spec => ReconcileGoesAhead
  <1>1. TypeOK /\ [Next]_vars =>
          [(pc # "idle") => /\ Reconcile => Ahead
                            /\ Ahead \/ UNCHANGED <<pc, phase, todo, attempt>> ]_vars
    BY ReconcileAhead, StepAhead DEF Place
  <1> QED  BY <1>1, TypeCorrect, PTL DEF Spec, ReconcileGoesAhead

-----------------------------------------------------------------------------
(***************************************************************************)
(* What has settled stays settled.                                         *)
(***************************************************************************)

(* With an up-to-date cache, only the oldest Lumigo comes first. *)
LEMMA FirstIsOldest ==
    ASSUME DistinctSeconds, TypeOK, OldestGoverns, cache = lumigoes, NEW l \in Lumigoes, Oldest(l),
           NEW f \in First
    PROVE  f.uid = lumigoes[l].uid
  <1>1. PICK k \in Cached : /\ f = lumigoes[k]
                            /\ \A m \in Cached : Second[lumigoes[k].uid] <= Second[lumigoes[m].uid]
    BY DEF First
  <1>2. k \in Lumigoes /\ l \in Cached /\ Exists(lumigoes[k]) /\ Exists(lumigoes[l])
    BY <1>1 DEF Cached, Oldest
  <1>3. \A m \in {k, l} : lumigoes[m].uid \in 1..MaxCreations
    <2>1. /\ \A m \in Lumigoes : lumigoes[m].uid \in Nat /\ lumigoes[m].uid <= creations
          /\ creations \in 0..MaxCreations /\ MaxCreations \in Nat
      BY ConstantsOK DEF ConstantsOK, TypeOK, StoreOK, Stores, LumigoObject, CountsOK, OldestGoverns,
         UidsOK
    <2> QED  BY <1>2, <2>1 DEF Exists
  <1>4. lumigoes[l].uid <= lumigoes[k].uid /\ Second[lumigoes[k].uid] <= Second[lumigoes[l].uid]
    BY <1>1, <1>2 DEF Oldest
  <1>5. Second[lumigoes[k].uid] \in Nat /\ Second[lumigoes[l].uid] \in Nat
    BY <1>3, ConstantsOK DEF ConstantsOK
  <1>6. lumigoes[l].uid < lumigoes[k].uid => FALSE
    BY <1>3, <1>4, <1>5 DEF DistinctSeconds
  <1> QED  BY <1>1, <1>3, <1>4, <1>6

Still == UNCHANGED <<up, store, workloads, secretValid, monitored>>

LEMMA CalmKept ==
    ASSUME Calm, Still, pc' # "idle" => CalmReconcile'
    PROVE  Calm' /\ UNCHANGED <<lumigoes, workloads, monitored>>
  <1>1. UNCHANGED <<up, lumigoes, cache, undelivered, workloads, secretValid, monitored>>
    BY DEF Still, store
  <1> QED  BY <1>1 DEF Calm, CalmStore, Settled, Oldest

(* The status is written once more as it is. *)
LEMMA CalmStatus ==
    ASSUME TypeOK, Calm, UpdateStatus
    PROVE  UNCHANGED store
  <1>1. /\ name \in Lumigoes /\ read \in LumigoObject /\ read = lumigoes[name] /\ Exists(read)
        /\ lumigoes \in Stores
    BY DEF UpdateStatus, TypeOK, ProgressOK, StoreOK, Calm, CalmReconcile
  <1>2. Settled(name) /\ ~read.deleting
    BY <1>1 DEF Calm, CalmStore
  <1>3. read.active \in ConditionStatus /\ read.error \in ConditionStatus
    BY <1>1 DEF LumigoObject
  <1>4. CASE pc = "statusReady"
    <2>1. read.active = "True" /\ read.error # "True" /\ found = read.refs
      BY <1>1, <1>2, <1>4 DEF UpdateStatus, Calm, CalmReconcile, Settled, IsActive
    <2>2. NewStatus = [read EXCEPT !.active = "True", !.error = read.error, !.refs = read.refs]
      BY <1>1, <1>3, <1>4, <2>1
         DEF NewStatus, ClearError, SetActive, Updated, ConditionStatus, LumigoObject
    <2>3. NewStatus = read
      BY <1>1, <2>1, <2>2 DEF LumigoObject
    <2> QED  BY <1>1, <1>2, <2>3 DEF UpdateStatus, WriteLumigo, Stored, Stores, store
  <1>5. CASE pc = "statusError"
    <2>1. read.active # "True" /\ read.error = "True"
      BY <1>1, <1>2, <1>5 DEF UpdateStatus, Calm, CalmReconcile, Settled, IsActive
    <2>2. NewStatus = [read EXCEPT !.active = read.active, !.error = "True"]
      BY <1>1, <1>3, <1>5, <2>1
         DEF NewStatus, SetError, SetActive, Updated, ConditionStatus, LumigoObject
    <2>3. NewStatus = read
      BY <1>1, <2>1, <2>2 DEF LumigoObject
    <2> QED  BY <1>1, <1>2, <2>3 DEF UpdateStatus, WriteLumigo, Stored, Stores, store
  <1> QED  BY <1>4, <1>5 DEF UpdateStatus, Calm, CalmReconcile

LEMMA CalmReconciles ==
    ASSUME DistinctSeconds, TypeOK, OldestGoverns, Calm, Reconcile
    PROVE  Still /\ (pc' # "idle" => CalmReconcile')
  <1>1. ASSUME NEW l \in Lumigoes, Begin(l) PROVE Still /\ CalmReconcile'
    <2>1. /\ cache[l] = lumigoes[l] /\ Exists(lumigoes[l]) /\ lumigoes[l].fin
          /\ ~lumigoes[l].deleting /\ lumigoes[l] \in LumigoObject
      BY <1>1 DEF Begin, Calm, CalmStore, TypeOK, StoreOK, Stores
    <2>2. pc' = "check" /\ name' = l /\ read' = lumigoes[l]
      BY <1>1, <2>1 DEF Begin, AfterRead
    <2>3. Still /\ lumigoes' = lumigoes
      BY <1>1 DEF Begin, Still, work, outside, store
    <2> QED  BY <2>1, <2>2, <2>3 DEF CalmReconcile
  <1>2. CASE pc # "idle"
    <2>1. /\ CalmReconcile /\ name \in Lumigoes /\ read = lumigoes[name] /\ Exists(read)
          /\ Settled(name) /\ cache = lumigoes
      BY <1>2 DEF TypeOK, ProgressOK, Calm, CalmStore, CalmReconcile
    <2>2. CASE Check
      <3>1. Still /\ UNCHANGED <<lumigoes, read, name, secretValid>>
        BY <2>2 DEF Check, Still, outside, Goto, store
      <3>2. ~(Oldest(name) /\ secretValid) => pc' = "statusError"
        BY <2>1, <2>2, PassedIsOldest DEF Check, Goto
      <3>3. Oldest(name) /\ secretValid => pc' = "telemetry"
        <4> SUFFICES ASSUME Oldest(name), secretValid PROVE pc' = "telemetry"
          OBVIOUS
        <4>1. ~WantsCreationSweep(read)
          BY <2>1 DEF Settled, WantsCreationSweep, JustCreated, IsActive
        <4>2. \A f \in First : f.uid = read.uid
          BY <2>1, FirstIsOldest
        <4> QED  BY <2>2, <4>1, <4>2 DEF Check, Goto
      <3> QED  BY <2>1, <3>1, <3>2, <3>3 DEF CalmReconcile, Oldest
    <2>3. CASE Telemetry
      <3>1. Oldest(name) /\ secretValid
        BY <2>1, <2>3 DEF Telemetry, CalmReconcile
      <3>2. monitored' = monitored
        BY <2>1, <2>3, <3>1 DEF Telemetry, Monitor, Settled
      <3>3. Still /\ UNCHANGED <<lumigoes, read, name, secretValid>> /\ pc' = "listReferences"
        BY <2>3, <3>2 DEF Telemetry, Monitor, Goto, Still, store
      <3> QED  BY <2>1, <3>1, <3>3 DEF CalmReconcile, Oldest
    <2>4. CASE ListReferences
      <3>1. Oldest(name) /\ secretValid
        BY <2>1, <2>4 DEF ListReferences, CalmReconcile
      <3>2. found' = read.refs
        BY <2>1, <2>4, <3>1 DEF ListReferences, Settled
      <3>3. Still /\ UNCHANGED <<lumigoes, read, name, secretValid>> /\ pc' = "statusReady"
        BY <2>4 DEF ListReferences, Still, work, outside, store
      <3> QED  BY <2>1, <3>1, <3>2, <3>3 DEF CalmReconcile, Oldest
    <2>5. CASE UpdateStatus
      BY <2>5, CalmStatus DEF UpdateStatus, Return, Still, outside
    <2>6. pc \in {"check", "telemetry", "listReferences", "statusReady", "statusError"}
      BY <2>1 DEF CalmReconcile
    <2> QED
      BY <1>2, <2>2, <2>3, <2>4, <2>5, <2>6
         DEF Reconcile, Begin, AddFinalizer, DropFinalizer, ListKind, FinishSweep, Attempt, Unmonitor
  <1> QED
    BY <1>1, <1>2
       DEF Reconcile, AddFinalizer, DropFinalizer, Check, ListKind, FinishSweep, Attempt, Telemetry,
           Unmonitor, ListReferences, UpdateStatus

LEMMA CalmStep ==
    ASSUME DistinctSeconds, TypeOK, OldestGoverns, Calm, [Next]_vars, ~User, ~Failure
    PROVE  Calm' /\ UNCHANGED <<lumigoes, workloads, monitored>>
  <1>1. CASE Reconcile
    BY <1>1, CalmReconciles, CalmKept
  <1>2. CASE (\E w \in Workloads : SyncWorkload(w)) \/ UNCHANGED vars
    <2>1. Still /\ UNCHANGED <<pc, name, read, found, lumigoes, secretValid>>
      BY <1>2 DEF SyncWorkload, vars, work, outside, progress, Still, store
    <2>2. pc' # "idle" => CalmReconcile'
      BY <2>1 DEF Calm, CalmReconcile, Oldest
    <2> QED  BY <2>1, <2>2, CalmKept
  <1>3. ~SyncLumigoes /\ ~Restart /\ \A l \in Lumigoes : ~EndForeground(l)
    BY DEF Calm, CalmStore, SyncLumigoes, Restart, EndForeground
  <1> QED  BY <1>1, <1>2, <1>3 DEF Next

(* The requeues of Reconcile do not make a settled namespace flap: with    *)
(* creation times that tell Lumigoes apart, reconciling every Lumigo again *)
(* changes nothing the API server or the namespaces file holds.            *)
THEOREM CalmIsStable ==
    ASSUME DistinctSeconds
    PROVE  Spec => CalmStays
  <1>1. Init => TypeOK /\ OldestGoverns
    BY InitTypeOK, InitOldestGoverns
  <1>2. TypeOK /\ OldestGoverns /\ [Next]_vars => TypeOK' /\ OldestGoverns'
    BY TypeOKStep, OldestGovernsStep
  <1>3. TypeOK /\ OldestGoverns /\ [Next]_vars =>
          [Calm /\ ~User /\ ~Failure => Calm' /\ UNCHANGED <<lumigoes, workloads, monitored>> ]_vars
    BY CalmStep
  <1> QED  BY <1>1, <1>2, <1>3, PTL DEF Spec, CalmStays
===============================================================================
