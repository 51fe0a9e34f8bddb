------------------------ MODULE LumigoRefinementProofs ------------------------
(***************************************************************************)
(* LumigoReconciler implements LumigoSuccession and LumigoLifecycle, for   *)
(* any Lumigoes, users, failures, lag of the cache and bounds: every step  *)
(* that writes a Lumigo maps to its arrival, accession, abdication or      *)
(* departure, and to a step onwards in its life, or to nothing.            *)
(***************************************************************************)
EXTENDS LumigoLifeProofs

(* What the cache shows lets only the oldest Lumigo of a namespace govern  *)
(* it (the check against the first of the sorted list in Reconcile), if    *)
(* creation times tell Lumigoes apart.                                     *)
THEOREM OldestAlwaysGoverns ==
    ASSUME DistinctSeconds
    PROVE  Spec => []OldestGoverns
  <1>1. Init => TypeOK /\ OldestGoverns
    BY InitTypeOK, InitOldestGoverns
  <1>2. TypeOK /\ OldestGoverns /\ [Next]_vars => TypeOK' /\ OldestGoverns'
    BY TypeOKStep, OldestGovernsStep
  <1> QED  BY <1>1, <1>2, PTL DEF Spec

AbstractStep == [Succession!Next]_(Succession!realm)

LEMMA UnchangedRefines ==
    ASSUME UNCHANGED <<lumigoes, creations>>
    PROVE  AbstractStep
  BY DEF AbstractStep, Succession!realm

(* A write of a Lumigo that was there already. *)
LEMMA WriteRefines ==
    ASSUME TypeOK, OldestGoverns, OldestGoverns', NEW l \in Lumigoes, NEW o \in LumigoObject,
           WriteLumigo(l, o), o.uid = lumigoes[l].uid, Exists(o), UNCHANGED creations
    PROVE  AbstractStep
  <1>1. lumigoes \in Stores /\ lumigoes' = [lumigoes EXCEPT ![l] = Stored(o)]
    BY DEF TypeOK, StoreOK, WriteLumigo
  <1>2. \A k \in Lumigoes : lumigoes[k].uid \in Nat
    BY <1>1 DEF Stores, LumigoObject
  <1> DEFINE arrived == [k \in Lumigoes |-> lumigoes[k].uid]
             governing == {k \in Lumigoes : IsActive(lumigoes[k])}
  <1>3. CASE Stored(o) = NoLumigo
    <2>0. /\ \A k \in Lumigoes : k # l => lumigoes'[k] = lumigoes[k]
          /\ lumigoes'[l].uid = 0 /\ ~IsActive(lumigoes'[l])
      BY <1>1, <1>3 DEF Stores, NoLumigo, IsActive
    <2>1. arrived' = [arrived EXCEPT ![l] = 0] /\ governing' = governing \ {l}
      BY <2>0
    <2>2. l \in Succession!Present
      BY DEF Succession!Present, Exists
    <2>3. Succession!Leave(l)
      BY <2>1, <2>2 DEF Succession!Leave
    <2> QED  BY <2>3 DEF AbstractStep, Succession!Next
  <1>4. CASE Stored(o) = o
    <2>1. arrived' = arrived /\ \A k \in Lumigoes : lumigoes'[k].uid = lumigoes[k].uid
      BY <1>1, <1>4 DEF Stores
    <2>2. \A k \in Lumigoes : k # l => lumigoes'[k] = lumigoes[k]
      BY <1>1 DEF Stores
    <2>3. lumigoes'[l] = o
      BY <1>1, <1>4 DEF Stores
    <2>4. CASE IsActive(o) /\ ~IsActive(lumigoes[l])
      <3>1. governing' = governing \cup {l}
        BY <2>2, <2>3, <2>4
      <3>2. Oldest(l)'
        BY <2>3, <2>4 DEF OldestGoverns, ActiveIsOldest
      <3>3. Succession!Eldest(l)
        BY <2>1, <3>2 DEF Oldest, Exists, Succession!Eldest, Succession!Present
      <3>4. Succession!Accede(l)
        BY <2>1, <3>1, <3>3 DEF Succession!Accede
      <3> QED  BY <3>4 DEF AbstractStep, Succession!Next
    <2>5. CASE ~IsActive(o) /\ IsActive(lumigoes[l])
      <3>1. governing' = governing \ {l} /\ l \in governing
        BY <2>2, <2>3, <2>5
      <3>2. Succession!Abdicate(l)
        BY <2>1, <3>1 DEF Succession!Abdicate
      <3> QED  BY <3>2 DEF AbstractStep, Succession!Next
    <2>6. CASE IsActive(o) <=> IsActive(lumigoes[l])
      <3>1. governing' = governing
        BY <2>2, <2>3, <2>6
      <3> QED  BY <2>1, <3>1 DEF AbstractStep, Succession!realm
    <2> QED  BY <2>4, <2>5, <2>6
  <1> QED  BY <1>3, <1>4 DEF Stored
LEMMA ReconcileRefines ==
    ASSUME TypeOK, OldestGoverns, OldestGoverns', NEW fin \in BOOLEAN, NEW next,
           \/ pc # "idle" /\ UpdateFinalizer(fin, next)
           \/ UpdateStatus
    PROVE  AbstractStep
  <1>1. name \in Lumigoes /\ read \in LumigoObject /\ Exists(read) /\ creations' = creations
    BY DEF UpdateStatus, UpdateFinalizer, TypeOK, ProgressOK, OldestGoverns, UidsOK, counts
  <1>2. CASE UpdateFinalizer(fin, next)
    <2> DEFINE o == [read EXCEPT !.fin = fin]
    <2>1. o \in LumigoObject /\ o.uid = read.uid /\ Exists(o)
      BY <1>1 DEF LumigoObject, Exists
    <2>2. CASE lumigoes[name] = read /\ WriteLumigo(name, o)
      BY <1>1, <2>1, <2>2, WriteRefines
    <2> QED  BY <1>1, <1>2, <2>2, UnchangedRefines DEF UpdateFinalizer, store
  <1>3. CASE UpdateStatus
    <2>1. NewStatus \in LumigoObject
      BY <1>3, NewStatusType DEF UpdateStatus, TypeOK
    <2>2. NewStatus.uid = read.uid
      BY <1>1, <1>3 DEF UpdateStatus, NewStatus, ClearError, SetError, SetActive, Updated, LumigoObject
    <2>3. CASE lumigoes[name] = read /\ WriteLumigo(name, NewStatus)
      BY <1>1, <2>1, <2>2, <2>3, WriteRefines DEF Exists
    <2> QED  BY <1>1, <1>3, <2>3, UnchangedRefines DEF UpdateStatus, store
  <1> QED  BY <1>2, <1>3

LEMMA UserRefines ==
    ASSUME TypeOK, OldestGoverns, OldestGoverns', NEW l \in Lumigoes,
           CreateLumigo(l) \/ DeleteLumigo(l) \/ EditSpec(l) \/ EndForeground(l)
    PROVE  AbstractStep
  <1>1. lumigoes[l] \in LumigoObject /\ lumigoes \in Stores
    BY DEF TypeOK, StoreOK, Stores
  <1>2. CASE CreateLumigo(l)
    <2>1. PICK spec \in UserSpecs : WriteLumigo(l, NewLumigo(creations + 1, spec))
      BY <1>2 DEF CreateLumigo
    <2> DEFINE o == NewLumigo(creations + 1, spec)
    <2>2. o.uid = creations + 1 /\ ~IsActive(o) /\ Stored(o) = o
      BY DEF NewLumigo, NoLumigo, IsActive, Stored
    <2>3. ~IsActive(lumigoes[l]) /\ lumigoes[l].uid = 0 /\ creations' = creations + 1
      <3>1. lumigoes[l].uid = 0 /\ creations' = creations + 1
        BY <1>2 DEF CreateLumigo, Exists
      <3>2. IsActive(lumigoes[l]) => Exists(lumigoes[l])
        BY DEF OldestGoverns, ActiveIsOldest, Oldest
      <3> QED  BY <3>1, <3>2 DEF Exists
    <2>4. lumigoes'[l] = o /\ \A k \in Lumigoes : k # l => lumigoes'[k] = lumigoes[k]
      BY <1>1, <2>1, <2>2 DEF WriteLumigo, Stores
    <2> HIDE DEF o
    <2>5. Succession!Arrive(l)
      BY <2>2, <2>3, <2>4 DEF Succession!Arrive, Succession!Present
    <2> QED  BY <2>5 DEF AbstractStep, Succession!Next
  <1>3. CASE DeleteLumigo(l)
    <2>1. PICK held \in BOOLEAN : WriteLumigo(l, [lumigoes[l] EXCEPT !.deleting = TRUE, !.held = held])
      BY <1>3 DEF DeleteLumigo
    <2> DEFINE o == [lumigoes[l] EXCEPT !.deleting = TRUE, !.held = held]
    <2>2. o \in LumigoObject /\ o.uid = lumigoes[l].uid /\ Exists(o) /\ creations' = creations
      BY <1>1, <1>3 DEF LumigoObject, Exists, DeleteLumigo, Edit
    <2> QED  BY <2>1, <2>2, WriteRefines
  <1>4. CASE EditSpec(l)
    <2>1. PICK spec \in UserSpecs : WriteLumigo(l, [lumigoes[l] EXCEPT !.spec = spec])
      BY <1>4 DEF EditSpec
    <2> DEFINE o == [lumigoes[l] EXCEPT !.spec = spec]
    <2>2. o \in LumigoObject /\ o.uid = lumigoes[l].uid /\ Exists(o) /\ creations' = creations
      BY <1>1, <1>4, ConstantsOK DEF LumigoObject, Exists, EditSpec, Edit
    <2> QED  BY <2>1, <2>2, WriteRefines
  <1>5. CASE EndForeground(l)
    <2> DEFINE o == [lumigoes[l] EXCEPT !.held = FALSE]
    <2>1. o \in LumigoObject /\ o.uid = lumigoes[l].uid /\ WriteLumigo(l, o) /\ creations' = creations
      BY <1>1, <1>5 DEF LumigoObject, EndForeground, counts
    <2>2. CASE Exists(o)
      BY <2>1, <2>2, WriteRefines
    <2>3. CASE ~Exists(o)
      <3>1. lumigoes[l].uid = 0 /\ ~IsActive(lumigoes[l])
        <4>1. lumigoes[l].uid = 0 /\ ~Exists(lumigoes[l])
          BY <2>1, <2>3 DEF Exists
        <4> QED  BY <4>1 DEF OldestGoverns, ActiveIsOldest, Oldest
      <3>2. Stored(o).uid = 0 /\ ~IsActive(Stored(o))
        BY <1>1, <3>1 DEF Stored, NoLumigo, IsActive, LumigoObject
      <3>3. \A k \in Lumigoes : lumigoes'[k] = IF k = l THEN Stored(o) ELSE lumigoes[k]
        BY <1>1, <2>1 DEF WriteLumigo, Stores
      <3>4. creations' = creations
        BY <2>1
      <3> HIDE DEF o
      <3>5. \A k \in Lumigoes : /\ lumigoes'[k].uid = lumigoes[k].uid
                                /\ IsActive(lumigoes'[k]) <=> IsActive(lumigoes[k])
        BY <3>1, <3>2, <3>3
      <3>6. [k \in Lumigoes |-> lumigoes'[k].uid] = [k \in Lumigoes |-> lumigoes[k].uid]
        BY <3>5
      <3>7. {k \in Lumigoes : IsActive(lumigoes'[k])} = {k \in Lumigoes : IsActive(lumigoes[k])}
        BY <3>5
      <3> QED  BY <3>4, <3>6, <3>7 DEF AbstractStep, Succession!realm, IsActive
    <2> QED  BY <2>2, <2>3
  <1> QED  BY <1>2, <1>3, <1>4, <1>5

LEMMA StepRefines ==
    ASSUME TypeOK, OldestGoverns, OldestGoverns', [Next]_vars
    PROVE  AbstractStep
  <1>1. CASE UNCHANGED <<lumigoes, creations>>
    BY <1>1, UnchangedRefines
  <1>2. CASE \E fin \in BOOLEAN, next \in {"check", "unmonitor"} :
                pc # "idle" /\ UpdateFinalizer(fin, next)
    BY <1>2, ReconcileRefines
  <1>3. CASE UpdateStatus
    BY <1>3, ReconcileRefines
  <1>4. CASE \E l \in Lumigoes :
                CreateLumigo(l) \/ DeleteLumigo(l) \/ EditSpec(l) \/ EndForeground(l)
    BY <1>4, UserRefines
  <1> QED
    BY <1>1, <1>2, <1>3, <1>4
       DEF Next, Reconcile, Begin, AddFinalizer, DropFinalizer, Check, ListKind, FinishSweep,
           Attempt, Telemetry, Unmonitor, Monitor, ListReferences, User, ChangeSecret,
           CreateWorkload, TouchWorkload, RelabelWorkload, DeleteWorkload, Send, Edit, Failure,
           Fault, ApiFault, FileFault, Crash, SyncLumigoes, SyncWorkload, Restart, vars, store,
           counts

(* Reconcile, the webhooks, the lagging cache, crashes and failed requests *)
(* together let the Lumigoes of a namespace succeed one another by age, if *)
(* creation times tell them apart.                                         *)
THEOREM ReconcilerImplementsSuccession ==
    ASSUME DistinctSeconds
    PROVE  Spec => ImplementsSuccession
  <1>1. Init => Succession!Init
    BY DEF Init, Succession!Init, NoLumigo, IsActive
  <1>2. TypeOK /\ OldestGoverns /\ OldestGoverns' /\ [Next]_vars
            => [Succession!Next]_(Succession!realm)
    BY StepRefines DEF AbstractStep
  <1> QED
    BY <1>1, <1>2, TypeCorrect, OldestAlwaysGoverns, PTL
       DEF Spec, ImplementsSuccession, Succession!Spec

-----------------------------------------------------------------------------
(***************************************************************************)
(* The life of a Lumigo.                                                   *)
(***************************************************************************)

(* Only a Lumigo that is being deleted is held, and one that is being      *)
(* deleted is there because a finalizer keeps it.                          *)
Tidy(o) == (o.held => o.deleting) /\ (o.deleting => Exists(o) /\ (o.fin \/ o.held))

Tidied == \A l \in Lumigoes : Tidy(lumigoes[l])

(* The finalizer is added for a Lumigo read as a live one without it, and  *)
(* removed for one read as being deleted and with it.                      *)
ReadForLife ==
    /\ pc # "idle" => Exists(read)
    /\ pc = "addFinalizer" => ~read.deleting /\ ~read.fin
    /\ pc \in Removing => read.deleting /\ read.fin

LifeStep == [Life!Next]_(Life!record)

LEMMA Stages ==
    ASSUME NEW o \in LumigoObject
    PROVE  /\ StageOf(o) = "absent" <=> ~Exists(o)
           /\ StageOf(o) = "new" <=> Exists(o) /\ ~o.deleting /\ ~o.fin
           /\ StageOf(o) = "kept" <=> Exists(o) /\ ~o.deleting /\ o.fin
           /\ StageOf(o) = "leaving" <=> Exists(o) /\ o.deleting /\ o.fin
           /\ StageOf(o) = "held" <=> Exists(o) /\ o.deleting /\ ~o.fin
  BY DEF StageOf, LumigoObject

LEMMA StoredStage ==
    ASSUME NEW o \in LumigoObject, Exists(o)
    PROVE  /\ o.deleting /\ ~o.fin => StageOf(Stored(o)) \in {"absent", "held"}
           /\ o.deleting /\ ~o.fin /\ ~o.held => StageOf(Stored(o)) = "absent"
           /\ ~o.deleting \/ o.fin => Stored(o) = o
  BY Stages DEF Stored, NoLumigo, StageOf, Exists

LEMMA LifeStutters ==
    ASSUME Tidied, UNCHANGED <<lumigoes, creations>>
    PROVE  LifeStep /\ Tidied'
  BY DEF LifeStep, Life!record, Tidied

(* A write of a Lumigo that was there already. *)
LEMMA WriteLives ==
    ASSUME TypeOK, Tidied, NEW l \in Lumigoes, NEW o \in LumigoObject, WriteLumigo(l, o),
           o.uid = lumigoes[l].uid, Exists(o), o.held => o.deleting, UNCHANGED creations,
           NEW next, StageOf(Stored(o)) = next
    PROVE  Life!Become(l, next) /\ Tidied'
  <1>1. lumigoes \in Stores /\ lumigoes' = [lumigoes EXCEPT ![l] = Stored(o)]
    BY DEF TypeOK, StoreOK, WriteLumigo
  <1>2. [k \in Lumigoes |-> StageOf(lumigoes[k])]' =
            [[k \in Lumigoes |-> StageOf(lumigoes[k])] EXCEPT ![l] = StageOf(Stored(o))]
    BY <1>1 DEF Stores
  <1>3. Stored(o).uid = IF StageOf(Stored(o)) = "absent" THEN 0 ELSE lumigoes[l].uid
    <2>1. Stored(o) \in LumigoObject /\ Stored(o).uid \in {0, o.uid}
      BY StoredType DEF Stored, NoLumigo
    <2> QED  BY <2>1, Stages DEF Exists
  <1>4. [k \in Lumigoes |-> lumigoes[k].uid]' =
            [[k \in Lumigoes |-> lumigoes[k].uid] EXCEPT
                ![l] = IF StageOf(Stored(o)) = "absent" THEN 0 ELSE @]
    BY <1>1, <1>3 DEF Stores
  <1>5. Tidy(Stored(o))
    BY DEF Tidy, Stored, NoLumigo, LumigoObject
  <1> QED  BY <1>1, <1>2, <1>4, <1>5 DEF Life!Become, Tidied, Stores

(* A write that leaves the Lumigo where it is in its life. *)
LEMMA SameStage ==
    ASSUME TypeOK, Tidied, NEW l \in Lumigoes, NEW o \in LumigoObject, WriteLumigo(l, o),
           o.uid = lumigoes[l].uid, Exists(o), UNCHANGED creations, o.held => o.deleting,
           o.deleting = lumigoes[l].deleting, o.fin = lumigoes[l].fin,
           o.deleting => o.fin \/ o.held
    PROVE  LifeStep /\ Tidied'
  <1>1. lumigoes[l] \in LumigoObject
    BY DEF TypeOK, StoreOK, Stores
  <1>2. Stored(o) = o /\ StageOf(o) = StageOf(lumigoes[l]) /\ StageOf(o) # "absent"
    BY <1>1, Stages DEF Stored, StageOf, Exists
  <1>3. PICK next : next = StageOf(lumigoes[l])
    OBVIOUS
  <1>4. StageOf(Stored(o)) = next
    BY <1>2, <1>3
  <1>5. Life!Become(l, next) /\ Tidied'
    BY <1>4, WriteLives
  <1>6. UNCHANGED Life!record
    BY <1>2, <1>3, <1>5 DEF Life!Become, Life!record
  <1> QED  BY <1>5, <1>6 DEF LifeStep

LEMMA ReconcileLives ==
    ASSUME TypeOK, Tidied, ReadForLife, AddFinalizer \/ DropFinalizer \/ UpdateStatus
    PROVE  LifeStep /\ Tidied'
  <1>1. /\ name \in Lumigoes /\ read \in LumigoObject /\ Exists(read) /\ creations' = creations
        /\ lumigoes[name] \in LumigoObject
    BY DEF AddFinalizer, DropFinalizer, UpdateStatus, UpdateFinalizer, TypeOK, ProgressOK, StoreOK,
           Stores, ReadForLife, counts
  <1>2. CASE UNCHANGED store
    BY <1>1, <1>2, LifeStutters DEF store
  <1>3. lumigoes[name] = read => Tidy(read)
    BY <1>1 DEF Tidied
  <1>4. CASE /\ AddFinalizer /\ lumigoes[name] = read
             /\ WriteLumigo(name, [read EXCEPT !.fin = TRUE])
    <2> DEFINE o == [read EXCEPT !.fin = TRUE]
    <2>1. o \in LumigoObject /\ Exists(o) /\ o.uid = read.uid /\ ~o.deleting /\ o.fin /\ ~o.held
      BY <1>1, <1>3, <1>4 DEF LumigoObject, Exists, AddFinalizer, ReadForLife, Tidy
    <2>2. StageOf(read) = "new" /\ StageOf(Stored(o)) = "kept"
      BY <1>1, <1>4, <2>1, Stages, StoredStage DEF AddFinalizer, ReadForLife
    <2> HIDE DEF o
    <2>3. Life!Become(name, "kept") /\ Tidied'
      BY <1>1, <1>4, <2>1, <2>2, WriteLives DEF o
    <2> QED  BY <1>1, <1>4, <2>2, <2>3 DEF LifeStep, Life!Next, Life!Keep
  <1>5. CASE /\ DropFinalizer /\ lumigoes[name] = read
             /\ WriteLumigo(name, [read EXCEPT !.fin = FALSE])
    <2> DEFINE o == [read EXCEPT !.fin = FALSE]
    <2>1. o \in LumigoObject /\ Exists(o) /\ o.uid = read.uid /\ o.deleting /\ ~o.fin
      BY <1>1, <1>5 DEF LumigoObject, Exists, DropFinalizer, ReadForLife, Removing
    <2>2. /\ StageOf(read) = "leaving" /\ (o.held => o.deleting)
          /\ StageOf(Stored(o)) \in {"absent", "held"}
      BY <1>1, <1>5, <2>1, Stages, StoredStage DEF DropFinalizer, ReadForLife, Removing
    <2> HIDE DEF o
    <2>3. PICK next \in {"absent", "held"} : StageOf(Stored(o)) = next
      BY <2>2
    <2>4. Life!Become(name, next) /\ Tidied'
      BY <1>1, <1>5, <2>1, <2>2, <2>3, WriteLives DEF o
    <2>5. Life!Release(name)
      BY <1>1, <1>5, <2>2, <2>4 DEF Life!Release
    <2> QED  BY <1>1, <2>4, <2>5 DEF LifeStep, Life!Next
  <1>6. CASE /\ UpdateStatus /\ lumigoes[name] = read /\ WriteLumigo(name, NewStatus)
    <2>1. NewStatus \in LumigoObject
      BY <1>6, NewStatusType DEF UpdateStatus, TypeOK
    <2>2. /\ NewStatus.uid = read.uid /\ NewStatus.held = read.held
          /\ NewStatus.deleting = read.deleting /\ NewStatus.fin = read.fin
      BY <1>1, <1>6 DEF UpdateStatus, NewStatus, ClearError, SetError, SetActive, Updated,
                        LumigoObject
    <2> QED  BY <1>1, <1>3, <1>6, <2>1, <2>2, SameStage DEF Tidy, Exists
  <1> QED
    BY <1>2, <1>4, <1>5, <1>6
       DEF AddFinalizer, DropFinalizer, UpdateFinalizer, UpdateStatus, Goto, store

LEMMA CreationLives ==
    ASSUME TypeOK, Tidied, NEW l \in Lumigoes, CreateLumigo(l)
    PROVE  LifeStep /\ Tidied'
  <1>1. PICK spec \in UserSpecs : WriteLumigo(l, NewLumigo(creations + 1, spec))
    BY DEF CreateLumigo
  <1> DEFINE o == NewLumigo(creations + 1, spec)
  <1>2. o.uid = creations' /\ ~o.deleting /\ ~o.fin /\ ~o.held /\ Stored(o) = o
    BY DEF CreateLumigo, NewLumigo, NoLumigo, Stored
  <1>3. creations' = creations + 1 /\ creations \in Nat /\ ~Exists(lumigoes[l])
    BY DEF CreateLumigo, TypeOK, CountsOK
  <1>4. lumigoes \in Stores /\ lumigoes' = [lumigoes EXCEPT ![l] = o]
    BY <1>1, <1>2 DEF TypeOK, StoreOK, WriteLumigo
  <1> HIDE DEF o
  <1>5. StageOf(o) = "new" /\ StageOf(lumigoes[l]) = "absent" /\ Tidy(o)
    BY <1>2, <1>3 DEF StageOf, Exists, Tidy
  <1>6. [k \in Lumigoes |-> StageOf(lumigoes[k])]' =
            [[k \in Lumigoes |-> StageOf(lumigoes[k])] EXCEPT ![l] = "new"]
    BY <1>4, <1>5 DEF Stores
  <1>7. [k \in Lumigoes |-> lumigoes[k].uid]' =
            [[k \in Lumigoes |-> lumigoes[k].uid] EXCEPT ![l] = creations']
    BY <1>2, <1>4 DEF Stores
  <1>8. Life!Create(l)
    BY <1>3, <1>5, <1>6, <1>7 DEF Life!Create
  <1>9. Tidied'
    BY <1>4, <1>5 DEF Tidied, Stores
  <1> QED  BY <1>8, <1>9 DEF LifeStep, Life!Next

LEMMA UserLives ==
    ASSUME TypeOK, Tidied, NEW l \in Lumigoes, DeleteLumigo(l) \/ EditSpec(l) \/ EndForeground(l)
    PROVE  LifeStep /\ Tidied'
  <1>1. lumigoes[l] \in LumigoObject /\ Tidy(lumigoes[l]) /\ creations' = creations
    BY DEF TypeOK, StoreOK, Stores, Tidied, DeleteLumigo, EditSpec, Edit, EndForeground, counts
  <1>2. CASE DeleteLumigo(l)
    <2>1. PICK held \in BOOLEAN : WriteLumigo(l, [lumigoes[l] EXCEPT !.deleting = TRUE, !.held = held])
      BY <1>2 DEF DeleteLumigo
    <2> DEFINE o == [lumigoes[l] EXCEPT !.deleting = TRUE, !.held = held]
    <2>2. /\ o \in LumigoObject /\ o.uid = lumigoes[l].uid /\ Exists(o) /\ o.deleting
          /\ o.fin = lumigoes[l].fin /\ Exists(lumigoes[l]) /\ ~lumigoes[l].deleting
      BY <1>1, <1>2 DEF LumigoObject, Exists, DeleteLumigo
    <2>3. WriteLumigo(l, o)
      BY <2>1
    <2> HIDE DEF o
    <2>4. ASSUME NEW next, StageOf(Stored(o)) = next PROVE Life!Become(l, next) /\ Tidied'
      BY <1>1, <2>2, <2>3, <2>4, WriteLives
    <2>5. CASE ~lumigoes[l].fin
      <3>1. StageOf(lumigoes[l]) = "new" /\ StageOf(Stored(o)) \in {"absent", "held"}
        BY <1>1, <2>2, <2>5, Stages, StoredStage
      <3>2. PICK next \in {"absent", "held"} : StageOf(Stored(o)) = next
        BY <3>1
      <3>3. Life!Become(l, next) /\ Tidied'
        BY <2>4, <3>2
      <3>4. Life!AskToDelete(l)
        BY <3>1, <3>3 DEF Life!AskToDelete
      <3> QED  BY <3>3, <3>4 DEF LifeStep, Life!Next
    <2>6. CASE lumigoes[l].fin
      <3>1. StageOf(lumigoes[l]) = "kept" /\ StageOf(Stored(o)) = "leaving"
        BY <1>1, <2>2, <2>6, Stages, StoredStage
      <3>2. Life!Become(l, "leaving") /\ Tidied'
        BY <2>4, <3>1
      <3>3. Life!AskToDelete(l)
        BY <3>1, <3>2 DEF Life!AskToDelete
      <3> QED  BY <3>2, <3>3 DEF LifeStep, Life!Next
    <2> QED  BY <2>5, <2>6
  <1>3. CASE EditSpec(l)
    <2>1. PICK spec \in UserSpecs : WriteLumigo(l, [lumigoes[l] EXCEPT !.spec = spec])
      BY <1>3 DEF EditSpec
    <2> DEFINE o == [lumigoes[l] EXCEPT !.spec = spec]
    <2>2. /\ o \in LumigoObject /\ o.uid = lumigoes[l].uid /\ Exists(o) /\ o.held = lumigoes[l].held
          /\ o.deleting = lumigoes[l].deleting /\ o.fin = lumigoes[l].fin
      BY <1>1, <1>3, ConstantsOK DEF LumigoObject, Exists, EditSpec, ConstantsOK
    <2> QED  BY <1>1, <2>1, <2>2, SameStage DEF Tidy
  <1>4. CASE EndForeground(l)
    <2> DEFINE o == [lumigoes[l] EXCEPT !.held = FALSE]
    <2>1. /\ o \in LumigoObject /\ o.uid = lumigoes[l].uid /\ Exists(o) /\ ~o.held /\ o.deleting
          /\ o.fin = lumigoes[l].fin /\ lumigoes[l].deleting /\ Exists(lumigoes[l])
      BY <1>1, <1>4 DEF LumigoObject, Exists, EndForeground, Tidy
    <2>2. WriteLumigo(l, o)
      BY <1>4 DEF EndForeground
    <2> HIDE DEF o
    <2>3. CASE lumigoes[l].fin
      BY <1>1, <2>1, <2>2, <2>3, SameStage
    <2>4. CASE ~lumigoes[l].fin
      <3>1. StageOf(lumigoes[l]) = "held" /\ StageOf(Stored(o)) = "absent"
        BY <1>1, <2>1, <2>4, Stages, StoredStage
      <3>2. Life!Become(l, "absent") /\ Tidied'
        BY <1>1, <2>1, <2>2, <3>1, WriteLives
      <3> QED  BY <3>1, <3>2 DEF LifeStep, Life!Next, Life!End
    <2> QED  BY <2>3, <2>4
  <1> QED  BY <1>2, <1>3, <1>4

LEMMA StepLives ==
    ASSUME TypeOK, Tidied, ReadForLife, [Next]_vars
    PROVE  LifeStep /\ Tidied'
  <1>1. CASE UNCHANGED <<lumigoes, creations>>
    BY <1>1, LifeStutters
  <1>2. CASE AddFinalizer \/ DropFinalizer \/ UpdateStatus
    BY <1>2, ReconcileLives
  <1>3. CASE \E l \in Lumigoes :
                CreateLumigo(l) \/ DeleteLumigo(l) \/ EditSpec(l) \/ EndForeground(l)
    BY <1>3, CreationLives, UserLives
  <1> QED
    BY <1>1, <1>2, <1>3
       DEF Next, Reconcile, Begin, Check, ListKind, FinishSweep, Attempt, Telemetry, Unmonitor,
           Monitor, ListReferences, User, ChangeSecret, CreateWorkload, TouchWorkload,
           RelabelWorkload, DeleteWorkload, Send, Edit, Failure, Fault, ApiFault, FileFault, Crash,
           SyncLumigoes, SyncWorkload, Restart, vars, store, counts

LEMMA ReadForLifeStep ==
    ASSUME TypeOK, ReadForLife, [Next]_vars
    PROVE  ReadForLife'
  <1>1. CASE MovesOn
    BY <1>1 DEF MovesOn, Move, ReadForLife, Removing
  <1>2. ASSUME NEW l \in Lumigoes, Begin(l) PROVE ReadForLife'
    <2>1. cache[l] \in LumigoObject
      BY DEF TypeOK, StoreOK, Stores
    <2> QED  BY <1>2, <2>1 DEF Begin, AfterRead, ReadForLife, Removing, LumigoObject
  <1>3. CASE AddFinalizer \/ DropFinalizer
    <2>1. \/ pc' = "idle"
          \/ /\ pc' \in {"check", "unmonitor"}
             /\ \E fin \in BOOLEAN : read' = [read EXCEPT !.fin = fin]
      BY <1>3 DEF AddFinalizer, DropFinalizer, UpdateFinalizer, Goto, Return
    <2>2. read \in LumigoObject /\ Exists(read)
      BY <1>3 DEF AddFinalizer, DropFinalizer, ReadForLife, TypeOK, ProgressOK
    <2> QED  BY <2>1, <2>2 DEF ReadForLife, Removing, Exists, LumigoObject
  <1> QED  BY <1>1, <1>2, <1>3, StepMoves

(* However old the copies that reconciles work on, whatever fails, and     *)
(* although the API server removes an object at its last finalizer and     *)
(* others have finalizers too, the operator takes every Lumigo through one *)
(* life: it adds its finalizer once, to a Lumigo whose deletion nobody has *)
(* asked for, and removes it once, from one whose deletion somebody has.   *)
THEOREM ReconcilerImplementsLifecycle == Spec => ImplementsLifecycle
  <1>1. Init => Life!Init /\ Tidied /\ ReadForLife
    BY DEF Init, Life!Init, Tidied, Tidy, ReadForLife, NoLumigo, StageOf, Exists, Removing
  <1>2. TypeOK /\ Tidied /\ ReadForLife /\ [Next]_vars
            => [Life!Next]_(Life!record) /\ Tidied' /\ ReadForLife'
    BY StepLives, ReadForLifeStep DEF LifeStep
  <1> QED
    BY <1>1, <1>2, TypeCorrect, PTL DEF Spec, ImplementsLifecycle, Life!Spec
===============================================================================
