------------------------- MODULE ObjectsPipelineProofs -------------------------
(***************************************************************************)
(* Proofs about ObjectsPipeline, for every set of objects, every ownership *)
(* among them, any goroutines of the receiver, any capacity of the channel *)
(* and any bounds: no version of an object is lost between the cache and   *)
(* the pipelines, and looking up what an event refers to ends with that    *)
(* version, or a later one, announced.                                     *)
(***************************************************************************)
EXTENDS ObjectsPipeline, FiniteSetTheorems, TLAPS

Known == 1..Len(history)

WithinHistory(w) ==
    /\ w \in Work
    /\ w.records \subseteq Known /\ w.todo \subseteq Known /\ w.carry \subseteq Known
    /\ w.ref \in 0..Len(history) /\ w.got \in 0..Len(history)

(* What goroutines rely on at their next step. *)
Sound(w) ==
    /\ WithinHistory(w)
    /\ w.pc = "walk" => w.at # None
    /\ w.pc = "fetched" => w.got # 0
    /\ w.pc = "idle" => w = Rest

(* A fetched version, unless it is one on the walk to the owners, answers  *)
(* what the event refers to.                                               *)
Answers(w) ==
    w.pc = "fetched" /\ w.at = None /\ w.ref # 0 => w.got >= w.ref /\ history[w.got] = history[w.ref]

KnownVersions == cached \subseteq Known /\ unsent \subseteq Known /\ queue \subseteq Known

KnownSent == exported \subseteq Known /\ lost \subseteq Known

(* The inductive invariant. *)
IInv ==
    /\ TypeOK /\ KnownVersions /\ KnownSent
    /\ \A g \in Goroutines : Sound(work[g]) /\ Answers(work[g])
    /\ NothingVanishes /\ EventAnswered

-------------------------------------------------------------------------------
(* The helpers that move a goroutine's work. *)

(* A step's new work changes one goroutine's only. *)
LEMMA OneGoes ==
    ASSUME NEW g \in Goroutines, NEW w, work \in [Pipelines -> Work], Goes(g, w), w \in Work
    PROVE  /\ work' \in [Pipelines -> Work]
           /\ work'[g] = w
           /\ \A t \in Goroutines : t # g => work'[t] = work[t]
  BY PipelineOK DEF Goes

LEMMA RestIsWork == Rest \in Work /\ Rest.pc = "idle" /\ Rest.carry = {} /\ Rest.ref = 0
  BY ClusterOK DEF Rest, Work

LEMMA SoundRest ==
    ASSUME history \in Seq(Objects)
    PROVE  Sound(Rest) /\ Answers(Rest)
  BY RestIsWork DEF Rest, Sound, WithinHistory, Answers, Known

(* The current version of an object is a version of it. *)
LEMMA StoredKnown ==
    ASSUME ClusterTypeOK, NEW o \in Objects, Exists(o)
    PROVE  stored[o] \in Known /\ history[stored[o]] = o /\ stored[o] \in Versions
  BY ClusterOK DEF ClusterTypeOK, Exists, Known, Versions

(* A batch that starts is sound, and carries and refers to what it did. *)
LEMMA UnlocatedSound ==
    ASSUME NEW t, NEW w \in Work, WithinHistory(w), w.ref = 0
    PROVE  LET s == Unlocated(t, w)
           IN  /\ s \in Work /\ Sound(s) /\ Answers(s)
               /\ s.pc # "idle" /\ s.carry = w.carry /\ s.ref = 0
  BY DEF Unlocated, Work, Sound, WithinHistory, Answers

LEMMA StartedSound ==
    ASSUME ClusterTypeOK, NEW t, NEW w \in Work, WithinHistory(w), w.ref = 0
    PROVE  LET s == Started(t, w)
           IN  /\ s \in Work /\ Sound(s) /\ Answers(s)
               /\ s.pc # "idle" /\ s.carry = w.carry /\ s.ref = 0
  <1> DEFINE s == Started(t, w)
  <1>1. CASE addressless \in Pods
    <2>1. addressless \in Objects /\ Exists(addressless)
      BY <1>1, ClusterOK DEF ClusterTypeOK, Exists
    <2>2. stored[addressless] \in Known /\ stored[addressless] \in Versions /\ addressless # None
      BY <2>1, StoredKnown, ClusterOK
    <2>3. s = [w EXCEPT !.kept = TRUE, !.pc = "fetched", !.got = stored[addressless], !.at = addressless]
      BY <1>1 DEF Started, FoundByConnection
    <2>4. /\ s.pc = "fetched" /\ s.got = stored[addressless] /\ s.at = addressless
          /\ s.ref = 0 /\ s.carry = w.carry /\ s.records = w.records /\ s.todo = w.todo
      BY <2>3 DEF Work
    <2>5. s \in Work
      <3>1. stored[addressless] \in 0..MaxVersions  BY <2>2, ClusterOK DEF Versions
      <3> QED  BY <2>1, <2>3, <3>1 DEF Work
    <2>6. stored[addressless] \in 0..Len(history) /\ stored[addressless] # 0
      BY <2>1 DEF ClusterTypeOK, Exists
    <2>7. Sound(s)
      <3> HIDE DEF s
      <3> QED  BY <2>2, <2>4, <2>5, <2>6 DEF Sound, WithinHistory
    <2>8. Answers(s)
      <3> HIDE DEF s
      <3> QED  BY <2>4 DEF Answers, Sound, WithinHistory
    <2> QED  BY <2>4, <2>5, <2>7, <2>8
  <1>2. CASE addressless \notin Pods
    <2>1. s = [w EXCEPT !.kept = w.kept \/ (addressless = "nowhere" /\ t[2] = "pull"),
                        !.pc = "record"]
      BY <1>2 DEF Started, FoundByConnection
    <2> QED  BY <2>1 DEF Work, Sound, WithinHistory, Answers
  <1> QED  BY <1>1, <1>2

LEMMA StartsSound ==
    ASSUME ClusterTypeOK, NEW t, NEW b \in Work, WithinHistory(b), b.ref = 0, Starts(t, b)
    PROVE  \E w \in Work : /\ Goes(t, w) /\ Sound(w) /\ Answers(w)
                           /\ w.pc # "idle" /\ w.carry = b.carry /\ w.ref = 0
  <1>1. CASE Goes(t, Started(t, b))  BY <1>1, StartedSound
  <1>2. CASE Goes(t, Unlocated(t, b))  BY <1>2, UnlocatedSound
  <1> QED  BY <1>1, <1>2 DEF Starts

LEMMA AtRootSound ==
    ASSUME NEW w \in Work, WithinHistory(w)
    PROVE  LET s == AtRoot(w)
           IN  /\ s \in Work /\ Sound(s) /\ Answers(s)
               /\ s.pc # "idle" /\ s.carry = w.carry /\ (s.pc = "record" => s.ref = 0)
  BY DEF AtRoot, Work, Sound, WithinHistory, Answers

LEMMA GoesUpSound ==
    ASSUME NEW w \in Work, WithinHistory(w), w.at # None
    PROVE  LET s == GoesUp(w)
           IN  /\ s \in Work /\ Sound(s) /\ Answers(s)
               /\ s.pc # "idle" /\ s.carry = w.carry /\ (s.pc = "record" => s.ref = 0)
  <1>1. CASE Owner[w.at] = None  BY <1>1, AtRootSound DEF GoesUp
  <1>2. CASE Owner[w.at] # None
    <2>1. w.at \in Objects  BY DEF Work
    <2>2. Owner[w.at] \in Objects /\ Owner[w.at] # None  BY <1>2, <2>1, ClusterOK
    <2>3. GoesUp(w) = [w EXCEPT !.pc = "walk", !.at = Owner[w.at]]  BY <1>2 DEF GoesUp, Work
    <2> QED  BY <2>2, <2>3 DEF Work, Sound, WithinHistory, Answers
  <1> QED  BY <1>1, <1>2

-------------------------------------------------------------------------------
(* The cache and the channel. *)

(* The caches only grow, and what is new is about to be sent. *)
CachesGrow ==
    /\ cached \subseteq cached' /\ unsent \subseteq unsent' /\ cached' \ cached \subseteq unsent'
    /\ cached' \subseteq Versions /\ unsent' \subseteq Versions
    /\ generic' \subseteq Objects /\ byUid' \in [Pods -> 0..MaxVersions]
    /\ KnownVersions'

LEMMA RegisterGrows ==
    ASSUME ClusterTypeOK, EnricherTypeOK, KnownVersions, NEW versions, versions \subseteq Known,
           Register(versions), UNCHANGED <<queue, history>>
    PROVE  CachesGrow
  <1> DEFINE new == versions \ cached
  <1>1. cached' = cached \cup new /\ unsent' = unsent \cup new
        /\ generic' = generic \cup {history[v] : v \in new}
    BY DEF Register
  <1>2. Known \subseteq Versions /\ \A v \in Known : history[v] \in Objects
    BY ClusterOK DEF ClusterTypeOK, Known, Versions
  <1>3. byUid' \in [Pods -> 0..MaxVersions]
    BY DEF Register, CachedByUid
  <1>4. Known' = Known
    BY DEF Known
  <1> QED  BY <1>1, <1>2, <1>3, <1>4 DEF EnricherTypeOK, KnownVersions, CachesGrow

LEMMA UnchangedGrow ==
    ASSUME EnricherTypeOK, KnownVersions, UNCHANGED <<caches, queue, history>>
    PROVE  CachesGrow
  BY DEF EnricherTypeOK, KnownVersions, CachesGrow, caches, Known

LEMMA CarriedAfter ==
    ASSUME NEW g \in Goroutines, NEW w \in Work, work \in [Pipelines -> Work], Goes(g, w)
    PROVE  /\ Carried \subseteq Carried' \cup work[g].carry
           /\ w.carry \subseteq Carried'
           /\ work[g].carry \subseteq w.carry => Carried \subseteq Carried'
  <1>1. /\ work'[g] = w
        /\ \A t \in Goroutines : t # g => work'[t] = work[t]
    BY OneGoes
  <1> QED  BY <1>1 DEF Carried

(* What every step of one goroutine must show of its new work. *)
LEMMA GoroutineStep ==
    ASSUME IInv, NEW g \in Goroutines, NEW w \in Work, Goes(g, w), UNCHANGED history,
           Sound(w), Answers(w),
           Announced \subseteq Announced', cached' \subseteq Announced',
           w.pc = "record" /\ w.ref # 0 =>
               \E v \in Announced' : v >= w.ref /\ history[v] = history[w.ref]
    PROVE  /\ work' \in [Pipelines -> Work]
           /\ (\A t \in Goroutines : Sound(work[t]) /\ Answers(work[t]))'
           /\ NothingVanishes' /\ EventAnswered'
  <1>1. work \in [Pipelines -> Work]
    BY DEF IInv, TypeOK, EnricherTypeOK
  <1>2. /\ work' \in [Pipelines -> Work] /\ work'[g] = w
        /\ \A t \in Goroutines : t # g => work'[t] = work[t]
    BY <1>1, OneGoes
  <1>3. ASSUME NEW t \in Goroutines PROVE Sound(work'[t]) /\ Answers(work'[t])
    BY <1>2 DEF IInv
  <1>4. (\A t \in Goroutines : Sound(work[t]) /\ Answers(work[t]))'
    <2>1. \A u : Sound(u) => Sound(u)'
      BY DEF Sound, WithinHistory, Known, Work, Versions, Rest
    <2>2. \A u : Answers(u) => Answers(u)'
      BY DEF Answers
    <2> QED  BY <1>3 DEF Sound, WithinHistory, Answers, Known, Work, Versions, Rest
  <1>5. NothingVanishes'
    BY DEF NothingVanishes
  <1>6. EventAnswered'
    <2> SUFFICES ASSUME NEW t \in Goroutines, work'[t].pc = "record", work'[t].ref # 0
                 PROVE  \E v \in Announced' : v >= work'[t].ref /\ history[v] = history[work'[t].ref]
      BY DEF EventAnswered, At
    <2>1. CASE t = g
      BY <1>2, <2>1
    <2>2. CASE t # g
      <3>1. work'[t] = work[t]  BY <1>2, <2>2
      <3>2. \E v \in Announced : v >= work[t].ref /\ history[v] = history[work[t].ref]
        BY <3>1 DEF IInv, EventAnswered, At
      <3> QED  BY <3>1, <3>2
    <2> QED  BY <2>1, <2>2
  <1> QED  BY <1>2, <1>4, <1>5, <1>6

(* A step within processLogs: it neither takes from the channel nor ends.  *)
LEMMA InsideStep ==
    ASSUME IInv, NEW g \in Goroutines, NEW w \in Work, Goes(g, w), Inside, UNCHANGED <<seen, queue>>,
           faults' \in 0..MaxFaults, CachesGrow, Sound(w), Answers(w),
           work[g].pc # "idle", w.pc # "idle", w.carry = work[g].carry,
           w.pc = "record" /\ w.ref # 0 =>
               \E v \in Announced \cup unsent' : v >= w.ref /\ history[v] = history[w.ref]
    PROVE  IInv'
  <1>1. UNCHANGED <<history, stored, events, addressless, receiver, position, closed, exported, lost>>
    BY DEF Inside, cluster, receiving, sent
  <1>2. Carried \subseteq Carried'
    BY CarriedAfter DEF IInv, TypeOK, EnricherTypeOK
  <1>3. Announced \cup unsent' \subseteq Announced' /\ cached' \subseteq Announced'
    BY <1>1, <1>2 DEF Announced, CachesGrow, IInv, NothingVanishes
  <1>4. /\ work' \in [Pipelines -> Work]
        /\ (\A t \in Goroutines : Sound(work[t]) /\ Answers(work[t]))'
        /\ NothingVanishes' /\ EventAnswered'
    <2>1. w.pc = "record" /\ w.ref # 0 =>
              \E v \in Announced' : v >= w.ref /\ history[v] = history[w.ref]
      BY <1>3
    <2>2. Announced \subseteq Announced' /\ UNCHANGED history
      BY <1>1, <1>3
    <2> QED  BY <1>3, <2>1, <2>2, GoroutineStep
  <1>5. TypeOK'
    <2>1. ClusterTypeOK'
      BY <1>1 DEF IInv, TypeOK, ClusterTypeOK
    <2>2. ReceiverTypeOK'
      BY <1>1 DEF IInv, TypeOK, ReceiverTypeOK
    <2>3. EnricherTypeOK'
      BY <1>4 DEF IInv, TypeOK, EnricherTypeOK, CachesGrow
    <2>4. \A t \in Goroutines : receiver'[t] = "busy" <=> work'[t].pc # "idle"
      BY <1>1, OneGoes DEF IInv, TypeOK, EnricherTypeOK, At
    <2> QED  BY <1>1, <2>1, <2>2, <2>3, <2>4 DEF IInv, TypeOK, At
  <1>6. KnownSent'
    BY <1>1 DEF IInv, KnownSent, Known
  <1> QED  BY <1>4, <1>5, <1>6 DEF IInv, CachesGrow

-------------------------------------------------------------------------------
(* Steps within processLogs. *)

LEMMA IInvFacts ==
    ASSUME IInv, NEW g \in Goroutines
    PROVE  /\ ClusterTypeOK /\ EnricherTypeOK /\ KnownVersions
           /\ work[g] \in Work /\ Sound(work[g]) /\ Answers(work[g])
           /\ Known \subseteq Versions /\ Len(history) \in Nat /\ faults \in 0..MaxFaults
           /\ 0 \in 0..Len(history) /\ 0 \in 0..MaxVersions
           /\ \A v \in Known : history[v] \in Objects /\ history[v] # None
  <1>1. ClusterTypeOK /\ EnricherTypeOK /\ KnownVersions /\ Sound(work[g]) /\ Answers(work[g])
    BY DEF IInv, TypeOK
  <1> QED  BY <1>1, ClusterOK DEF ClusterTypeOK, Sound, WithinHistory, Known, Versions

LEMMA ObjectRecordsStep ==
    ASSUME IInv, NEW g \in Goroutines, ObjectRecords(g), Inside, UNCHANGED <<seen, queue, faults>>
    PROVE  IInv'
  <1> DEFINE w == [work[g] EXCEPT !.todo = {}]
  <1>1. /\ work[g] \in Work /\ Sound(work[g]) /\ work[g].pc = "record" /\ work[g].ref \in 0..MaxVersions
        /\ work[g].todo \subseteq Known
    BY IInvFacts DEF ObjectRecords, At, Sound, WithinHistory, Work
  <1>2. w \in Work /\ w.pc = "record" /\ w.carry = work[g].carry /\ w.ref = work[g].ref
    BY <1>1 DEF Work
  <1>3. Sound(w) /\ Answers(w)
    BY <1>1 DEF Work, Sound, WithinHistory, Answers
  <1>4. CachesGrow
    <2>1. UNCHANGED history
      BY DEF Inside, cluster
    <2> QED  BY <1>1, <2>1, RegisterGrows, UnchangedGrow, IInvFacts DEF ObjectRecords, caches
  <1>5. w.ref # 0 => \E v \in Announced \cup unsent' : v >= w.ref /\ history[v] = history[w.ref]
    BY <1>1, <1>2 DEF IInv, EventAnswered, At
  <1>6. Goes(g, w) /\ faults' \in 0..MaxFaults
    BY IInvFacts DEF ObjectRecords
  <1> HIDE DEF w
  <1> QED  BY <1>1, <1>2, <1>3, <1>4, <1>5, <1>6, InsideStep

LEMMA EventRecordStep ==
    ASSUME IInv, NEW g \in Goroutines, EventRecord(g), Inside, UNCHANGED <<seen, queue, faults>>
    PROVE  IInv'
  <1>1. PICK v \in work[g].todo :
            Goes(g, [work[g] EXCEPT !.todo = @ \ {v}, !.ref = v, !.pc = "walk", !.at = history[v]])
    BY DEF EventRecord
  <1> DEFINE w == [work[g] EXCEPT !.todo = @ \ {v}, !.ref = v, !.pc = "walk", !.at = history[v]]
  <1>2. /\ work[g] \in Work /\ Sound(work[g]) /\ work[g].pc = "record" /\ v \in Known
        /\ v \in Versions /\ history[v] \in Objects /\ history[v] # None
    BY IInvFacts DEF EventRecord, At, Sound, WithinHistory
  <1>3. v \in 0..MaxVersions /\ v \in 0..Len(history)
    BY <1>2, IInvFacts DEF Known, Versions
  <1>4. /\ w \in Work /\ w.pc = "walk" /\ w.carry = work[g].carry /\ w.ref = v /\ w.at = history[v]
        /\ w.todo \subseteq work[g].todo /\ w.records = work[g].records /\ w.got = work[g].got
    BY <1>2, <1>3 DEF Work
  <1>5. Sound(w) /\ Answers(w)
    <2> HIDE DEF w
    <2> QED  BY <1>2, <1>3, <1>4 DEF Sound, WithinHistory, Answers
  <1>6. CachesGrow
    BY UnchangedGrow, IInvFacts DEF EventRecord, Inside, cluster
  <1>7. Goes(g, w) /\ faults' \in 0..MaxFaults
    BY <1>1, IInvFacts
  <1> HIDE DEF w
  <1> QED  BY <1>2, <1>4, <1>5, <1>6, <1>7, InsideStep

LEMMA WalkStep ==
    ASSUME IInv, NEW g \in Goroutines, Walk(g), Inside, UNCHANGED <<seen, queue, faults>>
    PROVE  IInv'
  <1> DEFINE u == work[g]
             w == IF u.at \in generic THEN GoesUp(u)
                  ELSE IF Exists(u.at) THEN Fetched(u, stored[u.at]) ELSE AtRoot(u)
  <1>1. u \in Work /\ Sound(u) /\ u.pc = "walk" /\ u.at # None /\ u.at \in Objects
    BY IInvFacts DEF Walk, At, Sound, Work
  <1>2. /\ w \in Work /\ Sound(w) /\ Answers(w)
        /\ w.pc # "idle" /\ w.carry = u.carry /\ (w.pc = "record" => w.ref = 0)
    <2>1. CASE u.at \in generic
      BY <1>1, <2>1, GoesUpSound DEF Sound
    <2>2. CASE u.at \notin generic /\ Exists(u.at)
      <3>1. stored[u.at] \in Known /\ stored[u.at] \in 0..MaxVersions /\ stored[u.at] # 0
            /\ stored[u.at] \in 0..Len(history)
        BY <1>1, <2>2, StoredKnown, IInvFacts, ClusterOK DEF Known, Versions, Exists
      <3>2. w = [u EXCEPT !.pc = "fetched", !.got = stored[u.at]]
        BY <2>2 DEF Fetched
      <3> HIDE DEF u
      <3> QED  BY <1>1, <3>1, <3>2 DEF Work, Sound, WithinHistory, Answers
    <2>3. CASE u.at \notin generic /\ ~Exists(u.at)
      BY <1>1, <2>3, AtRootSound DEF Sound
    <2> QED  BY <2>1, <2>2, <2>3
  <1>3. CachesGrow
    BY UnchangedGrow, IInvFacts DEF Walk, Inside, cluster
  <1>4. Goes(g, w) /\ faults' \in 0..MaxFaults
    BY IInvFacts DEF Walk
  <1>5. u.pc # "idle" /\ w.carry = work[g].carry
    BY <1>1, <1>2
  <1> HIDE DEF w
  <1> QED  BY <1>2, <1>3, <1>4, <1>5, InsideStep

LEMMA EnsureStep ==
    ASSUME IInv, NEW g \in Goroutines, Ensure(g), Inside, UNCHANGED <<seen, queue, faults>>
    PROVE  IInv'
  <1> DEFINE u == work[g]
  <1>1. /\ u \in Work /\ Sound(u) /\ u.pc = "ensure" /\ faults' \in 0..MaxFaults
        /\ u.ref \in 0..Len(history)
    BY IInvFacts DEF Ensure, At, Sound, WithinHistory
  <1>2. CachesGrow
    BY UnchangedGrow, IInvFacts DEF Ensure, Inside, cluster
  <1>3. CASE u.ref \in cached
    <2> DEFINE w == [u EXCEPT !.pc = "record"]
    <2>1. w \in Work /\ Sound(w) /\ Answers(w) /\ w.pc = "record" /\ w.carry = u.carry /\ w.ref = u.ref
      BY <1>1 DEF Work, Sound, WithinHistory, Answers
    <2>2. w.ref \in Announced /\ w.ref >= w.ref
      BY <1>1, <1>3, <2>1 DEF IInv, NothingVanishes
    <2>3. Goes(g, w)
      BY <1>3 DEF Ensure
    <2> HIDE DEF w
    <2> QED  BY <1>1, <1>2, <2>1, <2>2, <2>3, InsideStep
  <1>4. CASE u.ref \notin cached /\ ~Exists(history[u.ref])
    <2> DEFINE w == [u EXCEPT !.pc = "record", !.ref = 0]
    <2>1. w \in Work /\ Sound(w) /\ Answers(w) /\ w.pc = "record" /\ w.carry = u.carry /\ w.ref = 0
      <3>1. 0 \in 0..Len(history) /\ 0 \in 0..MaxVersions
        BY IInvFacts
      <3> QED  BY <1>1, <3>1 DEF Work, Sound, WithinHistory, Answers
    <2>2. Goes(g, w)
      BY <1>4 DEF Ensure, FetchVersion
    <2> HIDE DEF w
    <2> QED  BY <1>1, <1>2, <2>1, <2>2, InsideStep
  <1>5. CASE u.ref \notin cached /\ Exists(history[u.ref])
    <2>1. PICK v \in VersionsOf(history[u.ref]) : u.ref <= v /\ Goes(g, Fetched(u, v))
      BY <1>5 DEF Ensure, FetchVersion
    <2> DEFINE w == Fetched(u, v)
    <2>2. /\ v \in Known /\ v \in 0..MaxVersions /\ v \in 0..Len(history) /\ v # 0
          /\ v >= u.ref /\ history[v] = history[u.ref]
      BY <1>1, <2>1, IInvFacts, ClusterOK DEF VersionsOf, Known, Versions
    <2>3. /\ w \in Work /\ w.pc = "fetched" /\ w.carry = u.carry /\ w.ref = u.ref /\ w.got = v
          /\ w.records = u.records /\ w.todo = u.todo
      BY <1>1, <2>2 DEF Work, Fetched
    <2> HIDE DEF w
    <2>4. Sound(w) /\ Answers(w)
      BY <1>1, <2>2, <2>3 DEF Sound, WithinHistory, Answers
    <2>5. Goes(g, w)
      BY <2>1 DEF w
    <2> QED  BY <1>1, <1>2, <2>3, <2>4, <2>5, InsideStep
  <1> QED  BY <1>3, <1>4, <1>5

LEMMA RegisterFetchedStep ==
    ASSUME IInv, NEW g \in Goroutines, RegisterFetched(g), Inside, UNCHANGED <<seen, queue, faults>>
    PROVE  IInv'
  <1> DEFINE u == work[g]
             b == [u EXCEPT !.got = 0]
             w == IF b.at = None THEN [b EXCEPT !.pc = "record"] ELSE GoesUp(b)
  <1>1. /\ WithinHistory(u) /\ Answers(u) /\ u.pc = "fetched" /\ faults' \in 0..MaxFaults
        /\ u.got \in Known
    BY IInvFacts DEF RegisterFetched, At, Sound, WithinHistory, Known
  <1>2. /\ WithinHistory(b) /\ b.at = u.at /\ b.carry = u.carry /\ b.ref = u.ref
    <2>1. Len(history) \in Nat
      BY IInvFacts
    <2> QED  BY <1>1, <2>1, ClusterOK DEF WithinHistory, Work
  <1>3. CachesGrow /\ u.got \in Announced \cup unsent'
    <2>1. UNCHANGED history /\ Register({u.got})
      BY DEF Inside, cluster, RegisterFetched
    <2>2. CachesGrow
      BY <1>1, <2>1, RegisterGrows, IInvFacts
    <2>3. u.got \in cached \/ u.got \in unsent'
      BY <2>1 DEF Register
    <2> QED  BY <2>2, <2>3 DEF IInv, NothingVanishes
  <1>4. Goes(g, w)
    BY DEF RegisterFetched
  <1>5. /\ w \in Work /\ Sound(w) /\ Answers(w) /\ w.pc # "idle" /\ w.carry = u.carry
        /\ w.pc = "record" /\ w.ref # 0 => u.at = None /\ w.ref = u.ref
    <2>1. CASE b.at = None
      <3>1. w = [b EXCEPT !.pc = "record"]
        BY <2>1
      <3> HIDE DEF b
      <3> QED  BY <1>2, <2>1, <3>1 DEF Work, WithinHistory, Sound, Answers
    <2>2. CASE b.at # None
      <3> HIDE DEF b
      <3> QED  BY <1>2, <2>2, GoesUpSound DEF WithinHistory
    <2> QED  BY <2>1, <2>2
  <1>6. w.pc = "record" /\ w.ref # 0 =>
            \E v \in Announced \cup unsent' : v >= w.ref /\ history[v] = history[w.ref]
    BY <1>1, <1>3, <1>5 DEF Answers
  <1> HIDE DEF w
  <1> QED  BY <1>1, <1>3, <1>4, <1>5, <1>6, InsideStep

LEMMA RequestFailsStep ==
    ASSUME IInv, NEW g \in Goroutines, RequestFails(g), Inside, faults' \in 0..MaxFaults
    PROVE  IInv'
  <1> DEFINE u == work[g]
             w == [u EXCEPT !.pc = "record", !.ref = 0, !.at = None]
  <1>1. u \in Work /\ Sound(u) /\ u.pc # "idle"
    BY IInvFacts DEF RequestFails, At
  <1>2. w \in Work /\ Sound(w) /\ Answers(w) /\ w.pc = "record" /\ w.carry = u.carry /\ w.ref = 0
    <2>1. 0 \in 0..Len(history) /\ 0 \in 0..MaxVersions
      BY IInvFacts
    <2> QED  BY <1>1, <2>1 DEF Work, Sound, WithinHistory, Answers
  <1>3. CachesGrow
    BY UnchangedGrow, IInvFacts DEF RequestFails, Inside, cluster
  <1>4. Goes(g, w) /\ UNCHANGED <<seen, queue>>
    BY DEF RequestFails
  <1> HIDE DEF w
  <1> QED  BY <1>1, <1>2, <1>3, <1>4, InsideStep

-------------------------------------------------------------------------------
(* Steps of the receiver, and batches that come and go. *)

LEMMA ConsumeStep ==
    ASSUME IInv, NEW g \in Goroutines, Consume(g)
    PROVE  IInv'
  <1>1. PICK records \in Readable(g) :
            /\ Receive(g, records)
            /\ Starts(g, [Rest EXCEPT !.records = records, !.todo = records])
    BY DEF Consume
  <1> DEFINE b == [Rest EXCEPT !.records = records, !.todo = records]
  <1>2. UNCHANGED <<history, stored, events, addressless, caches, seen, queue, faults, exported, lost>>
    BY DEF Consume, cluster, sent
  <1>3. records \subseteq Known
    <2>1. ClusterTypeOK /\ ReceiverTypeOK
      BY DEF IInv, TypeOK
    <2>2. CASE Pulls(g) /\ ConcernsEvents(g)
      BY <2>1, <2>2 DEF Readable, ClusterTypeOK, Known
    <2>3. CASE Pulls(g) /\ ~ConcernsEvents(g)
      BY <2>1, <2>3, StoredKnown DEF Readable
    <2>4. CASE ~Pulls(g)
      <3>1. position[g] + 1 \in DOMAIN Stream(g) /\ records = {Stream(g)[position[g] + 1]}
        BY <2>1, <2>4 DEF Readable, Stream, ReceiverTypeOK, ClusterTypeOK
      <3> QED  BY <2>1, <3>1 DEF Stream, ClusterTypeOK, Known
    <2> QED  BY <2>2, <2>3, <2>4
  <1>4. WithinHistory(b) /\ b.ref = 0 /\ b.carry = {}
    BY <1>3, IInvFacts, ClusterOK DEF Rest, WithinHistory, Work
  <1>5. PICK w \in Work : /\ Goes(g, w) /\ Sound(w) /\ Answers(w)
                          /\ w.pc # "idle" /\ w.carry = {} /\ w.ref = 0
    <2>1. Starts(g, b)
      BY <1>1
    <2> HIDE DEF b
    <2> QED  BY <1>4, <2>1, StartsSound, IInvFacts DEF WithinHistory
  <1>6. work[g].carry = {} /\ receiver[g] = "waiting"
    <2>1. receiver[g] = "waiting" /\ work[g].pc = "idle"
      BY <1>1 DEF Receive, IInv, TypeOK, At
    <2> QED  BY <2>1, IInvFacts, RestIsWork DEF Sound
  <1>7. /\ Goes(g, w) /\ work \in [Pipelines -> Work]
    BY <1>5 DEF IInv, TypeOK, EnricherTypeOK
  <1>8. Announced \subseteq Announced' /\ cached' \subseteq Announced'
    <2>1. Carried \subseteq Carried'
      BY <1>5, <1>6, <1>7, CarriedAfter
    <2> QED  BY <1>2, <2>1 DEF Announced, caches, IInv, NothingVanishes
  <1>9. /\ work' \in [Pipelines -> Work]
        /\ (\A t \in Goroutines : Sound(work[t]) /\ Answers(work[t]))'
        /\ NothingVanishes' /\ EventAnswered'
    BY <1>2, <1>5, <1>7, <1>8, GoroutineStep
  <1>10. TypeOK'
    <2>1. ClusterTypeOK'
      BY <1>2 DEF IInv, TypeOK, ClusterTypeOK
    <2>2. ReceiverTypeOK' /\ receiver' = [receiver EXCEPT ![g] = "busy"]
      BY <1>1 DEF IInv, TypeOK, ReceiverTypeOK, ReceiverStates, Receive, Become
    <2>3. EnricherTypeOK'
      BY <1>2, <1>9 DEF IInv, TypeOK, EnricherTypeOK, caches
    <2>4. \A t \in Goroutines : receiver'[t] = "busy" <=> work'[t].pc # "idle"
      BY <2>2, <1>5, <1>7, OneGoes DEF IInv, TypeOK, ReceiverTypeOK, At
    <2> QED  BY <1>2, <2>1, <2>2, <2>3, <2>4 DEF IInv, TypeOK, At
  <1> QED  BY <1>2, <1>9, <1>10 DEF IInv, KnownVersions, KnownSent, caches, Known

(* A batch that leaves a pipeline takes what is in the channel along; all  *)
(* it carries is exported, dropped or goes on.                             *)
LEMMA BatchLeaves ==
    ASSUME IInv, NEW g \in Goroutines, NEW w \in Work, Goes(g, w), Sound(w), Answers(w), w.ref = 0,
           At(g, "record"), queue' = {}, UNCHANGED <<cluster, caches, seen, faults>>,
           Carry(g) \subseteq w.carry \cup exported' \cup lost',
           exported \subseteq exported', exported' \subseteq Known,
           lost \subseteq lost', lost' \subseteq Known,
           \/ w.pc = "idle" /\ ConsumeReturns(g)
           \/ w.pc # "idle" /\ UNCHANGED receiving
    PROVE  IInv'
  <1>1. UNCHANGED <<history, stored, events, addressless, cached, generic, byUid, unsent>>
    BY DEF cluster, caches
  <1>2. work \in [Pipelines -> Work] /\ work'[g] = w /\ \A t \in Goroutines : t # g => work'[t] = work[t]
    BY OneGoes DEF IInv, TypeOK, EnricherTypeOK
  <1>3. Announced \subseteq Announced' /\ cached' \subseteq Announced'
    <2>1. queue \cup Carried \subseteq Carried' \cup exported' \cup lost'
      BY <1>2, CarriedAfter DEF Carry
    <2> QED  BY <1>1, <2>1 DEF Announced, IInv, NothingVanishes
  <1>4. /\ work' \in [Pipelines -> Work]
        /\ (\A t \in Goroutines : Sound(work[t]) /\ Answers(work[t]))'
        /\ NothingVanishes' /\ EventAnswered'
    BY <1>1, <1>3, GoroutineStep
  <1>5. TypeOK'
    <2> exported' \subseteq Versions /\ lost' \subseteq Versions
      BY IInvFacts
    <2>1. ClusterTypeOK'
      BY <1>1 DEF IInv, TypeOK, ClusterTypeOK
    <2>2. EnricherTypeOK'
      <3>1. Cardinality({}) = 0 /\ QueueSize \in Nat
        BY FS_EmptySet, EnricherOK
      <3> QED  BY <1>1, <1>4, <3>1 DEF IInv, TypeOK, EnricherTypeOK
    <2>3. receiver[g] = "busy"
      BY DEF IInv, TypeOK, At
    <2>4. CASE w.pc = "idle" /\ ConsumeReturns(g)
      <3>1. ReceiverTypeOK' /\ receiver' = [receiver EXCEPT ![g] = "waiting"]
        BY <2>4 DEF IInv, TypeOK, ReceiverTypeOK, ReceiverStates, ConsumeReturns, Become
      <3>2. \A t \in Goroutines : receiver'[t] = "busy" <=> work'[t].pc # "idle"
        BY <1>2, <2>4, <3>1 DEF IInv, TypeOK, ReceiverTypeOK, At
      <3> QED  BY <2>1, <2>2, <3>1, <3>2 DEF IInv, TypeOK, At
    <2>5. CASE w.pc # "idle" /\ UNCHANGED receiving
      <3>1. ReceiverTypeOK' /\ receiver' = receiver
        BY <2>5 DEF IInv, TypeOK, ReceiverTypeOK, receiving
      <3>2. \A t \in Goroutines : receiver'[t] = "busy" <=> work'[t].pc # "idle"
        BY <1>2, <2>3, <2>5, <3>1 DEF IInv, TypeOK, ReceiverTypeOK, At
      <3> QED  BY <2>1, <2>2, <3>1, <3>2 DEF IInv, TypeOK, At
    <2> QED  BY <2>4, <2>5
  <1> QED  BY <1>1, <1>4, <1>5 DEF IInv, KnownVersions, KnownSent, Known

LEMMA RouteStep ==
    ASSUME IInv, NEW g \in Goroutines, Route(g), UNCHANGED <<cluster, caches, seen, faults>>
    PROVE  IInv'
  <1>1. /\ At(g, "record") /\ queue' = {} /\ UNCHANGED exported
        /\ lost' = lost \cup (Carry(g) \ RoutedCarry(g))
    BY DEF Route, Drained
  <1>2. /\ RoutedCarry(g) \subseteq Carry(g) /\ Carry(g) \subseteq Known /\ Carry(g) \subseteq Versions
        /\ RoutedRecords(g) \subseteq Known
    BY IInvFacts DEF RoutedCarry, RoutedRecords, Carry, KnownVersions, Sound, WithinHistory
  <1>3. lost' \subseteq Known /\ exported' \subseteq Known /\ lost \subseteq lost' /\ exported \subseteq exported'
    BY <1>1, <1>2 DEF IInv, KnownSent
  <1>4. CASE RoutedRecords(g) \cup RoutedCarry(g) = {}
    <2>1. Goes(g, Rest) /\ ConsumeReturns(g)
      BY <1>4 DEF Route
    <2>2. Carry(g) \subseteq Rest.carry \cup exported' \cup lost'
      BY <1>1, <1>4
    <2> QED  BY <1>1, <1>3, <2>1, <2>2, RestIsWork, SoundRest, BatchLeaves, IInvFacts DEF ClusterTypeOK
  <1>5. CASE RoutedRecords(g) \cup RoutedCarry(g) # {}
    <2> DEFINE b(again) == [Rest EXCEPT !.stage = "namespace", !.records = RoutedRecords(g),
                                        !.todo = RoutedRecords(g) \cup again,
                                        !.carry = RoutedCarry(g), !.kept = TRUE]
    <2>1. PICK again \in SUBSET RoutedCarry(g) : Starts(g, b(again))
      BY <1>5 DEF Route
    <2>2. WithinHistory(b(again)) /\ b(again).ref = 0 /\ b(again).carry = RoutedCarry(g)
      BY <1>2, IInvFacts, ClusterOK DEF Rest, WithinHistory, Work
    <2>3. PICK w \in Work : /\ Goes(g, w) /\ Sound(w) /\ Answers(w)
                            /\ w.pc # "idle" /\ w.carry = RoutedCarry(g) /\ w.ref = 0
      <3> HIDE DEF b
      <3> QED  BY <2>1, <2>2, StartsSound, IInvFacts DEF WithinHistory
    <2>4. UNCHANGED receiving
      BY <1>5 DEF Route
    <2> QED  BY <1>1, <1>3, <2>3, <2>4, BatchLeaves
  <1> QED  BY <1>4, <1>5

LEMMA ExportStep ==
    ASSUME IInv, NEW g \in Goroutines, Export(g), UNCHANGED <<cluster, caches, seen, faults>>
    PROVE  IInv'
  <1> DEFINE more == IF ConcernsEvents(g) THEN {} ELSE work[g].records
  <1>1. /\ At(g, "record") /\ queue' = {} /\ UNCHANGED lost /\ exported' = exported \cup Carry(g) \cup more
        /\ Goes(g, Rest) /\ ConsumeReturns(g)
    BY DEF Export, Drained
  <1>2. Carry(g) \cup more \subseteq Known
    BY IInvFacts DEF Carry, KnownVersions, Sound, WithinHistory
  <1> HIDE DEF more
  <1>3. /\ lost' \subseteq Known /\ exported' \subseteq Known /\ lost \subseteq lost' /\ exported \subseteq exported'
        /\ Carry(g) \subseteq Rest.carry \cup exported' \cup lost'
    BY <1>1, <1>2 DEF IInv, KnownSent
  <1> QED  BY <1>1, <1>3, RestIsWork, SoundRest, BatchLeaves, IInvFacts DEF ClusterTypeOK

LEMMA SameWork ==
    ASSUME UNCHANGED <<history, work>>, \A g \in Goroutines : Sound(work[g]) /\ Answers(work[g])
    PROVE  (\A g \in Goroutines : Sound(work[g]) /\ Answers(work[g]))'
  BY DEF Sound, WithinHistory, Answers, Known, Work, Versions, Rest

(* What the receiver does by itself touches neither cache nor batches.     *)
LEMMA ReceiverAlone ==
    ASSUME IInv, UNCHANGED <<cluster, enricher, sent>>, faults' \in 0..MaxFaults, ReceiverTypeOK',
           \A g \in Goroutines : receiver'[g] = "busy" <=> receiver[g] = "busy"
    PROVE  IInv'
  <1>1. UNCHANGED <<history, stored, events, addressless, cached, generic, byUid, unsent, seen, queue, work,
                    exported, lost>>
    BY DEF cluster, enricher, caches, sent
  <1>2. TypeOK'
    BY <1>1 DEF IInv, TypeOK, ClusterTypeOK, EnricherTypeOK, At
  <1>3. KnownVersions' /\ KnownSent'
    BY <1>1 DEF IInv, KnownVersions, KnownSent, Known
  <1>4. Announced' = Announced
    BY <1>1 DEF Announced, Carried
  <1>5. NothingVanishes' /\ EventAnswered'
    BY <1>1, <1>4 DEF IInv, NothingVanishes, EventAnswered, At
  <1> QED  BY <1>1, <1>2, <1>3, <1>5, SameWork DEF IInv

LEMMA ReceivingStep ==
    ASSUME IInv, NEW g \in Goroutines,
           \/ Receiving(g)
           \/ Faulty(g) /\ UNCHANGED <<cluster, enricher, sent>> /\ faults' \in 0..MaxFaults
    PROVE  IInv'
  <1>1. ReceiverTypeOK /\ faults \in 0..MaxFaults /\ Len(Stream(g)) \in Nat
    BY DEF IInv, TypeOK, ClusterTypeOK, Stream
  <1>2. UNCHANGED <<cluster, enricher, sent>> /\ faults' \in 0..MaxFaults
    BY <1>1 DEF Receiving
  <1>3. ReceiverTypeOK' /\ \A t \in Goroutines : receiver'[t] = "busy" <=> receiver[t] = "busy"
    BY <1>1 DEF Receiving, Faulty, RegisterStopper, GetResourceVersion, Stops, ListFails, Gone, ChannelCloses,
                Become, ReceiverTypeOK, ReceiverStates
  <1> QED  BY <1>2, <1>3, ReceiverAlone

LEMMA ReloadStep ==
    ASSUME IInv, Reload, UNCHANGED <<cluster, enricher, sent>>, faults' \in 0..MaxFaults
    PROVE  IInv'
  <1>1. ReceiverTypeOK' /\ \A g \in Goroutines : receiver'[g] = "busy" <=> receiver[g] = "busy"
    BY DEF Reload, IInv, TypeOK, ReceiverTypeOK, ReceiverStates
  <1> QED  BY <1>1, ReceiverAlone

(* Steps beside the goroutines of the receiver: no batch changes, and what *)
(* is new to the cache waits to be sent.                                   *)
LEMMA CacheAlone ==
    ASSUME IInv, Inside, UNCHANGED work, faults' \in 0..MaxFaults, EnricherTypeOK', KnownVersions',
           unsent \cup queue \subseteq unsent' \cup queue', cached' \subseteq cached \cup unsent'
    PROVE  IInv'
  <1>1. UNCHANGED <<history, stored, events, addressless, receiver, position, closed, exported, lost, work>>
    BY DEF Inside, cluster, receiving, sent
  <1>2. Carried' = Carried /\ Announced \subseteq Announced' /\ cached' \subseteq Announced'
    BY <1>1 DEF Carried, Announced, IInv, NothingVanishes
  <1>3. EventAnswered' /\ NothingVanishes'
    BY <1>1, <1>2 DEF IInv, EventAnswered, NothingVanishes, At
  <1>4. TypeOK'
    BY <1>1 DEF IInv, TypeOK, ClusterTypeOK, ReceiverTypeOK, At
  <1> QED  BY <1>1, <1>3, <1>4, SameWork DEF IInv, KnownSent, Known

LEMMA SendingStep ==
    ASSUME IInv, Sending
    PROVE  IInv'
  <1>1. PICK v \in unsent : Send(v) /\ Inside /\ UNCHANGED faults
    BY DEF Sending
  <1>2. Cardinality(queue') <= QueueSize
    <2>1. IsFiniteSet(queue)
      <3>1. IsFiniteSet(1..MaxVersions)
        BY FS_Interval, ClusterOK
      <3> QED  BY <3>1, FS_Subset DEF IInv, TypeOK, EnricherTypeOK, Versions
    <2>2. Cardinality(queue) \in Nat /\ QueueSize \in Nat
      BY <2>1, FS_CardinalityType, EnricherOK
    <2>3. Cardinality(queue \cup {v}) <= Cardinality(queue) + 1
      BY <2>1, <2>2, FS_AddElement
    <2>4. IsFiniteSet(queue \cup {v})
      BY <2>1, FS_AddElement
    <2> QED  BY <1>1, <2>2, <2>3, <2>4, FS_CardinalityType DEF Send
  <1>3. EnricherTypeOK' /\ KnownVersions'
    BY <1>1, <1>2 DEF IInv, TypeOK, EnricherTypeOK, KnownVersions, Known, Send, Inside, cluster
  <1>4. unsent \cup queue \subseteq unsent' \cup queue' /\ cached' \subseteq cached \cup unsent'
    BY <1>1 DEF Send
  <1>5. UNCHANGED work /\ faults' \in 0..MaxFaults
    BY <1>1 DEF Send, IInv, TypeOK, ClusterTypeOK
  <1> QED  BY <1>1, <1>3, <1>4, <1>5, CacheAlone

LEMMA InformingStep ==
    ASSUME IInv, NEW o \in Objects, Informing(o)
    PROVE  IInv'
  <1>1. PICK v \in VersionsOf(o) : seen' = [seen EXCEPT ![o] = v] /\ Register({v})
    BY DEF Informing, Inform
  <1>2. UNCHANGED <<queue, work, faults, history>> /\ Inside
    BY DEF Informing, Inform, Inside, cluster
  <1>3. v \in Known /\ v \in 0..MaxVersions
    BY ClusterOK DEF VersionsOf, Known, IInv, TypeOK, ClusterTypeOK
  <1>4. CachesGrow
    BY <1>1, <1>2, <1>3, RegisterGrows DEF IInv, TypeOK
  <1>5. EnricherTypeOK' /\ KnownVersions'
    BY <1>1, <1>2, <1>3, <1>4 DEF IInv, TypeOK, EnricherTypeOK, CachesGrow
  <1>6. faults' \in 0..MaxFaults /\ cached' \subseteq cached \cup unsent' /\ unsent \cup queue \subseteq unsent' \cup queue'
    BY <1>2, <1>4 DEF IInv, TypeOK, ClusterTypeOK, CachesGrow
  <1> QED  BY <1>2, <1>5, <1>6, CacheAlone

LEMMA InformAgainStep ==
    ASSUME IInv, InformAgain, Inside, faults' \in 0..MaxFaults
    PROVE  IInv'
  <1>1. PICK v \in Known : Register({v})
    BY DEF InformAgain, Known
  <1>2. UNCHANGED <<seen, queue, work, history>>
    BY DEF InformAgain, Inside, cluster
  <1>3. CachesGrow
    BY <1>1, <1>2, RegisterGrows DEF IInv, TypeOK
  <1>4. EnricherTypeOK' /\ KnownVersions'
    BY <1>2, <1>3 DEF IInv, TypeOK, EnricherTypeOK, CachesGrow
  <1>5. cached' \subseteq cached \cup unsent' /\ unsent \cup queue \subseteq unsent' \cup queue'
    BY <1>2, <1>3 DEF CachesGrow
  <1> QED  BY <1>2, <1>4, <1>5, CacheAlone

LEMMA EvictStep ==
    ASSUME IInv, Evict, Inside, faults' \in 0..MaxFaults
    PROVE  IInv'
  <1>1. EnricherTypeOK' /\ KnownVersions'
    BY DEF IInv, TypeOK, EnricherTypeOK, KnownVersions, Known, Evict, Inside, cluster
  <1>2. UNCHANGED <<work, unsent, queue>> /\ cached' \subseteq cached
    BY DEF Evict
  <1> QED  BY <1>1, <1>2, CacheAlone

-------------------------------------------------------------------------------
(* Steps of the cluster. *)

(* Nothing changes for the collector but that the history gets longer.     *)
LEMMA ClusterAlone ==
    ASSUME IInv, UNCHANGED <<receiving, enricher, sent>>, ClusterTypeOK', Known \subseteq Known',
           \A v \in Known : history'[v] = history[v]
    PROVE  IInv'
  <1>1. UNCHANGED <<receiver, position, closed, cached, generic, byUid, unsent, seen, queue, work, exported, lost>>
    BY DEF receiving, enricher, caches, sent
  <1>2. ClusterTypeOK /\ Len(history) \in Nat /\ Len(history') \in Nat /\ Len(history) <= Len(history')
    <2>1. ClusterTypeOK /\ Len(history) \in Nat /\ Len(history') \in Nat
      BY DEF IInv, TypeOK, ClusterTypeOK
    <2> QED  BY <2>1 DEF Known
  <1>3. TypeOK' /\ KnownVersions' /\ KnownSent' /\ NothingVanishes'
    BY <1>1 DEF IInv, TypeOK, ReceiverTypeOK, EnricherTypeOK, KnownVersions, KnownSent, NothingVanishes, Announced,
                Carried, At, VersionsOf
  <1>4. ASSUME NEW g \in Goroutines PROVE (Sound(work[g]) /\ Answers(work[g]))'
    <2>1. WithinHistory(work[g]) /\ Sound(work[g]) /\ Answers(work[g]) /\ work'[g] = work[g]
      BY <1>1 DEF IInv, Sound
    <2>2. Sound(work[g])'
      BY <1>1, <1>2, <2>1 DEF Sound, WithinHistory, Work, Rest, Versions
    <2>3. Answers(work[g])'
      BY <1>2, <2>1 DEF Answers, WithinHistory, Known
    <2> QED  BY <2>2, <2>3
  <1>5. EventAnswered'
    <2> SUFFICES ASSUME NEW g \in Goroutines, At(g, "record"), work[g].ref # 0
                 PROVE  \E v \in Announced' : v >= work[g].ref /\ history'[v] = history'[work[g].ref]
      BY <1>1 DEF EventAnswered, At
    <2>1. PICK v \in Announced : v >= work[g].ref /\ history[v] = history[work[g].ref]
      BY DEF IInv, EventAnswered
    <2>2. work[g].ref \in Known
      BY <1>2 DEF IInv, Sound, WithinHistory, Known
    <2>3. v \in Announced'
      BY <1>1, <2>1 DEF Announced, Carried
    <2>4. v \in Known
      BY <2>1 DEF IInv, KnownVersions, KnownSent, Announced, Carried, Sound, WithinHistory
    <2> QED  BY <2>1, <2>2, <2>3, <2>4
  <1> QED  BY <1>3, <1>4, <1>5 DEF IInv

LEMMA ClusterStep ==
    ASSUME IInv, Cluster, UNCHANGED <<receiving, enricher, sent>>
    PROVE  IInv'
  <1>1. ClusterTypeOK
    BY DEF IInv, TypeOK
  <1>2. faults' \in 0..MaxFaults
    BY <1>1, ClusterOK DEF Cluster, Disturbed, ClusterTypeOK
  <1>3. ASSUME NEW o \in Objects, Change(o)
        PROVE  ClusterTypeOK' /\ Known \subseteq Known' /\ \A v \in Known : history'[v] = history[v]
    <2>1. /\ history' = Append(history, o) /\ Len(history) < MaxVersions
          /\ stored' = [stored EXCEPT ![o] = Len(history) + 1] /\ UNCHANGED <<events, addressless>>
      BY <1>3 DEF Change
    <2>2. /\ history \in Seq(Objects) /\ Len(history) \in Nat /\ MaxVersions \in Nat
          /\ stored \in [Objects -> 0..Len(history)]
      BY <1>1, ClusterOK DEF ClusterTypeOK
    <2>3. /\ history' \in Seq(Objects) /\ Len(history') = Len(history) + 1
          /\ history'[Len(history) + 1] = o /\ \A v \in Known : history'[v] = history[v]
      BY <2>1, <2>2 DEF Known
    <2>4. stored' \in [Objects -> 0..Len(history')]
      BY <2>1, <2>2, <2>3
    <2>5. \A p \in Objects : stored'[p] # 0 => history'[stored'[p]] = p
      <3> SUFFICES ASSUME NEW p \in Objects, stored'[p] # 0 PROVE history'[stored'[p]] = p
        OBVIOUS
      <3>1. CASE p = o
        BY <3>1, <2>1, <2>2, <2>3
      <3>2. CASE p # o
        <4>1. stored'[p] = stored[p] /\ stored[p] \in Known /\ history[stored[p]] = p
          BY <3>2, <1>1, <2>1, <2>2, StoredKnown DEF Exists
        <4> QED  BY <4>1, <2>3
      <3> QED  BY <3>1, <3>2
    <2>6. events' \in Seq(1..Len(history')) /\ Len(events') <= MaxEvents
      <3>1. events \in Seq(1..Len(history)) /\ Len(events) <= MaxEvents
        BY <1>1 DEF ClusterTypeOK
      <3> QED  BY <3>1, <2>1, <2>2, <2>3
    <2>7. addressless' \in Places /\ (addressless' \in Pods => stored'[addressless'] # 0)
      <3>1. addressless \in Places /\ (addressless \in Pods => stored[addressless] # 0) /\ Pods \subseteq Objects
        BY <1>1, ClusterOK DEF ClusterTypeOK
      <3> QED  BY <3>1, <2>1, <2>2
    <2> QED  BY <1>2, <2>1, <2>2, <2>3, <2>4, <2>5, <2>6, <2>7 DEF ClusterTypeOK, Known
  <1>4. ASSUME NEW o \in Objects, Delete(o)
        PROVE  ClusterTypeOK' /\ Known \subseteq Known' /\ \A v \in Known : history'[v] = history[v]
    <2>1. stored' = [stored EXCEPT ![o] = 0] /\ UNCHANGED <<history, events>>
      BY <1>4 DEF Delete
    <2>2. addressless' \in Places /\ (addressless' \in Pods => stored'[addressless'] # 0)
      BY <1>1, <1>4, ClusterOK DEF Delete, ClusterTypeOK, Places
    <2> QED  BY <1>1, <1>2, <2>1, <2>2 DEF ClusterTypeOK, Known
  <1>5. ASSUME EmitEvent
        PROVE  ClusterTypeOK' /\ Known \subseteq Known' /\ \A v \in Known : history'[v] = history[v]
    BY <1>1, <1>2, <1>5, ClusterOK DEF EmitEvent, ClusterTypeOK, Known
  <1>6. ASSUME MoveAddressless
        PROVE  ClusterTypeOK' /\ Known \subseteq Known' /\ \A v \in Known : history'[v] = history[v]
    BY <1>1, <1>2, <1>6, ClusterOK DEF MoveAddressless, ClusterTypeOK, Known, Places, Exists
  <1> QED  BY <1>3, <1>4, <1>5, <1>6, ClusterAlone DEF Cluster

-------------------------------------------------------------------------------
(* The theorems. *)

LEMMA InitIInv == Init => IInv
  <1> SUFFICES ASSUME Init PROVE IInv
    OBVIOUS
  <1>1. ClusterTypeOK
    BY ClusterOK DEF Init, ClusterInit, ClusterTypeOK, Places
  <1>2. ReceiverTypeOK
    BY DEF Init, ReceiverInit, ReceiverTypeOK, ReceiverStates
  <1>3. EnricherTypeOK
    <2>1. Cardinality({}) = 0 /\ QueueSize \in Nat /\ MaxVersions \in Nat
      BY FS_EmptySet, EnricherOK, ClusterOK
    <2> QED  BY <2>1, RestIsWork DEF Init, EnricherInit, EnricherTypeOK
  <1>4. \A g \in Goroutines : work[g] = Rest /\ receiver[g] = "new"
    BY PipelineOK DEF Init, EnricherInit, ReceiverInit
  <1>5. TypeOK
    BY <1>1, <1>2, <1>3, <1>4, RestIsWork DEF Init, TypeOK, At
  <1> QED  BY <1>1, <1>4, <1>5, RestIsWork, SoundRest
           DEF Init, EnricherInit, IInv, ClusterTypeOK, KnownVersions, KnownSent, NothingVanishes, EventAnswered, At

LEMMA NextIInv == IInv /\ [Next]_vars => IInv'
  <1> SUFFICES ASSUME IInv, [Next]_vars PROVE IInv'
    OBVIOUS
  <1>1. ASSUME NEW g \in Goroutines, Consume(g) PROVE IInv'
    BY <1>1, ConsumeStep
  <1>2. ASSUME NEW g \in Goroutines, Leave(g) PROVE IInv'
    BY <1>2, RouteStep, ExportStep DEF Leave
  <1>3. ASSUME NEW g \in Goroutines, Receiving(g) PROVE IInv'
    BY <1>3, ReceivingStep
  <1>4. ASSUME NEW g \in Goroutines, Enriching(g) PROVE IInv'
    BY <1>4, ObjectRecordsStep, EventRecordStep, WalkStep, EnsureStep, RegisterFetchedStep DEF Enriching, Enrich
  <1>5. ASSUME Disturb PROVE IInv'
    <2>1. faults' \in 0..MaxFaults
      BY <1>5, ClusterOK DEF Disturb, Disturbed, IInv, TypeOK, ClusterTypeOK
    <2> QED  BY <1>5, <2>1, ReceivingStep, ReloadStep, RequestFailsStep, EvictStep, InformAgainStep DEF Disturb
  <1>6. ASSUME UNCHANGED vars PROVE IInv'
    <2>1. UNCHANGED <<cluster, enricher, sent>> /\ UNCHANGED <<receiver, position, closed, faults>>
      BY <1>6 DEF vars, receiving, sent
    <2> QED  BY <2>1, ReceiverAlone DEF IInv, TypeOK, ReceiverTypeOK, ClusterTypeOK
  <1> QED  BY <1>1, <1>2, <1>3, <1>4, <1>5, <1>6, SendingStep, InformingStep, ClusterStep DEF Next

THEOREM Invariance == Spec => []IInv
  BY InitIInv, NextIInv, PTL DEF Spec

(* Type correctness: among others, the channel never holds more than its   *)
(* capacity (ObjectResourceVersions), and a goroutine of the receiver is   *)
(* busy exactly while one batch of its is in processLogs.                  *)
THEOREM TypeCorrect == Spec => []TypeOK
  <1>1. IInv => TypeOK  BY DEF IInv
  <1> QED  BY <1>1, Invariance, PTL

(* Whatever goroutines, informers, evictions, failures and reloads do: a   *)
(* version with a key in the cache waits to be sent, is in the channel, is *)
(* carried by a batch, or has been exported or dropped by the pipelines    *)
(* (lruWithIndexer.Add, processResourceLogs).                              *)
THEOREM VersionsDoNotVanish == Spec => []NothingVanishes
  <1>1. IInv => NothingVanishes  BY DEF IInv
  <1> QED  BY <1>1, Invariance, PTL

(* When an event's object has been looked up without an error, its version *)
(* or a later one of the same object has been announced                    *)
(* (EnsureObjectReferenceIsKnown).                                         *)
THEOREM EventsAreAnswered == Spec => []EventAnswered
  <1>1. IInv => EventAnswered  BY DEF IInv
  <1> QED  BY <1>1, Invariance, PTL

================================================================================
