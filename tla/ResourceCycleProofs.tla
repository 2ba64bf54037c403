------------------------ MODULE ResourceCycleProofs -------------------------
(***************************************************************************)
(* Proofs about ResourceCycle: for all documents, patches, filters and     *)
(* edits, kube-green changes a document by the patch only and gives it     *)
(* back, and the other properties of that module.                          *)
(***************************************************************************)
EXTENDS ResourceCycle, JSONDocumentsProofs, ResourceSelectionProofs

-----------------------------------------------------------------------------
(***************************************************************************)
(* The inductive invariant.                                                *)
(***************************************************************************)

\* The patches that the SleepInfo may have.
DefaultPatch == [text |-> "ops", ops |-> DefaultOps]
PatchesListed == UNION {Range(l) : l \in PatchLists}
PatchesSetUp == UNION {Range(s.patches) : s \in Setups}
UsedPatches == {DefaultPatch} \cup PatchesListed \cup PatchesSetUp

\* The restore patch that the next reconcile reads.
Restore == ConvertOldSecretDataToNewFormat(secret.original, secret.old)

\* What the variables are.
CycleTypes ==
    /\ doc \in Documents /\ shadow \in Documents
    /\ owned \subseteq {p \in DOMAIN doc : doc[p] # Object}
    /\ labels \in MyLabels /\ others \subseteq DOMAIN OtherLabels
    /\ disturbed \in BOOLEAN
    /\ spec \in [suspend : BOOLEAN, patches : Seq(UsedPatches), filter : Filters,
                 wakeUp : BOOLEAN, parses : BOOLEAN]
    /\ secret.operationType \in Operations \cup {NoOperation}
    /\ Restore \in MergePatches \cup {None}

\* What is remembered of a sleep is one of the patches.
SleptTypes ==
    slept # None => /\ slept \in Sleeps
                    /\ \E p \in UsedPatches : p.ops = slept.patch
                    /\ \A i \in DOMAIN slept.patch : slept.patch[i].path \in slept.paths

\* A reconcile works on what the last one left, with a patch that parses.
JobInv ==
    /\ job.operation \in Operations \cup {NoOperation}
    /\ job.step = "operate" \/ job = Idle
    /\ job.step = "operate" => job.restore = Restore
    /\ job.data = None \/ Me \in job.list
    /\ Me \in job.list => job.data \in Documents
    /\ job.list # {} => job.patch \in UsedPatches /\ ~ NewPatcherFails(job.patch)

\* Nothing is kept for a resource that is awake.
RestoreInv ==
    /\ slept = None => Restore = None
    /\ slept # None /\ ~ slept.lost => Restore # None

\* The document is what users made of it, patched while it is asleep, and
\* the restore patch brings it back.
PatchedInv ==
    ~ disturbed =>
        IF slept = None THEN doc = shadow
        ELSE /\ Exec(slept.patch, shadow) = doc
             /\ DifferWithin(doc, shadow, slept.paths)
             /\ Restore # None => Restores(doc, Restore, shadow, slept.paths)

\* So do the patches that the reconcile makes of the copy that it listed,
\* whatever users changed elsewhere in the meantime.
PendingInv ==
    Me \in job.list /\ ~ disturbed =>
        /\ (/\ job.operation = "SLEEP" /\ slept = None
            /\ Exec(job.patch.ops, job.data) # Failed)
           => SleepFits(doc, job.data, job.patch.ops)
        /\ job.operation = "WAKE_UP" /\ slept # None =>
             /\ Separate(slept.patch) => Exec(slept.patch, job.data) = job.data
             /\ job.restore # None =>
                  Restores(doc, CreateMergePatch(job.data,
                                                 MergePatch(job.data, job.restore)),
                           shadow, slept.paths)

CycleInv ==
    /\ CycleTypes /\ SleptTypes /\ JobInv
    /\ Validate(spec)
    /\ RestoreInv /\ PatchedInv /\ PendingInv

-----------------------------------------------------------------------------
(***************************************************************************)
(* What the state is made of.                                              *)
(***************************************************************************)

\* No reconcile is in progress.
LEMMA IdleIs == Idle.step = "idle" /\ Idle.list = {}
BY DEF Idle

\* A namespace has finitely many items.
LEMMA ItemsFinite ==
    ASSUME CycleInv
    PROVE  IsFiniteSet(Items) /\ \A i \in Items : i.name \in Nat
<1> DEFINE Item == [n \in others |-> [name |-> n, labels |-> OtherLabels[n]]]
           Neighbours == {[name |-> n, labels |-> OtherLabels[n]] : n \in others}
<1>1. others \in SUBSET DOMAIN OtherLabels
  BY DEF CycleInv, CycleTypes
<1>2. IsFiniteSet(others) /\ \A n \in others : n \in Nat
  BY <1>1, SelectionAssumption, FS_Subset
<1>3. Item \in Surjection(others, Neighbours)
  BY DEF Surjection
<1>4. IsFiniteSet(Neighbours)
  <2> HIDE DEF Item, Neighbours
  <2>1. QED
    BY <1>2, <1>3, FS_Surjection
<1>5. /\ Items = Neighbours \cup {[name |-> Me, labels |-> labels]}
      /\ \A i \in Neighbours : i.name \in Nat
  BY <1>2 DEF Items
<1> HIDE DEF Neighbours
<1>6. IsFiniteSet(Items)
  BY <1>4, <1>5, FS_AddElement
<1>7. QED
  BY <1>5, <1>6, SelectionAssumption

\* What Sleep applies: Applied, for the reconcile in progress.
LEMMA SleepApplied ==
    ASSUME job.data \in Documents, job.patch.ops \in Seq(JSONOperations),
           Exec(job.patch.ops, job.data) # Failed,
           doc \in Documents, owned \in SUBSET {p \in DOMAIN doc : doc[p] # Object}
    PROVE  LET forward == CreateMergePatch(job.data, Exec(job.patch.ops, job.data))
               e == ServerSideApply(doc, forward, owned)
           IN  /\ e \in Documents
               /\ Replaced(forward) \subseteq {p \in DOMAIN e : e[p] # Object}
               /\ owned \subseteq DOMAIN forward => e = MergePatch(doc, forward)
BY Applied

-----------------------------------------------------------------------------
(***************************************************************************)
(* An old version of kube-green left the default patch in the document:    *)
(* its entry restores the document awake, which the default patch made     *)
(* this one of.                                                            *)
(***************************************************************************)
LEMMA OldSleep ==
    ASSUME NEW d \in Documents, DefaultPath \in DOMAIN d, d[DefaultPath] = DefaultValue,
           NEW old \in Leaves
    PROVE  LET restore == GetOriginalInfoToRestore(old)
               awake == MergePatch(d, restore)
               paths == PathsSet(DefaultOps, awake)
           IN  /\ restore \in MergePatches /\ awake \in Documents
               /\ DefaultOps \in Seq(JSONOperations) /\ Exec(DefaultOps, awake) = d
               /\ paths \in SUBSET Paths /\ DefaultPath \in paths
               /\ DifferWithin(d, awake, paths) /\ Restores(d, restore, awake, paths)
<1> DEFINE restore == GetOriginalInfoToRestore(old)
           awake == MergePatch(d, restore)
           paths == PathsSet(DefaultOps, awake)
           o == [op |-> "add", path |-> DefaultPath, value |-> DefaultValue]
           e == Put(awake, DefaultPath, DefaultValue)
<1>1. /\ DefaultPath \in Paths /\ DefaultValue \in Leaves
      /\ Object \notin Leaves /\ Null \notin Leaves /\ Null # Object
  BY CycleAssumption, PathsAssumption
<1>2. o \in JSONOperations /\ o.path = DefaultPath /\ o.value = DefaultValue /\ o.op = "add"
  BY <1>1 DEF JSONOperations
<1>3. DefaultOps = <<o>> /\ DefaultOps \in Seq(JSONOperations)
  BY <1>2 DEF DefaultOps
<1> HIDE DEF o
<1>4. /\ DOMAIN restore = {DefaultPath} \cup Above[DefaultPath]
      /\ \A p \in DOMAIN restore :
           restore[p] = IF p = DefaultPath THEN old ELSE Object
      /\ restore = [p \in DOMAIN restore |-> restore[p]]
  BY DEF GetOriginalInfoToRestore
<1> HIDE DEF restore
<1>5. Above[DefaultPath] \subseteq Paths /\ DefaultPath \notin Above[DefaultPath]
      /\ \A p \in Above[DefaultPath] : \A q \in Above[p] : q \in Above[DefaultPath]
  BY <1>1, PathsOrder
<1>6. restore \in MergePatches
  <2>1. /\ DOMAIN restore \in SUBSET Paths
        /\ \A p \in DOMAIN restore : restore[p] \in Leaves \cup {Object, Null}
        /\ \A p \in DOMAIN restore : \A q \in Above[p] :
             q \in DOMAIN restore /\ restore[q] = Object
    BY <1>1, <1>4, <1>5
  <2>2. restore \in [DOMAIN restore -> Leaves \cup {Object, Null}]
    BY <1>4, <2>1
  <2>3. QED
    BY <2>1, <2>2 DEF MergePatches
<1>7. awake \in Documents
  BY <1>6, MergedDocument
<1>8. Replaced(restore) = {DefaultPath}
  BY <1>1, <1>4, <1>5 DEF Replaced
<1>9. /\ d = [p \in DOMAIN d |-> d[p]] /\ DOMAIN d \subseteq Paths
      /\ \A p \in DOMAIN d : \A q \in Above[p] : q \in DOMAIN d /\ d[q] = Object
  BY DocumentShape
<1>10. /\ DOMAIN awake = {p \in DOMAIN d : p # DefaultPath /\ DefaultPath \notin Above[p]}
                         \cup DOMAIN restore
       /\ \A p \in DOMAIN awake :
            awake[p] = IF p \in DOMAIN restore THEN restore[p] ELSE d[p]
  BY <1>1, <1>4, <1>8 DEF MergePatch
<1>11. /\ DOMAIN awake = DOMAIN d
       /\ \A p \in DOMAIN d : awake[p] = IF p = DefaultPath THEN old ELSE d[p]
  <2> HIDE DEF awake
  <2>1. \A p \in DOMAIN d : DefaultPath \notin Above[p]
    BY <1>1, <1>9
  <2>2. \A p \in Above[DefaultPath] : p \in DOMAIN d /\ d[p] = Object
    BY <1>9
  <2>3. DOMAIN awake = DOMAIN d
    BY <1>4, <1>10, <2>1, <2>2
  <2>4. ASSUME NEW p \in DOMAIN d
        PROVE  awake[p] = IF p = DefaultPath THEN old ELSE d[p]
    BY <1>4, <1>10, <2>2, <2>3
  <2>5. QED
    BY <2>3, <2>4
<1> HIDE DEF awake
<1>12. /\ DOMAIN e = {q \in DOMAIN awake : DefaultPath \notin Above[q]}
                     \cup {DefaultPath} \cup Above[DefaultPath]
       /\ \A q \in DOMAIN e :
            e[q] = IF q = DefaultPath THEN DefaultValue
                   ELSE IF q \in Above[DefaultPath] THEN Object ELSE awake[q]
       /\ e = [q \in DOMAIN e |-> e[q]]
  BY DEF Put
<1> HIDE DEF e
<1>13. DOMAIN e = DOMAIN d /\ \A q \in DOMAIN d : e[q] = d[q]
  BY <1>1, <1>9, <1>11, <1>12
<1>14. e = d
  BY <1>9, <1>12, <1>13, SameFunction
<1>15. Accepts(awake, DefaultPath) /\ awake # Failed
  BY <1>5, <1>7, <1>9, <1>11, FailedAssumption DEF Accepts
<1>16. Exec(DefaultOps, awake) = d
  BY <1>2, <1>3, <1>14, <1>15, ExecOne DEF ApplyOperation, e
<1>17. /\ paths \in SUBSET Paths /\ DefaultPath \in paths
       /\ DifferWithin(d, awake, paths)
  <2>1. d # Failed
    BY FailedAssumption
  <2>2. Len(DefaultOps) = 1 /\ DefaultOps[1] = o
    BY <1>3
  <2>3. /\ PathsSet(DefaultOps, awake) \in SUBSET Paths
        /\ \A i \in 1 .. Len(DefaultOps) :
             DefaultOps[i].path \in PathsSet(DefaultOps, awake)
        /\ DifferWithin(d, awake, PathsSet(DefaultOps, awake))
    BY <1>3, <1>7, <1>16, <2>1, PatchDiffers
  <2> HIDE DEF paths
  <2>4. QED
    BY <1>2, <2>2, <2>3 DEF paths
<1> HIDE DEF paths
<1>18. StaysWithin(restore, paths)
  BY <1>4, <1>17 DEF StaysWithin, AtOrBelow
<1>19. QED
  BY <1>3, <1>6, <1>7, <1>16, <1>17, <1>18 DEF Restores, restore, awake, paths

-----------------------------------------------------------------------------
(***************************************************************************)
(* The patches that a reconcile meets.                                     *)
(***************************************************************************)

\* A sequence over a set is one over any set that its elements are in.
LEMMA SequenceOver ==
    ASSUME NEW S, NEW T, NEW q \in Seq(S), \A i \in 1 .. Len(q) : q[i] \in T
    PROVE  q \in Seq(T)
OBVIOUS

\* The constants are made of the patches that are used, and those parse to
\* operations.
LEMMA UsedPatchesAre ==
    /\ UsedPatches \subseteq Patches /\ DefaultPatch \in UsedPatches
    /\ PatchLists \subseteq Seq(UsedPatches)
    /\ \A s \in Setups : s.patches \in Seq(UsedPatches)
<1>1. DefaultPatch \in Patches
  <2>1. DefaultOps \in Seq(JSONOperations)
    BY CycleAssumption DEF DefaultOps, JSONOperations
  <2>2. QED
    BY <2>1 DEF Patches, DefaultPatch
<1>2. ASSUME NEW l \in Seq(Patches), Range(l) \subseteq UsedPatches
      PROVE  l \in Seq(UsedPatches)
  <2>1. \A i \in 1 .. Len(l) : l[i] \in UsedPatches
    BY <1>2 DEF Range
  <2>2. QED
    BY <2>1, SequenceOver
<1>3. ASSUME NEW l \in Seq(Patches) PROVE Range(l) \subseteq Patches
  BY DEF Range
<1>4. PatchLists \subseteq Seq(Patches) /\ \A s \in Setups : s.patches \in Seq(Patches)
  BY CycleAssumption
<1>5. PatchesListed \subseteq Patches /\ PatchesSetUp \subseteq Patches
  BY <1>3, <1>4 DEF PatchesListed, PatchesSetUp
<1>6. /\ \A l \in PatchLists : Range(l) \subseteq PatchesListed
      /\ \A s \in Setups : Range(s.patches) \subseteq PatchesSetUp
  BY DEF PatchesListed, PatchesSetUp
<1>7. QED
  BY <1>1, <1>2, <1>4, <1>5, <1>6 DEF UsedPatches

\* The operations of a patch that is used.
LEMMA UsedOps ==
    ASSUME NEW patch \in UsedPatches
    PROVE  patch.ops \in Seq(JSONOperations)
BY UsedPatchesAre DEF Patches

\* getPatches returns patches that are used, and Validate has seen them.
LEMMA TargetPatchUsed ==
    ASSUME NEW s, s.patches \in Seq(UsedPatches), Validate(s),
           TargetPatch(GetPatches(s)) # None
    PROVE  /\ TargetPatch(GetPatches(s)) \in UsedPatches
           /\ ~ NewPatcherFails(TargetPatch(GetPatches(s)))
<1> DEFINE patches == GetPatches(s)
<1>1. patches \in Seq(UsedPatches)
  BY UsedPatchesAre DEF GetPatches, DefaultPatch
<1>2. patches # <<>> /\ TargetPatch(patches) = patches[Len(patches)]
  BY DEF TargetPatch
<1>3. \A i \in DOMAIN patches : ~ NewPatcherFails(patches[i])
  BY DEF Validate
<1> HIDE DEF patches
<1>4. Len(patches) \in DOMAIN patches /\ patches[Len(patches)] \in UsedPatches
  BY <1>1, <1>2
<1>5. QED
  BY <1>2, <1>3, <1>4 DEF patches

-----------------------------------------------------------------------------
(***************************************************************************)
(* The initial states.                                                     *)
(***************************************************************************)
LEMMA InitCycle == Init => CycleInv
<1> SUFFICES ASSUME Init PROVE CycleInv
  OBVIOUS
<1>1. PICK s \in Setups :
        /\ resource = s.resource /\ doc = s.doc /\ labels = s.labels
        /\ others = s.others
        /\ spec = [suspend |-> TRUE, patches |-> s.patches, filter |-> s.filter,
                   wakeUp |-> TRUE, parses |-> TRUE]
        /\ Validate(spec)
        /\ secret = [NoSecret EXCEPT
                       !.operationType = IF s.old = None THEN @ ELSE "SLEEP",
                       !.old = s.old]
        /\ owned = {} /\ job = Idle /\ edits = 0
        /\ shadow = IF s.old = None THEN s.doc
                    ELSE MergePatch(s.doc, GetOriginalInfoToRestore(s.old))
        /\ slept = IF s.old = None THEN None
                   ELSE [patch |-> DefaultOps, paths |-> PathsSet(DefaultOps, shadow),
                         lost |-> FALSE]
        /\ disturbed = FALSE
  BY DEF Init
<1>2. /\ s.doc \in Documents /\ s.labels \in MyLabels /\ s.filter \in Filters
      /\ s.others \subseteq DOMAIN OtherLabels
      /\ s.old # None => /\ s.resource.oldKey /\ s.old \in Leaves
                         /\ DefaultPath \in DOMAIN s.doc
                         /\ s.doc[DefaultPath] = DefaultValue
  BY CycleAssumption
<1>3. /\ secret.old = s.old /\ secret.original = None
      /\ secret.operationType \in Operations \cup {NoOperation}
  BY <1>1 DEF NoSecret, Operations
<1>4. JobInv /\ PendingInv
  BY <1>1 DEF JobInv, PendingInv, Idle
<1>6. spec \in [suspend : BOOLEAN, patches : Seq(UsedPatches), filter : Filters,
                wakeUp : BOOLEAN, parses : BOOLEAN]
  BY <1>1, <1>2, UsedPatchesAre
<1>7. CASE s.old = None
  <2>1. Restore = None
    BY <1>3, <1>7 DEF Restore, ConvertOldSecretDataToNewFormat
  <2>2. slept = None /\ shadow = doc
    BY <1>1, <1>7
  <2>3. CycleTypes
    BY <1>1, <1>2, <1>3, <1>6, <2>1, <2>2 DEF CycleTypes
  <2>4. QED
    BY <1>1, <1>4, <2>1, <2>2, <2>3 DEF CycleInv, SleptTypes, RestoreInv, PatchedInv
<1>8. CASE s.old # None
  <2>1. Restore = GetOriginalInfoToRestore(s.old)
    BY <1>1, <1>2, <1>3, <1>8 DEF Restore, ConvertOldSecretDataToNewFormat
  <2>2. shadow = MergePatch(doc, Restore)
    BY <1>1, <1>8, <2>1
  <2>3. /\ Restore \in MergePatches /\ shadow \in Documents
        /\ DefaultOps \in Seq(JSONOperations) /\ Exec(DefaultOps, shadow) = doc
        /\ PathsSet(DefaultOps, shadow) \in SUBSET Paths
        /\ DefaultPath \in PathsSet(DefaultOps, shadow)
        /\ DifferWithin(doc, shadow, PathsSet(DefaultOps, shadow))
        /\ Restores(doc, Restore, shadow, PathsSet(DefaultOps, shadow))
    BY <1>1, <1>2, <1>8, <2>1, <2>2, OldSleep
  <2>4. /\ slept = [patch |-> DefaultOps, paths |-> PathsSet(DefaultOps, shadow),
                    lost |-> FALSE]
        /\ slept.patch = DefaultOps /\ slept.paths = PathsSet(DefaultOps, shadow)
        /\ slept.lost = FALSE
    BY <1>1, <1>8
  <2>5. slept \in Sleeps
    BY <2>3, <2>4 DEF Sleeps
  <2>6. slept # None /\ Restore # None
    BY <2>3, <2>5, CycleAssumption
  <2>7. CycleTypes
    BY <1>1, <1>2, <1>3, <1>6, <2>3 DEF CycleTypes
  <2>8. SleptTypes
    <3>1. \A i \in DOMAIN DefaultOps : DefaultOps[i].path = DefaultPath
      BY DEF DefaultOps
    <3>2. DefaultPatch.ops = DefaultOps
      BY DEF DefaultPatch
    <3>3. QED
      BY <2>3, <2>4, <2>5, <3>1, <3>2, UsedPatchesAre DEF SleptTypes
  <2>9. RestoreInv /\ PatchedInv
    BY <2>3, <2>4, <2>6 DEF RestoreInv, PatchedInv
  <2>10. QED
    BY <1>1, <1>4, <2>7, <2>8, <2>9 DEF CycleInv
<1>9. QED
  BY <1>7, <1>8

-----------------------------------------------------------------------------
(***************************************************************************)
(* The steps.                                                              *)
(***************************************************************************)

\* The restore patch is in the Secret.
LEMMA RestoreKept ==
    ASSUME UNCHANGED <<resource, secret>>
    PROVE  Restore' = Restore
BY DEF Restore, ConvertOldSecretDataToNewFormat

\* A Secret that kube-green writes has the restore patch that it is given.
LEMMA RestoreWritten ==
    ASSUME NEW operation, NEW original, UpsertSecret(operation, original)
    PROVE  Restore' = original /\ secret'.operationType = operation
BY DEF Restore, ConvertOldSecretDataToNewFormat, UpsertSecret

\* Between reconciles there is no job to speak of.
LEMMA IdleKeeps ==
    ASSUME job' = Idle
    PROVE  JobInv' /\ PendingInv'
BY DEF JobInv, PendingInv, Idle

\* A reconcile that lists the resource is in progress.
LEMMA Listed ==
    ASSUME CycleInv, Me \in job.list
    PROVE  /\ job.step = "operate" /\ job.data \in Documents
           /\ job.patch.ops \in Seq(JSONOperations)
           /\ job.restore = Restore /\ Restore \in MergePatches \cup {None}
<1>1. job # Idle
  BY DEF Idle
<1>2. QED
  BY <1>1, UsedOps DEF CycleInv, JobInv, CycleTypes

\* Validate looks at the SleepInfo and at the target.
LEMMA ValidateKept ==
    ASSUME UNCHANGED <<resource, spec>>, Validate(spec)
    PROVE  Validate(spec)'
BY DEF Validate, GetPatches, NewPatcherFails

\* Steps that leave the document, the Secret and the job alone.
LEMMA OthersKeep ==
    ASSUME CycleInv, UNCHANGED <<resource, doc, secret, job, cycleVars>>
    PROVE  SleptTypes' /\ JobInv' /\ RestoreInv' /\ PatchedInv' /\ PendingInv'
<1>1. /\ resource' = resource /\ doc' = doc /\ secret' = secret /\ job' = job
      /\ shadow' = shadow /\ slept' = slept /\ disturbed' = disturbed
  BY DEF cycleVars
<1>2. Restore' = Restore
  BY <1>1, RestoreKept
<1>3. SleptTypes'
  BY <1>1 DEF CycleInv, SleptTypes
<1>4. JobInv'
  BY <1>1, <1>2 DEF CycleInv, JobInv, NewPatcherFails
<1>5. RestoreInv' /\ PatchedInv'
  BY <1>1, <1>2 DEF CycleInv, RestoreInv, PatchedInv
<1>6. PendingInv'
  BY <1>1 DEF CycleInv, PendingInv
<1>7. QED
  BY <1>3, <1>4, <1>5, <1>6

\* Users edit the labels.
LEMMA EditLabelsKeeps == CycleInv /\ EditLabels => CycleInv'
<1> SUFFICES ASSUME CycleInv, EditLabels PROVE CycleInv'
  OBVIOUS
<1>1. /\ labels' \in MyLabels
      /\ UNCHANGED <<resource, doc, owned, others, spec, secret, job, cycleVars>>
  BY DEF EditLabels
<1>2. SleptTypes' /\ JobInv' /\ RestoreInv' /\ PatchedInv' /\ PendingInv'
  BY <1>1, OthersKeep
<1>3. CycleTypes'
  BY <1>1, RestoreKept DEF CycleInv, CycleTypes, cycleVars
<1>4. Validate(spec)'
  BY <1>1, ValidateKept DEF CycleInv
<1>5. QED
  BY <1>2, <1>3, <1>4 DEF CycleInv

\* Users add and remove neighbours.
LEMMA EditOthersKeeps == CycleInv /\ EditOthers => CycleInv'
<1> SUFFICES ASSUME CycleInv, EditOthers PROVE CycleInv'
  OBVIOUS
<1>1. /\ others' \subseteq DOMAIN OtherLabels
      /\ UNCHANGED <<resource, doc, labels, owned, spec, secret, job, cycleVars>>
  BY DEF EditOthers, CycleInv, CycleTypes
<1>2. SleptTypes' /\ JobInv' /\ RestoreInv' /\ PatchedInv' /\ PendingInv'
  BY <1>1, OthersKeep
<1>3. CycleTypes'
  BY <1>1, RestoreKept DEF CycleInv, CycleTypes, cycleVars
<1>4. Validate(spec)'
  BY <1>1, ValidateKept DEF CycleInv
<1>5. QED
  BY <1>2, <1>3, <1>4 DEF CycleInv

\* Users edit the SleepInfo, and the webhook admits it.
LEMMA EditSpecKeeps == CycleInv /\ EditSpec => CycleInv'
<1> SUFFICES ASSUME CycleInv, EditSpec PROVE CycleInv'
  OBVIOUS
<1> DEFINE Specs == [suspend : BOOLEAN, patches : Seq(UsedPatches), filter : Filters,
                     wakeUp : BOOLEAN, parses : BOOLEAN]
<1>1. PICK s \in Edited(spec) : Validate(s) /\ spec' = s
  BY DEF EditSpec, Admit
<1>2. UNCHANGED <<resource, doc, labels, owned, others, secret, job, cycleVars>>
  BY DEF EditSpec
<1>3. SleptTypes' /\ JobInv' /\ RestoreInv' /\ PatchedInv' /\ PendingInv'
  BY <1>2, OthersKeep
<1>4. spec' \in Specs
  <2>1. spec \in Specs
    BY DEF CycleInv, CycleTypes
  <2>2. PatchLists \subseteq Seq(UsedPatches)
    BY UsedPatchesAre
  <2>3. QED
    BY <1>1, <2>1, <2>2 DEF Edited
<1>5. CycleTypes'
  BY <1>2, <1>4, RestoreKept DEF CycleInv, CycleTypes, cycleVars
<1>6. Validate(spec)'
  BY <1>1, <1>2 DEF Validate, GetPatches, NewPatcherFails
<1>7. QED
  BY <1>3, <1>5, <1>6 DEF CycleInv

\* The patch that WakeUp makes of its copy.
LEMMA WakeUpPatch ==
    ASSUME CycleInv, Me \in job.list, job.restore # None
    PROVE  CreateMergePatch(job.data, MergePatch(job.data, job.restore)) \in MergePatches
<1>1. job.data \in Documents /\ job.restore \in MergePatches
  BY Listed
<1>2. QED
  BY <1>1, MergedDocument, CreatedMergePatch

\* Users edit the document, also during a reconcile.
LEMMA EditDocumentKeeps == CycleInv /\ EditDocument => CycleInv'
<1> SUFFICES ASSUME CycleInv, EditDocument PROVE CycleInv'
  OBVIOUS
<1>1. PICK p \in EditPaths, v \in Leaves \cup {Null} :
        /\ doc' = Edit(doc, p, v) /\ shadow' = Edit(shadow, p, v)
        /\ disturbed' = (disturbed \/ ~ Apart(p, Setting) \/
                         (slept # None /\ ~ Apart(p, slept.paths)))
  BY DEF EditDocument
<1>2. /\ owned' = StillOwned(owned, doc, doc')
      /\ resource' = resource /\ labels' = labels /\ others' = others /\ spec' = spec
      /\ secret' = secret /\ job' = job /\ slept' = slept
  BY DEF EditDocument
<1>3. p \in Paths
  BY CycleAssumption
<1>4. doc \in Documents /\ shadow \in Documents
  BY DEF CycleInv, CycleTypes
<1>5. doc' \in Documents /\ shadow' \in Documents
  BY <1>1, <1>3, <1>4, EditIsDocument
<1>6. Restore' = Restore
  BY <1>2, RestoreKept
<1>7. CycleTypes'
  <2>1. owned' \subseteq {q \in DOMAIN doc' : doc'[q] # Object}
    BY <1>2 DEF StillOwned, CycleInv, CycleTypes
  <2>2. disturbed' \in BOOLEAN
    BY <1>1
  <2>3. QED
    BY <1>2, <1>5, <1>6, <2>1, <2>2 DEF CycleInv, CycleTypes
<1>8. SleptTypes' /\ JobInv' /\ RestoreInv' /\ Validate(spec)'
  <2>1. SleptTypes'
    BY <1>2 DEF CycleInv, SleptTypes
  <2>2. JobInv'
    BY <1>2, <1>6 DEF CycleInv, JobInv, NewPatcherFails
  <2>3. RestoreInv'
    BY <1>2, <1>6 DEF CycleInv, RestoreInv
  <2>4. QED
    BY <1>2, <2>1, <2>2, <2>3, ValidateKept DEF CycleInv
<1>9. ASSUME slept # None, ~ disturbed'
      PROVE  /\ Apart(p, slept.paths) /\ slept.paths \in SUBSET Paths
             /\ slept.patch \in Seq(JSONOperations)
             /\ \A i \in 1 .. Len(slept.patch) : slept.patch[i].path \in slept.paths
  <2>1. /\ slept \in Sleeps
        /\ \A i \in DOMAIN slept.patch : slept.patch[i].path \in slept.paths
    BY <1>9 DEF CycleInv, SleptTypes
  <2>2. slept.paths \in SUBSET Paths /\ slept.patch \in Seq(JSONOperations)
    BY <2>1 DEF Sleeps
  <2>3. DOMAIN slept.patch = 1 .. Len(slept.patch)
    BY <2>2
  <2>4. Apart(p, slept.paths)
    BY <1>1, <1>9
  <2>5. QED
    BY <2>1, <2>2, <2>3, <2>4
<1>10. PatchedInv'
  <2>1. SUFFICES ASSUME ~ disturbed'
                 PROVE  IF slept = None THEN doc' = shadow'
                        ELSE /\ Exec(slept.patch, shadow') = doc'
                             /\ DifferWithin(doc', shadow', slept.paths)
                             /\ Restore # None =>
                                  Restores(doc', Restore, shadow', slept.paths)
    BY <1>2, <1>6 DEF PatchedInv
  <2>2. ~ disturbed
    BY <1>1, <2>1
  <2>3. CASE slept = None
    BY <1>1, <2>2, <2>3 DEF CycleInv, PatchedInv
  <2>4. CASE slept # None
    <3>1. /\ Exec(slept.patch, shadow) = doc
          /\ DifferWithin(doc, shadow, slept.paths)
          /\ Restore # None => Restores(doc, Restore, shadow, slept.paths)
      BY <2>2, <2>4 DEF CycleInv, PatchedInv
    <3>2. \A i \in 1 .. Len(slept.patch) :
            /\ slept.patch[i].path # p /\ slept.patch[i].path \notin Above[p]
            /\ p \notin Above[slept.patch[i].path]
      BY <1>9, <2>1, <2>4 DEF Apart
    <3>3. Exec(slept.patch, shadow') = doc'
      BY ONLY SMTT(30), <1>1, <1>3, <1>4, <1>9, <2>1, <2>4, <3>1, <3>2, ExecCommutes, FailedAssumption
    <3>4. DifferWithin(doc', shadow', slept.paths)
      BY <1>1, <1>3, <3>1, EditKeepsDifference
    <3>5. ASSUME Restore # None
          PROVE  Restores(doc', Restore, shadow', slept.paths)
      <4>1. Restore \in MergePatches
        BY <3>5 DEF CycleInv, CycleTypes
      <4>2. QED
        BY <1>1, <1>3, <1>4, <1>9, <2>1, <2>4, <3>1, <3>5, <4>1, RestoresEdited
    <3>6. QED
      BY <2>4, <3>3, <3>4, <3>5
  <2>5. QED
    BY <2>3, <2>4
<1>11. PendingInv'
  <2>1. SUFFICES ASSUME Me \in job.list, ~ disturbed'
                 PROVE  PendingInv'
    BY <1>2 DEF PendingInv
  <2>2. ~ disturbed /\ Apart(p, Setting)
    BY <1>1, <2>1
  <2>3. job.data \in Documents /\ job.patch.ops \in Seq(JSONOperations)
    BY <2>1, Listed
  <2>4. ASSUME job.operation = "SLEEP", slept = None,
               Exec(job.patch.ops, job.data) # Failed
        PROVE  SleepFits(doc', job.data, job.patch.ops)
    <3>1. Setting = PathsSet(job.patch.ops, job.data)
      BY <2>1, <2>4 DEF Setting
    <3>2. SleepFits(doc, job.data, job.patch.ops)
      BY <2>1, <2>2, <2>4 DEF CycleInv, PendingInv
    <3>3. QED
      BY <1>1, <1>3, <1>4, <2>2, <2>3, <2>4, <3>1, <3>2, FitsEdited
  <2>5. ASSUME job.operation = "WAKE_UP", slept # None
        PROVE  /\ Separate(slept.patch) => Exec(slept.patch, job.data) = job.data
               /\ job.restore # None =>
                    Restores(doc', CreateMergePatch(job.data,
                                                    MergePatch(job.data, job.restore)),
                             shadow', slept.paths)
    <3>1. /\ Separate(slept.patch) => Exec(slept.patch, job.data) = job.data
          /\ job.restore # None =>
               Restores(doc, CreateMergePatch(job.data,
                                              MergePatch(job.data, job.restore)),
                        shadow, slept.paths)
      BY <2>1, <2>2, <2>5 DEF CycleInv, PendingInv
    <3>2. ASSUME job.restore # None
          PROVE  Restores(doc', CreateMergePatch(job.data,
                                                 MergePatch(job.data, job.restore)),
                          shadow', slept.paths)
      <4> DEFINE m == CreateMergePatch(job.data, MergePatch(job.data, job.restore))
      <4>1. m \in MergePatches
        BY <2>1, <3>2, WakeUpPatch
      <4>2. Restores(doc, m, shadow, slept.paths)
        BY <3>1, <3>2
      <4> HIDE DEF m
      <4>3. Restores(doc', m, shadow', slept.paths)
        BY <1>1, <1>3, <1>4, <1>9, <2>1, <2>5, <4>1, <4>2, RestoresEdited
      <4>4. QED
        BY <4>3 DEF m
    <3>3. QED
      BY <3>1, <3>2
  <2>6. QED
    BY <1>2, <2>4, <2>5 DEF PendingInv
<1>12. QED
  BY <1>7, <1>8, <1>10, <1>11 DEF CycleInv

\* A reconcile reads the SleepInfo, the Secret and the resources.
LEMMA ListKeeps == CycleInv /\ ListResources => CycleInv'
<1> SUFFICES ASSUME CycleInv, ListResources PROVE CycleInv'
  OBVIOUS
<1> DEFINE patch == TargetPatch(GetPatches(spec))
           list == IF patch = None THEN {}
                   ELSE {i.name : i \in GetListByNamespace(Items, resource.target,
                                                           spec.filter)}
<1>2. job' = [step |-> "operate",
              operation |-> CurrentOperation(secret.operationType, spec.wakeUp),
              list |-> list, data |-> IF Me \in list THEN doc ELSE None,
              patch |-> patch, restore |-> Restore]
  BY DEF ListResources, Restore
<1>3. /\ resource' = resource /\ doc' = doc /\ labels' = labels /\ owned' = owned
      /\ others' = others /\ spec' = spec /\ secret' = secret
      /\ shadow' = shadow /\ slept' = slept /\ disturbed' = disturbed
  BY DEF ListResources, cycleVars
<1>4. list # {} => patch \in UsedPatches /\ ~ NewPatcherFails(patch)
  BY TargetPatchUsed DEF CycleInv, CycleTypes
<1> HIDE DEF list, patch
<1>5. /\ job'.step = "operate" /\ job'.list = list /\ job'.patch = patch
      /\ job'.operation \in Operations /\ job'.restore = Restore
      /\ job'.data = IF Me \in list THEN doc ELSE None
  BY <1>2 DEF CurrentOperation, Operations
<1>6. doc \in Documents /\ shadow \in Documents
  BY DEF CycleInv, CycleTypes
<1>7. Restore' = Restore
  BY <1>3, RestoreKept
<1>8. CycleTypes'
  BY <1>3, <1>7 DEF CycleInv, CycleTypes
<1>9. SleptTypes' /\ RestoreInv' /\ PatchedInv'
  <2>1. SleptTypes'
    BY <1>3 DEF CycleInv, SleptTypes
  <2>2. QED
    BY <1>3, <1>7, <2>1 DEF CycleInv, RestoreInv, PatchedInv
<1>10. JobInv'
  BY <1>4, <1>5, <1>6, <1>7 DEF JobInv, NewPatcherFails
<1>11. Validate(spec)'
  BY <1>2, <1>3, ValidateKept DEF CycleInv
<1>12. PendingInv'
  <2>1. SUFFICES ASSUME Me \in list, ~ disturbed PROVE PendingInv'
    BY <1>3, <1>5 DEF PendingInv
  <2>2. job'.data = doc /\ patch.ops \in Seq(JSONOperations)
    BY <1>4, <1>5, <2>1, UsedOps
  <2>3. Exec(patch.ops, doc) # Failed => SleepFits(doc, doc, patch.ops)
    BY <1>6, <2>2, FitsListed
  <2>4. ASSUME slept # None
        PROVE  /\ Separate(slept.patch) => Exec(slept.patch, doc) = doc
               /\ Restore # None =>
                    Restores(doc, CreateMergePatch(doc, MergePatch(doc, Restore)),
                             shadow, slept.paths)
    <3>1. /\ Exec(slept.patch, shadow) = doc
          /\ DifferWithin(doc, shadow, slept.paths)
          /\ Restore # None => Restores(doc, Restore, shadow, slept.paths)
      BY <2>1, <2>4 DEF CycleInv, PatchedInv
    <3>2. slept.patch \in Seq(JSONOperations) /\ slept.paths \in SUBSET Paths
      BY <2>4 DEF CycleInv, SleptTypes, Sleeps
    <3>3. Separate(slept.patch) => Exec(slept.patch, doc) = doc
      BY <1>6, <3>1, <3>2, ExecTwice, FailedAssumption
    <3>4. /\ MergePatch(doc, CreateMergePatch(doc, shadow)) = shadow
          /\ StaysWithin(CreateMergePatch(doc, shadow), slept.paths)
      BY <1>6, <3>1, <3>2, RestoreExact, MergePatchStays
    <3>5. QED
      BY <3>1, <3>3, <3>4 DEF Restores
  <2>5. QED
    BY <1>3, <1>5, <2>2, <2>3, <2>4 DEF PendingInv
<1>13. QED
  BY <1>8, <1>9, <1>10, <1>11, <1>12 DEF CycleInv

\* A reconcile ends with an error and has changed nothing.
LEMMA EndKeeps ==
    ASSUME CycleInv, job' = Idle,
           UNCHANGED <<resource, doc, labels, owned, others, spec, secret, cycleVars>>
    PROVE  CycleInv'
<1>1. /\ resource' = resource /\ doc' = doc /\ labels' = labels /\ owned' = owned
      /\ others' = others /\ spec' = spec /\ secret' = secret
      /\ shadow' = shadow /\ slept' = slept /\ disturbed' = disturbed
  BY DEF cycleVars
<1>2. Restore' = Restore
  BY <1>1, RestoreKept
<1>3. CycleTypes'
  BY <1>1, <1>2 DEF CycleInv, CycleTypes
<1>4. SleptTypes'
  BY <1>1 DEF CycleInv, SleptTypes
<1>5. RestoreInv' /\ PatchedInv'
  BY <1>1, <1>2 DEF CycleInv, RestoreInv, PatchedInv
<1>6. QED
  BY <1>1, <1>3, <1>4, <1>5, IdleKeeps, ValidateKept DEF CycleInv

\* What is remembered of a sleep whose restore patch is dropped.
LEMMA LostSleep ==
    ASSUME CycleInv, slept # None, slept' = [slept EXCEPT !.lost = TRUE]
    PROVE  /\ SleptTypes' /\ slept' # None /\ slept'.lost
           /\ slept'.patch = slept.patch /\ slept'.paths = slept.paths
<1>1. slept \in Sleeps
  BY DEF CycleInv, SleptTypes
<1>2. /\ slept' \in Sleeps /\ slept'.lost
      /\ slept'.patch = slept.patch /\ slept'.paths = slept.paths
  BY <1>1 DEF Sleeps
<1>3. SleptTypes'
  BY <1>2 DEF CycleInv, SleptTypes
<1>4. QED
  BY <1>2, <1>3, CycleAssumption

\* No resource is listed, and the restore patches are dropped.
LEMMA NoResourceKeeps == CycleInv /\ NoResource => CycleInv'
<1> SUFFICES ASSUME CycleInv, NoResource PROVE CycleInv'
  OBVIOUS
<1>1. /\ UpsertSecret(NoOperation, None) /\ job' = Idle
      /\ slept' = IF slept = None THEN None ELSE [slept EXCEPT !.lost = TRUE]
      /\ resource' = resource /\ doc' = doc /\ labels' = labels /\ owned' = owned
      /\ others' = others /\ spec' = spec
      /\ shadow' = shadow /\ disturbed' = disturbed
  BY DEF NoResource
<1>2. Restore' = None /\ secret'.operationType = NoOperation
  BY <1>1, RestoreWritten
<1>3. CycleTypes'
  BY <1>1, <1>2 DEF CycleInv, CycleTypes
<1>4. CASE slept = None
  BY <1>1, <1>2, <1>3, <1>4, IdleKeeps, ValidateKept
  DEF CycleInv, SleptTypes, RestoreInv, PatchedInv
<1>5. CASE slept # None
  <2>1. /\ SleptTypes' /\ slept' # None /\ slept'.lost
        /\ slept'.patch = slept.patch /\ slept'.paths = slept.paths
    BY <1>1, <1>5, LostSleep
  <2>2. RestoreInv' /\ PatchedInv'
    BY <1>1, <1>2, <1>5, <2>1 DEF CycleInv, RestoreInv, PatchedInv
  <2>3. QED
    BY <1>1, <1>3, <2>1, <2>2, IdleKeeps, ValidateKept DEF CycleInv
<1>6. QED
  BY <1>4, <1>5

\* Sleep finds nothing to change: it keeps the restore patch that it read.
LEMMA SleepSkipsKeeps ==
    ASSUME CycleInv, job.step = "operate", job' = Idle,
           UpsertSecret("SLEEP", job.restore),
           disturbed' = (disturbed /\ slept # None),
           shadow' = IF disturbed /\ slept = None THEN doc ELSE shadow,
           UNCHANGED <<doc, owned, slept, resource, labels, others, spec>>
    PROVE  CycleInv'
<1>1. Restore' = Restore /\ secret'.operationType = "SLEEP"
  BY RestoreWritten DEF CycleInv, JobInv
<1>2. /\ doc' = doc /\ owned' = owned /\ slept' = slept /\ resource' = resource
      /\ labels' = labels /\ others' = others /\ spec' = spec
  OBVIOUS
<1>3. CycleTypes'
  BY <1>1, <1>2 DEF CycleInv, CycleTypes, Operations
<1>4. SleptTypes'
  BY <1>2 DEF CycleInv, SleptTypes
<1>5. RestoreInv' /\ PatchedInv'
  BY <1>1, <1>2 DEF CycleInv, CycleTypes, RestoreInv, PatchedInv
<1>6. QED
  BY <1>2, <1>3, <1>4, <1>5, IdleKeeps, ValidateKept DEF CycleInv

\* Sleep applies the patch, and keeps the restore patch or fails later on.
LEMMA SleepAppliesKeeps ==
    ASSUME CycleInv, job.operation = "SLEEP", Me \in job.list, job' = Idle,
           NEW modified, modified = Exec(job.patch.ops, job.data), modified # Failed,
           NEW forward, forward = CreateMergePatch(job.data, modified),
           NEW restore, restore = CreateMergePatch(modified, job.data),
           doc' = ServerSideApply(doc, forward, owned),
           owned' = Replaced(forward),
           NEW lost \in BOOLEAN,
           slept' = IF slept # None THEN slept
                    ELSE [patch |-> job.patch.ops, lost |-> lost,
                          paths |-> PathsSet(job.patch.ops, job.data)],
           disturbed' = (disturbed \/ slept # None \/ ~ owned \subseteq DOMAIN forward),
           IF lost THEN secret' = secret ELSE UpsertSecret("SLEEP", restore),
           UNCHANGED <<shadow, resource, labels, others, spec>>
    PROVE  CycleInv'
<1> DEFINE ops == job.patch.ops
           paths == PathsSet(ops, job.data)
<1>1. /\ job.data \in Documents /\ ops \in Seq(JSONOperations)
      /\ job.patch \in UsedPatches
  BY Listed DEF CycleInv, JobInv
<1>2. /\ modified \in Documents /\ paths \in SUBSET Paths
      /\ \A i \in 1 .. Len(ops) : ops[i].path \in paths
      /\ DifferWithin(modified, job.data, paths)
  BY <1>1, PatchDiffers
<1>3. restore \in MergePatches /\ StaysWithin(restore, paths)
  BY <1>1, <1>2, CreatedMergePatch, MergePatchStays
<1>4. /\ doc \in Documents /\ owned \in SUBSET {p \in DOMAIN doc : doc[p] # Object}
      /\ shadow \in Documents
  BY DEF CycleInv, CycleTypes
<1>5. /\ doc' \in Documents /\ owned' \subseteq {p \in DOMAIN doc' : doc'[p] # Object}
      /\ owned \subseteq DOMAIN forward => doc' = MergePatch(doc, forward)
  <2>1. /\ forward = CreateMergePatch(job.data, Exec(job.patch.ops, job.data))
        /\ doc' = ServerSideApply(doc, forward, owned) /\ owned' = Replaced(forward)
        /\ Exec(job.patch.ops, job.data) # Failed
    OBVIOUS
  <2>2. /\ ServerSideApply(doc, forward, owned) \in Documents
        /\ Replaced(forward) \subseteq
             {p \in DOMAIN ServerSideApply(doc, forward, owned) :
                ServerSideApply(doc, forward, owned)[p] # Object}
        /\ owned \subseteq DOMAIN forward
           => ServerSideApply(doc, forward, owned) = MergePatch(doc, forward)
    BY ONLY Zenon, <1>1, <1>4, <2>1, SleepApplied
  <2>3. QED
    BY ONLY Zenon, <2>1, <2>2
<1>6. /\ lost => Restore' = Restore /\ secret' = secret
      /\ ~ lost => Restore' = restore /\ secret'.operationType = "SLEEP"
  BY RestoreWritten, RestoreKept
<1>7. ~ lost => Restore' # None
  BY <1>3, <1>6, CycleAssumption
<1>8. /\ shadow' = shadow /\ resource' = resource /\ labels' = labels
      /\ others' = others /\ spec' = spec
  OBVIOUS
<1>9. CycleTypes'
  <2>1. disturbed' \in BOOLEAN
    OBVIOUS
  <2>2. QED
    BY <1>3, <1>4, <1>5, <1>6, <1>8, <2>1 DEF CycleInv, CycleTypes, Operations
<1>10. JobInv' /\ PendingInv' /\ Validate(spec)'
  BY <1>8, IdleKeeps, ValidateKept DEF CycleInv
<1>11. CASE slept # None
  <2>1. slept' = slept /\ disturbed'
    BY <1>11
  <2>2. SleptTypes' /\ RestoreInv' /\ PatchedInv'
    BY <1>6, <1>7, <1>11, <2>1 DEF CycleInv, SleptTypes, RestoreInv, PatchedInv
  <2>3. QED
    BY <1>9, <1>10, <2>2 DEF CycleInv
<1>12. CASE slept = None
  <2> HIDE DEF ops, paths
  <2>0. Restore = None
    BY <1>12 DEF CycleInv, RestoreInv
  <2>1. slept' = [patch |-> ops, lost |-> lost, paths |-> paths]
    BY <1>12 DEF ops, paths
  <2>2. slept'.patch = ops /\ slept'.paths = paths /\ slept'.lost = lost
    BY ONLY SMTT(30), <2>1
  <2>3. slept' \in Sleeps /\ slept' # None
    <3>1. [patch |-> ops, lost |-> lost, paths |-> paths] \in Sleeps
      BY <1>1, <1>2 DEF Sleeps
    <3>2. QED
      BY <2>1, <3>1, CycleAssumption
  <2>4. DOMAIN ops = 1 .. Len(ops)
    BY ONLY SMTT(30), <1>1
  <2>5. SleptTypes'
    BY <1>1, <1>2, <2>2, <2>3, <2>4 DEF SleptTypes, ops
  <2>6. RestoreInv'
    BY <1>7, <2>2, <2>3 DEF RestoreInv
  <2>7. PatchedInv'
    <3>1. SUFFICES ASSUME ~ disturbed'
                   PROVE  /\ Exec(ops, shadow) = doc' /\ DifferWithin(doc', shadow, paths)
                          /\ Restores(doc', restore, shadow, paths)
      BY <1>6, <1>8, <2>0, <2>2, <2>3 DEF PatchedInv
    <3>2. ~ disturbed /\ doc' = MergePatch(doc, forward)
      BY <1>5, <3>1
    <3>3. doc = shadow
      BY <1>12, <3>2 DEF CycleInv, PatchedInv
    <3>4. SleepFits(doc, job.data, ops)
      BY <1>12, <3>2 DEF CycleInv, PendingInv, ops
    <3>5. /\ doc' = Exec(ops, doc) /\ MergePatch(doc', restore) = doc
          /\ DifferWithin(doc', doc, paths)
      BY <3>2, <3>4 DEF SleepFits, ops, paths
    <3>6. QED
      BY <1>3, <3>3, <3>5 DEF Restores
  <2>8. QED
    BY <1>9, <1>10, <2>5, <2>6, <2>7 DEF CycleInv
<1>13. QED
  BY <1>11, <1>12

\* SSAPatch of the resource, in a Sleep that succeeds or fails.
LEMMA ApplyKeeps ==
    ASSUME CycleInv, Sleeping, Changes, NEW lost \in BOOLEAN, ApplyPatch(lost),
           IF lost THEN secret' = secret ELSE UpsertSecret("SLEEP", RestorePatch),
           UNCHANGED <<resource, labels, others, spec>>
    PROVE  CycleInv'
<1>1. /\ job.operation = "SLEEP" /\ job' = Idle
      /\ Me \in job.list /\ Modified = Exec(job.patch.ops, job.data)
      /\ Modified # Failed
  BY DEF Sleeping, Operating, Changes, Modified
<1>2. /\ ForwardPatch = CreateMergePatch(job.data, Modified)
      /\ RestorePatch = CreateMergePatch(Modified, job.data)
  BY DEF ForwardPatch, RestorePatch
<1>3. /\ doc' = ServerSideApply(doc, ForwardPatch, owned)
      /\ owned' = Replaced(ForwardPatch)
      /\ slept' = IF slept # None THEN slept
                  ELSE [patch |-> job.patch.ops, lost |-> lost,
                        paths |-> PathsSet(job.patch.ops, job.data)]
      /\ disturbed' = (disturbed \/ slept # None
                       \/ ~ owned \subseteq DOMAIN ForwardPatch)
      /\ UNCHANGED <<shadow, resource, labels, others, spec>>
  BY DEF ApplyPatch
<1>4. QED
  BY <1>1, <1>2, <1>3, SleepAppliesKeeps

\* Sleep.
LEMMA SleepKeeps == CycleInv /\ Sleep => CycleInv'
<1> SUFFICES ASSUME CycleInv, Sleep PROVE CycleInv'
  OBVIOUS
<1>1. Sleeping /\ UNCHANGED <<resource, labels, others, spec>>
  BY DEF Sleep
<1>2. CASE Changes
  <2>1. ApplyPatch(FALSE) /\ UpsertSecret("SLEEP", RestorePatch)
    BY <1>2 DEF Sleep
  <2>2. QED
    BY <1>1, <1>2, <2>1, ApplyKeeps
<1>3. CASE ~ Changes
  <2>1. /\ disturbed' = (disturbed /\ slept # None)
        /\ shadow' = IF disturbed /\ slept = None THEN doc ELSE shadow
        /\ UNCHANGED <<doc, owned, slept>>
        /\ UpsertSecret("SLEEP", job.restore)
    BY <1>3 DEF Sleep
  <2>2. job.step = "operate" /\ job' = Idle
    BY <1>1 DEF Sleeping, Operating
  <2>3. UNCHANGED <<doc, owned, slept, resource, labels, others, spec>>
    BY <1>1, <2>1
  <2>4. QED
    BY <2>1, <2>2, <2>3, SleepSkipsKeeps
<1>4. QED
  BY <1>2, <1>3

\* A Sleep that the API server refuses.
LEMMA SleepRefusedKeeps == CycleInv /\ SleepRefused => CycleInv'
<1> SUFFICES ASSUME CycleInv, SleepRefused PROVE CycleInv'
  OBVIOUS
<1>1. /\ Sleeping /\ UNCHANGED <<resource, labels, others, spec>>
      /\ secret' = secret
  BY DEF SleepRefused
<1>2. CASE UNCHANGED <<doc, owned, cycleVars>>
  BY <1>1, <1>2, EndKeeps DEF Sleeping
<1>3. CASE Changes /\ ApplyPatch(TRUE)
  BY <1>1, <1>3, ApplyKeeps
<1>4. QED
  BY <1>2, <1>3 DEF SleepRefused

\* WakeUp finds nothing to restore: the restore patch is dropped.
LEMMA WakeUpSkipsKeeps ==
    ASSUME CycleInv, ~ disturbed, slept # None,
           slept' = [slept EXCEPT !.lost = TRUE], Restore' = None,
           UNCHANGED <<doc, shadow>>, ~ disturbed'
    PROVE  SleptTypes' /\ RestoreInv' /\ PatchedInv'
<1>1. /\ SleptTypes' /\ slept' # None /\ slept'.lost
      /\ slept'.patch = slept.patch /\ slept'.paths = slept.paths
  BY LostSleep
<1>2. QED
  BY <1>1 DEF CycleInv, RestoreInv, PatchedInv

\* WakeUp.
LEMMA WakeUpKeeps == CycleInv /\ WakeUp => CycleInv'
<1> SUFFICES ASSUME CycleInv, WakeUp PROVE CycleInv'
  OBVIOUS
<1> DEFINE restores == /\ Me \in job.list
                       /\ job.restore # None
                       /\ ~ IsResourceChanged(job.patch.ops, job.data)
           m == CreateMergePatch(job.data, MergePatch(job.data, job.restore))
<1>1. /\ job.step = "operate" /\ job.operation = "WAKE_UP" /\ job' = Idle
      /\ doc' = IF restores THEN MergePatch(doc, m) ELSE doc
      /\ owned' = StillOwned(owned, doc, doc')
      /\ UpsertSecret("WAKE_UP", None)
      /\ slept' = IF restores \/ disturbed \/ slept = None THEN None
                  ELSE [slept EXCEPT !.lost = TRUE]
      /\ shadow' = IF disturbed THEN doc' ELSE shadow
      /\ disturbed' = FALSE
      /\ resource' = resource /\ labels' = labels /\ others' = others
      /\ spec' = spec
  BY DEF WakeUp, Operating, PatchedDocument
<1>2. Restore' = None /\ secret'.operationType = "WAKE_UP"
  BY <1>1, RestoreWritten
<1>3. JobInv' /\ PendingInv' /\ Validate(spec)'
  BY <1>1, IdleKeeps, ValidateKept DEF CycleInv
<1>4. doc \in Documents /\ shadow \in Documents
  BY DEF CycleInv, CycleTypes
<1>5. restores => m \in MergePatches
  BY WakeUpPatch
<1>6. ASSUME restores, ~ disturbed, slept # None
      PROVE  MergePatch(doc, m) = shadow
  BY <1>1, <1>6 DEF CycleInv, PendingInv, Restores
<1>7. restores => slept # None
  BY <1>1 DEF CycleInv, JobInv, RestoreInv
<1> HIDE DEF restores, m
<1>8. doc' \in Documents /\ shadow' \in Documents
  BY <1>1, <1>4, <1>5, MergedDocument
<1>9. CycleTypes'
  <2>1. owned' \subseteq {q \in DOMAIN doc' : doc'[q] # Object}
    BY <1>1 DEF StillOwned, CycleInv, CycleTypes
  <2>2. QED
    BY <1>1, <1>2, <1>8, <2>1 DEF CycleInv, CycleTypes, Operations
<1>10. SleptTypes' /\ RestoreInv' /\ PatchedInv'
  <2>1. CASE restores \/ disturbed \/ slept = None
    <3>1. slept' = None
      BY <1>1, <2>1
    <3>2. doc' = shadow'
      <4>1. CASE disturbed
        BY <1>1, <4>1
      <4>2. CASE ~ disturbed /\ restores
        BY <1>1, <1>6, <1>7, <4>2
      <4>3. CASE ~ disturbed /\ ~ restores
        BY <1>1, <2>1, <4>3 DEF CycleInv, PatchedInv
      <4>4. QED
        BY <4>1, <4>2, <4>3
    <3>3. QED
      BY <1>2, <3>1, <3>2 DEF SleptTypes, RestoreInv, PatchedInv
  <2>2. CASE ~ (restores \/ disturbed \/ slept = None)
    BY <1>1, <1>2, <2>2, WakeUpSkipsKeeps
  <2>3. QED
    BY <2>1, <2>2
<1>11. QED
  BY <1>3, <1>9, <1>10 DEF CycleInv

\* Every step keeps the invariant.
LEMMA NextCycle == CycleInv /\ [Next]_vars => CycleInv'
<1> SUFFICES ASSUME CycleInv, [Next]_vars PROVE CycleInv'
  OBVIOUS
<1>1. CASE EditDocument
  BY <1>1, EditDocumentKeeps
<1>2. CASE EditLabels
  BY <1>2, EditLabelsKeeps
<1>3. CASE EditOthers
  BY <1>3, EditOthersKeeps
<1>4. CASE EditSpec
  BY <1>4, EditSpecKeeps
<1>5. CASE ListResources
  BY <1>5, ListKeeps
<1>6. CASE OperationFails
  BY <1>6, EndKeeps DEF OperationFails
<1>7. CASE NoResource
  BY <1>7, NoResourceKeeps
<1>8. CASE Sleep
  BY <1>8, SleepKeeps
<1>9. CASE WakeUp
  BY <1>9, WakeUpKeeps
<1>10. CASE UNCHANGED vars
  <2>1. /\ UNCHANGED <<resource, doc, labels, owned, others, spec, secret, job>>
        /\ UNCHANGED cycleVars
    BY <1>10 DEF vars
  <2>2. SleptTypes' /\ JobInv' /\ RestoreInv' /\ PatchedInv' /\ PendingInv'
    BY <2>1, OthersKeep
  <2>3. CycleTypes'
    BY <2>1, RestoreKept DEF CycleInv, CycleTypes, cycleVars
  <2>4. Validate(spec)'
    BY <2>1, ValidateKept DEF CycleInv
  <2>5. QED
    BY <2>2, <2>3, <2>4 DEF CycleInv
<1>11. CASE SleepRefused
  BY <1>11, SleepRefusedKeeps
<1>12. QED
  BY <1>1, <1>2, <1>3, <1>4, <1>5, <1>6, <1>7, <1>8, <1>9, <1>10, <1>11 DEF Next

\* The invariant holds in every state.
LEMMA CycleInvariant == Spec => []CycleInv
BY InitCycle, NextCycle, PTL DEF Spec

-----------------------------------------------------------------------------
(***************************************************************************)
(* The theorems.                                                           *)
(***************************************************************************)

(***************************************************************************)
(* Documents stay documents, whatever patches create parents and whatever  *)
(* restore patches remove them, and what kube-green owns is a part of the  *)
(* resource.                                                               *)
(***************************************************************************)
THEOREM DocumentsStayDocuments == Spec => []TypeOK
<1>1. CycleInv => TypeOK
  BY DEF CycleInv, CycleTypes, JobInv, TypeOK
<1>2. QED
  BY <1>1, CycleInvariant, PTL

(***************************************************************************)
(* For all documents, patches and edits elsewhere, before, during and      *)
(* after a reconcile: awake, a document is as users made it; asleep, it is *)
(* that document with the patch of Sleep applied.                          *)
(***************************************************************************)
THEOREM CycleIsTransparent == Spec => []Transparent
<1>1. CycleInv => Transparent
  BY DEF CycleInv, PatchedInv, Transparent
<1>2. QED
  BY <1>1, CycleInvariant, PTL

\* No operation of a patch undoes or reaches into what another one does.
PatchesSeparate == \A p \in UsedPatches : Separate(p.ops)

(***************************************************************************)
(* WakeUp restores the document as users made it, for all documents and    *)
(* edits, when it lists the resource, the patch is the one that put it to  *)
(* sleep and its restore patch is not lost.  The operations of a  *)
(* patch must be separate: WakeUp tests whether the patch, applied once    *)
(* more, leaves the document as it is, and another patch may not.          *)
(***************************************************************************)
THEOREM SleepersWake ==
    ASSUME PatchesSeparate
    PROVE  Spec => WakesWhatSlept
<1> DEFINE Wakes == (/\ WakeUp
                     /\ Me \in job.list
                     /\ slept # None /\ ~ slept.lost /\ ~ disturbed
                     /\ job.patch.ops = slept.patch)
                    => doc' = shadow
<1>1. CycleInv /\ [Next]_vars => [Wakes]_vars
  <2>1. SUFFICES ASSUME CycleInv, WakeUp,
                        Me \in job.list, slept # None, ~ slept.lost, ~ disturbed,
                        job.patch.ops = slept.patch
                 PROVE  doc' = shadow
    OBVIOUS
  <2>2. /\ job.step = "operate" /\ job.operation = "WAKE_UP" /\ job.list # {}
        /\ job # Idle /\ ~ NewPatcherFails(job.patch) /\ job.patch \in UsedPatches
    <3>1. job.step = "operate" /\ job.operation = "WAKE_UP" /\ job.list # {}
      BY <2>1 DEF WakeUp, Operating
    <3>2. JobInv
      BY <2>1 DEF CycleInv
    <3>3. job # Idle
      BY <3>1, IdleIs
    <3>4. QED
      BY ONLY SMTT(30), <3>1, <3>2, <3>3 DEF JobInv
  <2>3. job.restore # None
    BY <2>1, <2>2 DEF CycleInv, JobInv, RestoreInv
  <2>4. /\ Separate(slept.patch) => Exec(slept.patch, job.data) = job.data
        /\ Restores(doc, CreateMergePatch(job.data,
                                          MergePatch(job.data, job.restore)),
                    shadow, slept.paths)
    BY <2>1, <2>2, <2>3 DEF CycleInv, PendingInv
  <2>5. Separate(slept.patch)
    BY <2>1, <2>2 DEF PatchesSeparate
  <2>6. ~ IsResourceChanged(job.patch.ops, job.data)
    BY <2>1, <2>4, <2>5 DEF IsResourceChanged
  <2>7. doc' = MergePatch(doc, CreateMergePatch(job.data,
                                                 MergePatch(job.data, job.restore)))
    BY <2>1, <2>3, <2>6 DEF WakeUp, PatchedDocument
  <2>8. QED
    BY <2>4, <2>7 DEF Restores
<1>2. QED
  BY <1>1, CycleInvariant, PTL DEF Spec, WakesWhatSlept

(***************************************************************************)
(* Every reconcile works on the resources that includeRef and excludeRef   *)
(* say, for all filters, labels and neighbours, except for names of the    *)
(* core group and for more items than one answer of the API server holds.  *)
(***************************************************************************)
THEOREM ListsAsDocumented == Spec => SelectedAsDocumented
<1> DEFINE Lists ==
        (/\ job = Idle /\ job'.step = "operate" /\ job'.patch # None
         /\ ~ NamesCore(resource.target, spec.filter) /\ ~ ExcludesByLabels(spec.filter)
         /\ Cardinality(Matching(Items, resource.target, spec.filter)) <= Limit)
        => job'.list = {i.name : i \in Wanted(Items, resource.target, spec.filter)}
<1>1. CycleInv /\ [Next]_vars => [Lists]_vars
  <2>1. SUFFICES ASSUME CycleInv, Next,
                        job = Idle, job'.step = "operate", job'.patch # None,
                        ~ NamesCore(resource.target, spec.filter),
                        ~ ExcludesByLabels(spec.filter),
                        Cardinality(Matching(Items, resource.target, spec.filter)) <= Limit
                 PROVE  job'.list = {i.name : i \in Wanted(Items, resource.target,
                                                           spec.filter)}
    OBVIOUS
  <2>2. job.step # "operate" /\ job.list = {} /\ job' # Idle /\ job' # job
    <3>1. job.step = "idle" /\ job.list = {}
      BY <2>1, IdleIs
    <3>2. job' # Idle /\ job' # job
      BY <2>1, <3>1, IdleIs
    <3>3. QED
      BY <3>1, <3>2
  <2>3. ~ (EditDocument \/ EditLabels \/ EditOthers \/ EditSpec)
    BY <2>2 DEF EditDocument, EditLabels, EditOthers, EditSpec
  <2>4. ~ (OperationFails \/ NoResource \/ Sleep \/ SleepRefused \/ WakeUp)
    BY <2>2 DEF OperationFails, NoResource, Sleep, SleepRefused, Sleeping, WakeUp,
                Operating
  <2>5. ListResources
    BY <2>1, <2>3, <2>4 DEF Next
  <2>6. spec.parses
    BY <2>1 DEF CycleInv, Validate
  <2>7. job'.list = {i.name : i \in GetListByNamespace(Items, resource.target,
                                                       spec.filter)}
    <3> DEFINE patch == TargetPatch(GetPatches(spec))
               names == {i.name : i \in GetListByNamespace(Items, resource.target,
                                                           spec.filter)}
               list == IF patch = None THEN {} ELSE names
               operation == CurrentOperation(secret.operationType, spec.wakeUp)
               data == IF Me \in list THEN doc ELSE None
    <3>1. job' = [step |-> "operate", operation |-> operation, list |-> list,
                  data |-> data, patch |-> patch, restore |-> Restore]
      BY <2>5, <2>6 DEF ListResources, Restore
    <3> HIDE DEF names, operation, data, patch
    <3>2. QED
      BY <2>1, <3>1 DEF names
  <2>8. IsList(spec.filter.include) /\ IsList(spec.filter.exclude)
    BY <2>1, SelectionAssumption DEF CycleInv, CycleTypes, IsList
  <2>9. GetListByNamespace(Items, resource.target, spec.filter)
        = Wanted(Items, resource.target, spec.filter)
    BY <2>1, <2>8, ItemsFinite, ListsWhatFiltersSay
  <2>10. QED
    BY <2>7, <2>9
<1>2. QED
  BY <1>1, CycleInvariant, PTL DEF Spec, SelectedAsDocumented

=============================================================================
