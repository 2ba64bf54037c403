--------------------------- MODULE ResourceCycle ----------------------------
(***************************************************************************)
(* One resource through sleeps and wake ups, with its document: the        *)
(* SleepInfo that the webhook admits, the list with its filters, the JSON  *)
(* patch, the restore patch in the Secret or in a key of an old Secret,    *)
(* Server Side Apply and the merge patch.  Users edit the resource, its    *)
(* neighbours and the SleepInfo at any time, also between the list and the *)
(* patches.  The API server may refuse the patch of a Sleep, as one that   *)
(* Validate admits can make an object it does not accept; other calls do   *)
(* not fail here: module KubeGreen has the failures, several targets and   *)
(* the two controllers.                                                    *)
(***************************************************************************)
EXTENDS JSONDocuments, ResourceSelection, SleepInfoData

CONSTANTS
    Me,           \* the name of the resource
    OtherLabels,  \* the labels of each of its possible neighbours
    MyLabels,     \* the label sets that the resource may have
    DefaultPath,  \* the path that the default patch of the target sets
    DefaultValue, \* the value that it sets it to
    None,         \* no restore patch, no entry in an old Secret, not asleep
    Setups,       \* what a run may start with
    PatchLists,   \* values of the field patches
    Filters,      \* values of the fields includeRef and excludeRef
    EditPaths,    \* the paths that users set or remove
    MaxEdits      \* bound: edits by users

\* A patch of the SleepInfo and the operations that patcher.New makes of it.
Patches == [text : {"", "ops", "invalid"}, ops : Seq(JSONOperations)]

\* What is remembered of a sleep.
Sleeps == [patch : Seq(JSONOperations), paths : SUBSET Paths, lost : BOOLEAN]

(***************************************************************************)
(* An old Secret has an entry for a resource that an old version put to    *)
(* sleep by the default patch of a target with an old key.                 *)
(***************************************************************************)
ASSUME CycleAssumption ==
    /\ MaxEdits \in Nat
    /\ DefaultPath \in Paths /\ DefaultValue \in Leaves /\ EditPaths \subseteq Paths
    /\ None \notin Documents \cup MergePatches /\ None \notin Sleeps
    /\ PatchLists \subseteq Seq(Patches)
    /\ \A s \in Setups :
         /\ s.doc \in Documents /\ s.labels \in MyLabels
         /\ s.patches \in Seq(Patches) /\ s.filter \in Filters
         /\ s.others \subseteq DOMAIN OtherLabels
         /\ s.old # None => /\ s.resource.oldKey /\ s.old \in Leaves
                            /\ DefaultPath \in DOMAIN s.doc
                            /\ s.doc[DefaultPath] = DefaultValue

\* Names are numbers, and filters have lists of references.
ASSUME SelectionAssumption ==
    /\ Me \in Nat /\ DOMAIN OtherLabels \subseteq Nat
    /\ IsFiniteSet(DOMAIN OtherLabels)
    /\ \A f \in Filters : /\ f.include \in Seq(Range(f.include))
                          /\ f.exclude \in Seq(Range(f.exclude))

VARIABLES
    resource,   \* its target, whether that has a default patch and an old
                \* key, and whether a controller owns the resource; fixed
    doc,        \* its document
    labels,     \* its labels
    owned,      \* the paths that kube-green owns by Server Side Apply
    others,     \* the names of its neighbours
    spec,       \* what the reconcile uses of the SleepInfo
    secret,     \* the Secret; old is the entry in a key of old Secrets
    job,        \* the reconcile in progress
    edits,      \* edits so far
    shadow,     \* history: the document as users made it
    slept,      \* history: the patch that put the resource to sleep, the
                \* paths it set, and whether its restore patch is lost: the
                \* Sleep failed before it saved it, or an operation that
                \* did not wake the resource up dropped it
    disturbed   \* history: a user changed a path that a sleep sets, a later
                \* sleep changed the resource once more, or a sleep gave up
                \* a path it owned; until the next wake up

cycleVars == <<shadow, slept, disturbed>>

vars == <<resource, doc, labels, owned, others, spec, secret, job, edits, cycleVars>>

-----------------------------------------------------------------------------
\* deploymentPatch, statefulSetPatch or cronjobPatch.
DefaultOps == <<[op |-> "add", path |-> DefaultPath, value |-> DefaultValue]>>

(***************************************************************************)
(* The SleepInfo.  A patch is the text of the field, "" when it is empty,  *)
(* and the operations that patcher.New makes of it.  parses says that the  *)
(* schedules of sleepAt and wakeUpAt do.                                   *)
(***************************************************************************)
GetPatches(s) ==
    (IF resource.default /\ s.suspend
     THEN <<[text |-> "ops", ops |-> DefaultOps]>> ELSE <<>>) \o s.patches

\* patcher.New takes the empty text for a patch without operations.
NewPatcherFails(patch) == patch.text = "invalid"

Validate(s) ==
    /\ s.parses
    /\ \A i \in DOMAIN GetPatches(s) : ~ NewPatcherFails(GetPatches(s)[i])

\* The API server asks ValidateCreate or ValidateUpdate.
Admit(s) == Validate(s) /\ spec' = s

Edited(s) ==
    {[s EXCEPT !.suspend = ~ @], [s EXCEPT !.wakeUp = ~ @],
     [s EXCEPT !.parses = ~ @]}
    \cup {[s EXCEPT !.patches = p] : p \in PatchLists}
    \cup {[s EXCEPT !.filter = f] : f \in Filters}

-----------------------------------------------------------------------------
Idle == [step |-> "idle", operation |-> NoOperation, list |-> {}, data |-> None,
         patch |-> None, restore |-> None]

NoSecret == [operationType |-> NoOperation, original |-> None, old |-> None]

\* The restore patch of an entry of an old Secret, in deployment-replicas or
\* cronjobs-info.
GetOriginalInfoToRestore(old) ==
    [p \in {DefaultPath} \cup Above[DefaultPath] |->
        IF p = DefaultPath THEN old ELSE Object]

Items == {[name |-> Me, labels |-> labels]}
         \cup {[name |-> n, labels |-> OtherLabels[n]] : n \in others}

\* A SleepInfo that is new, or one that an older version of kube-green left
\* asleep.
Init ==
    \E s \in Setups :
      /\ resource = s.resource /\ doc = s.doc /\ labels = s.labels
      /\ others = s.others
      /\ spec = [suspend |-> TRUE, patches |-> s.patches, filter |-> s.filter,
                 wakeUp |-> TRUE, parses |-> TRUE]
      /\ Validate(spec)
      /\ secret = [NoSecret EXCEPT
                     !.operationType = IF s.old = None THEN @ ELSE "SLEEP",
                     !.old = s.old]
      /\ owned = {} /\ job = Idle /\ edits = 0
      /\ shadow = IF s.old = None THEN s.doc
                  ELSE MergePatch(s.doc, GetOriginalInfoToRestore(s.old))
      /\ slept = IF s.old = None THEN None
                 ELSE [patch |-> DefaultOps, paths |-> PathsSet(DefaultOps, shadow),
                       lost |-> FALSE]
      /\ disturbed = FALSE

-----------------------------------------------------------------------------
(***************************************************************************)
(* Users.                                                                  *)
(***************************************************************************)
EditsLeft == edits < MaxEdits /\ edits' = edits + 1

\* The paths that the sleep in progress, if any, sets or creates.
Setting ==
    IF job.operation = "SLEEP" /\ Me \in job.list
       /\ Exec(job.patch.ops, job.data) # Failed
    THEN PathsSet(job.patch.ops, job.data) ELSE {}

EditDocument ==
    /\ EditsLeft
    /\ \E p \in EditPaths : \E v \in Leaves \cup {Null} :
         /\ v = Null \/ \A q \in Paths : p \notin Above[q]
         /\ doc' = Edit(doc, p, v)
         /\ doc' # doc
         /\ shadow' = Edit(shadow, p, v)
         /\ disturbed' = (disturbed \/ ~ Apart(p, Setting) \/
                          (slept # None /\ ~ Apart(p, slept.paths)))
    /\ owned' = StillOwned(owned, doc, doc')
    /\ UNCHANGED <<resource, labels, others, spec, secret, job, slept>>

EditLabels ==
    /\ EditsLeft
    /\ labels' \in MyLabels \ {labels}
    /\ UNCHANGED <<resource, doc, owned, others, spec, secret, job, cycleVars>>

EditOthers ==
    /\ EditsLeft
    /\ \E n \in DOMAIN OtherLabels :
         others' = IF n \in others THEN others \ {n} ELSE others \cup {n}
    /\ UNCHANGED <<resource, doc, labels, owned, spec, secret, job, cycleVars>>

EditSpec ==
    /\ EditsLeft
    /\ \E s \in Edited(spec) \ {spec} : Admit(s)
    /\ UNCHANGED <<resource, doc, labels, owned, others, secret, job, cycleVars>>

-----------------------------------------------------------------------------
(***************************************************************************)
(* The reconcile of an operation that is due.                              *)
(***************************************************************************)

\* Variant: the old key is not looked at.
ConvertNothing(original, old) == original

\* The entry of an old key takes the place of the restore patch.
ConvertOldSecretDataToNewFormat(original, old) ==
    IF resource.oldKey /\ old # None THEN GetOriginalInfoToRestore(old) ELSE original

\* Of several patches with the same target the last one is in resMapping.
TargetPatch(patches) == IF patches = <<>> THEN None ELSE patches[Len(patches)]

\* getSleepInfoData and NewResources.
ListResources ==
    /\ job = Idle
    /\ spec.parses
    /\ LET patch == TargetPatch(GetPatches(spec))
           list == IF patch = None THEN {}
                   ELSE {i.name : i \in GetListByNamespace(Items, resource.target,
                                                           spec.filter)}
       IN  job' = [step |-> "operate",
                   operation |-> CurrentOperation(secret.operationType, spec.wakeUp),
                   list |-> list,
                   data |-> IF Me \in list THEN doc ELSE None,
                   patch |-> patch,
                   restore |-> ConvertOldSecretDataToNewFormat(
                                 secret.original, secret.old)]
    /\ UNCHANGED <<resource, doc, labels, owned, others, spec, secret, edits, cycleVars>>

Operating(operation) ==
    job.step = "operate" /\ job.list # {} /\ job.operation = operation

\* Sleep and WakeUp return an error before they patch a resource of the target.
OperationFails ==
    /\ job.list # {}
    /\ NewPatcherFails(job.patch) \/ (Operating("SLEEP") /\ job.patch.text = "")
    /\ job' = Idle
    /\ UNCHANGED <<resource, doc, labels, owned, others, spec, secret, edits, cycleVars>>

\* upsertSecret makes a new Secret.
UpsertSecret(operation, original) ==
    secret' = [operationType |-> operation, original |-> original, old |-> None]

\* HasResource is false.
NoResource ==
    /\ job.step = "operate"
    /\ job.list = {}
    /\ UpsertSecret(NoOperation, None)
    /\ job' = Idle
    /\ slept' = IF slept = None THEN None ELSE [slept EXCEPT !.lost = TRUE]
    /\ UNCHANGED <<resource, doc, labels, owned, others, spec, edits, shadow,
                   disturbed>>

\* What the patch makes of the copy in the list, if Sleep applies it at all.
Modified ==
    IF Me \in job.list /\ ~ resource.controlled
    THEN Exec(job.patch.ops, job.data) ELSE Failed

Changes == Modified \notin {Failed, job.data}

ForwardPatch == CreateMergePatch(job.data, Modified)

RestorePatch == CreateMergePatch(Modified, job.data)

\* SSAPatch of the sparse object; lost says that the Sleep fails later on.
ApplyPatch(lost) ==
    /\ doc' = ServerSideApply(doc, ForwardPatch, owned)
    /\ owned' = Replaced(ForwardPatch)
    /\ slept' = IF slept # None THEN slept
                ELSE [patch |-> job.patch.ops, lost |-> lost,
                      paths |-> PathsSet(job.patch.ops, job.data)]
    /\ disturbed' = (disturbed \/ slept # None \/ ~ owned \subseteq DOMAIN ForwardPatch)
    /\ UNCHANGED shadow

Sleeping ==
    /\ Operating("SLEEP")
    /\ ~ NewPatcherFails(job.patch) /\ job.patch.text # ""
    /\ job' = Idle

Sleep ==
    /\ Sleeping
    /\ IF Changes
       THEN ApplyPatch(FALSE)
       ELSE /\ disturbed' = (disturbed /\ slept # None)
            /\ shadow' = IF disturbed /\ slept = None THEN doc ELSE shadow
            /\ UNCHANGED <<doc, owned, slept>>
    /\ UpsertSecret("SLEEP", IF Changes THEN RestorePatch ELSE job.restore)
    /\ UNCHANGED <<resource, labels, others, spec, edits>>

(***************************************************************************)
(* The API server refuses the patch, of the resource or of a neighbour in  *)
(* the list before or after it: Sleep returns the error, and the Secret    *)
(* stays as it is.                                                         *)
(***************************************************************************)
SleepRefused ==
    /\ Sleeping
    /\ \/ (Changes \/ job.list # {Me}) /\ UNCHANGED <<doc, owned, cycleVars>>
       \/ Changes /\ job.list # {Me} /\ ApplyPatch(TRUE)
    /\ UNCHANGED <<resource, labels, others, spec, secret, edits>>

\* Variant: the restored document replaces what is there.
RestoredDocument(d, data, restored) == restored

\* Patch sends what WakeUp changed in its copy.
PatchedDocument(d, data, restored) ==
    MergePatch(d, CreateMergePatch(data, restored))

WakeUp ==
    LET restores == /\ Me \in job.list
                    /\ job.restore # None
                    /\ ~ IsResourceChanged(job.patch.ops, job.data)
    IN  /\ Operating("WAKE_UP")
        /\ ~ NewPatcherFails(job.patch)
        /\ doc' = IF restores
                  THEN PatchedDocument(doc, job.data, MergePatch(job.data, job.restore))
                  ELSE doc
        /\ owned' = StillOwned(owned, doc, doc')
        /\ UpsertSecret("WAKE_UP", None)
        /\ job' = Idle
        /\ slept' = IF restores \/ disturbed \/ slept = None THEN None
                    ELSE [slept EXCEPT !.lost = TRUE]
        /\ shadow' = IF disturbed THEN doc' ELSE shadow
        /\ disturbed' = FALSE
        /\ UNCHANGED <<resource, labels, others, spec, edits>>

-----------------------------------------------------------------------------
Next ==
    \/ EditDocument \/ EditLabels \/ EditOthers \/ EditSpec
    \/ ListResources \/ OperationFails
    \/ NoResource \/ Sleep \/ SleepRefused \/ WakeUp

Spec == Init /\ [][Next]_vars

-----------------------------------------------------------------------------
(***************************************************************************)
(* Properties.                                                             *)
(***************************************************************************)

(***************************************************************************)
(* The document is always one: the paths that lead to a path of it are     *)
(* objects, also after patches that create parents and restore patches     *)
(* that remove them.  What is owned is a part of it.                       *)
(***************************************************************************)
TypeOK ==
    /\ doc \in Documents /\ shadow \in Documents
    /\ owned \subseteq DOMAIN doc
    /\ labels \in MyLabels
    /\ job.data \in Documents \cup {None}
    /\ job.operation \in Operations \cup {NoOperation}
    /\ secret.operationType \in Operations \cup {NoOperation}
    /\ disturbed \in BOOLEAN

(***************************************************************************)
(* What kube-green changes in a document is the patch and nothing else:    *)
(* awake, the document is as users made it, and asleep it is that document *)
(* with the patch of Sleep applied, whatever users changed elsewhere in it *)
(* before, during and after the sleep.                                     *)
(***************************************************************************)
Transparent ==
    ~ disturbed =>
        doc = IF slept = None THEN shadow ELSE Exec(slept.patch, shadow)

(***************************************************************************)
(* WakeUp restores a resource that Sleep, of this or an older version of   *)
(* kube-green, put to sleep to the document as users made it, provided     *)
(* that it lists the resource, the patch is still the same, the Sleep did  *)
(* not fail before it saved the restore patch and no operation in between  *)
(* dropped it.                                                             *)
(***************************************************************************)
WakesWhatSlept ==
    [][(/\ WakeUp
        /\ Me \in job.list
        /\ slept # None /\ ~ slept.lost /\ ~ disturbed
        /\ job.patch.ops = slept.patch)
       => doc' = shadow]_vars

(***************************************************************************)
(* getListByNamespace returns what includeRef and excludeRef say, unless   *)
(* they name resources of the core group, a reference of excludeRef has    *)
(* several labels or more items match the selectors than one answer holds. *)
(***************************************************************************)
SelectedAsDocumented ==
    [][(/\ job = Idle /\ job'.step = "operate" /\ job'.patch # None
        /\ ~ NamesCore(resource.target, spec.filter) /\ ~ ExcludesByLabels(spec.filter)
        /\ Cardinality(Matching(Items, resource.target, spec.filter)) <= Limit)
       => job'.list = {i.name : i \in Wanted(Items, resource.target, spec.filter)}]_vars

=============================================================================
