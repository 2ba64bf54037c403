-------------------------- MODULE ManagedResources --------------------------
(***************************************************************************)
(* What both controllers do to the resources of a SleepInfo and to its     *)
(* Secret: jsonpatch.NewResources, Sleep and WakeUp, upsertSecret and      *)
(* handleSleepInfoStatus, one step per API call.                           *)
(*                                                                         *)
(* A worker is a reconcile in progress.  The SleepInfo controller never    *)
(* runs two of them for the same SleepInfo, and the SleepInfoExecution     *)
(* controller has a single worker; the two controllers have queues of      *)
(* their own and run at the same time.                                     *)
(***************************************************************************)
EXTENDS Cluster

CONSTANTS
    Workers,     \* the controllers that run: a subset of {"cron", "exec"}
    FaultKinds,  \* what fails: a subset of AllFaults
    MaxFaults    \* bound: API calls that fail and restarts of the manager

\* A list; another call, before or after the API server performed it; the
\* process of the manager.
AllFaults == {"list", "call", "answer", "restart"}

ASSUME WorkersAssumption ==
    /\ Workers \subseteq {"cron", "exec"}
    /\ FaultKinds \subseteq AllFaults
    /\ MaxFaults \in Nat

VARIABLES
    job,      \* the local state of each reconcile
    faults,   \* API calls that failed, and restarts, so far
    lost      \* history: workloads patched by a Sleep that failed before it
              \* saved their restore patches

Steps == {"idle", "owner", "secret", "list", "apply", "status", "phase"}

Jobs ==
    [step : Steps,
     execution : Executions \cup {None},  \* the SleepInfoExecution, if any
     operation : {"SLEEP", "WAKE_UP", ""},  \* CurrentOperationType
     wakeUp : BOOLEAN,                    \* the SleepInfo read has a wakeUpAt
     hadSecret : BOOLEAN,                 \* the Secret was found
     toList : SUBSET Targets,             \* patches not yet listed
     data : ValueMap,                     \* genericResource.data
     restorePatches : ValueMap,
     toPatch : SUBSET Workloads,          \* resources not yet patched
     seen : ExecutionObjects,             \* the execution as it was read
     phase : Phases]                      \* the phase to write

Idle ==
    [step |-> "idle", execution |-> None, operation |-> "", wakeUp |-> FALSE,
     hadSecret |-> FALSE, toList |-> {}, data |-> NoValues,
     restorePatches |-> NoValues, toPatch |-> {}, seen |-> NoExecution,
     phase |-> ""]

At(p, step) == p \in Workers /\ job[p].step = step

\* The handler returns; what it held is forgotten.
Return(p) == job' = [job EXCEPT ![p] = Idle]

Fault(kind) ==
    /\ kind \in FaultKinds
    /\ faults < MaxFaults
    /\ faults' = faults + 1

\* The reconcile reads the SleepInfo from the informer cache.
HoldersAfterGet(p) ==
    IF "cache" \in sleepInfo.holders THEN sleepInfo.holders \cup {p}
                                     ELSE sleepInfo.holders \ {p}

-----------------------------------------------------------------------------
(***************************************************************************)
(* NewResources: one list per patch target.  A list that fails is logged   *)
(* and its target left out; so is a target without resources.              *)
(***************************************************************************)
ListTarget(p, t) ==
    /\ At(p, "list")
    /\ t \in job[p].toList
    /\ job' = [job EXCEPT
         ![p].toList = @ \ {t},
         ![p].data = [w \in Workloads |->
                        IF TargetOf[w] = t THEN workload[w] ELSE @[w]]]
    /\ UNCHANGED <<clusterVars, faults, lost>>

ListFails(p, t) ==
    /\ At(p, "list")
    /\ t \in job[p].toList
    /\ Fault("list")
    /\ job' = [job EXCEPT ![p].toList = @ \ {t}]
    /\ UNCHANGED <<clusterVars, lost>>

Listed(p) == At(p, "list") /\ job[p].toList = {}

HasResource(p) == \E w \in Workloads : job[p].data[w] # None

\* A target is in resMapping when its list had an item.
Mapped(p, t) ==
    \E w \in Workloads : TargetOf[w] = t /\ job[p].data[w] # None

\* Variant: an empty restore patch is saved as well.
ToSleepAgain(p) ==
    {w \in Workloads \ (Controlled \cup Unpatchable) : job[p].data[w] # None}

\* Sleep skips what another controller owns, what the patch does not apply to
\* and what the patch does not change.
ToSleep(p) ==
    {w \in Workloads \ (Controlled \cup Unpatchable) :
        job[p].data[w] \notin {None, SleepValue}}

\* Variant: IsResourceChanged the other way round.
ToWakeUpChanged(p) ==
    {w \in Workloads \ Unpatchable :
        job[p].data[w] # SleepValue /\ job[p].restorePatches[w] # None}

\* WakeUp skips what has no restore patch and what is not as the patch left it.
ToWakeUp(p) ==
    {w \in Workloads \ Unpatchable :
        job[p].data[w] = SleepValue /\ job[p].restorePatches[w] # None}

\* Variant: the restore patches of earlier sleeps are not passed on.
ApplyingAnew(p) ==
    [job[p] EXCEPT
       !.step = "apply",
       !.restorePatches = IF job[p].operation = "SLEEP" THEN NoValues ELSE @,
       !.toPatch = IF job[p].operation = "SLEEP" THEN ToSleep(p)
                                                 ELSE ToWakeUp(p)]

\* The job as it enters Sleep or WakeUp: the restore patches of a target that
\* is not in resMapping are not looked at, nor saved, any more.
Applying(p) ==
    [job[p] EXCEPT
       !.step = "apply",
       !.restorePatches = [w \in Workloads |->
                             IF Mapped(p, TargetOf[w]) THEN @[w] ELSE None],
       !.toPatch = IF job[p].operation = "SLEEP" THEN ToSleep(p)
                                                 ELSE ToWakeUp(p)]

-----------------------------------------------------------------------------
(***************************************************************************)
(* Sleep and WakeUp: one patch per resource.  SSAPatch and Patch send no   *)
(* resourceVersion, so they overwrite whatever is there.  Of a resource    *)
(* that was deleted, Patch ignores the NotFound; to SSAPatch there is no   *)
(* NotFound: Server Side Apply creates the resource from the fields it is  *)
(* sent, or refuses them as invalid, as those of a Deployment without a    *)
(* selector.                                                               *)
(***************************************************************************)
PatchRefused(p, w) ==
    /\ At(p, "apply")
    /\ job[p].operation = "SLEEP"
    /\ w \in job[p].toPatch \ Creatable
    /\ workload[w] = None

PatchWrite(p, w) ==
    LET new == IF job[p].operation = "SLEEP" THEN SleepValue
                                             ELSE job[p].restorePatches[w]
    IN  /\ At(p, "apply")
        /\ w \in job[p].toPatch
        /\ ~ PatchRefused(p, w)
        /\ workload' = [workload EXCEPT
             ![w] = IF @ = None /\ job[p].operation # "SLEEP" THEN None ELSE new]
        /\ before' = [before EXCEPT
             ![w] = IF job[p].operation = "WAKE_UP" THEN None
                    ELSE IF workload[w] = job[p].data[w] THEN workload[w]
                    ELSE IF workload[w] = SleepValue THEN @ ELSE None]
        /\ UNCHANGED <<sleepInfo, secret, execution>>

\* Variant: the restore patch is not put in the map.
PatchUnrecorded(p, w) ==
    /\ PatchWrite(p, w)
    /\ job' = [job EXCEPT ![p].toPatch = @ \ {w}]
    /\ lost' = lost \ {w}
    /\ UNCHANGED faults

\* Variant: the merge patch is made from the original to the patched resource.
PatchSwapped(p, w) ==
    /\ PatchWrite(p, w)
    /\ job' = [job EXCEPT
         ![p].toPatch = @ \ {w},
         ![p].restorePatches[w] =
             IF job[p].operation = "SLEEP" THEN SleepValue ELSE @]
    /\ lost' = lost \ {w}
    /\ UNCHANGED faults

\* The restore patch is put in the map before the call.
Patch(p, w) ==
    /\ PatchWrite(p, w)
    /\ job' = [job EXCEPT
         ![p].toPatch = @ \ {w},
         ![p].restorePatches[w] =
             IF job[p].operation = "SLEEP" THEN job[p].data[w] ELSE @]
    /\ lost' = lost \ {w}
    /\ UNCHANGED faults

\* What Sleep has patched when toPatch is left: until upsertSecret the restore
\* patches are only in the memory of the reconcile.
Unsaved(p, toPatch) ==
    IF At(p, "apply") /\ job[p].operation = "SLEEP" THEN ToSleep(p) \ toPatch
                                                     ELSE {}

\* The handler returns an error, which ends Sleep where it is.
ReturnError(p, toPatch) ==
    /\ Return(p)
    /\ lost' = lost \cup Unsaved(p, toPatch)

\* An error with nothing performed.
Fail(p) == ReturnError(p, job[p].toPatch)

-----------------------------------------------------------------------------
\* Variant: the operation is recorded only in a Secret that is created.
NewSecretOnce(p) ==
    [exists |-> TRUE,
     operationType |-> IF HasResource(p) /\ ~ job[p].hadSecret
                       THEN job[p].operation ELSE "",
     original |-> IF HasResource(p) /\ job[p].operation = "SLEEP"
                  THEN job[p].restorePatches ELSE NoValues]

(***************************************************************************)
(* upsertSecret builds a new Secret.  Create fails when the Secret was     *)
(* created meanwhile; Update carries no resourceVersion and replaces       *)
(* whatever is there, but fails when the Secret was deleted meanwhile.     *)
(***************************************************************************)
NewSecret(p) ==
    [exists |-> TRUE,
     operationType |-> IF HasResource(p) THEN job[p].operation ELSE "",
     original |-> IF HasResource(p) /\ job[p].operation = "SLEEP"
                  THEN job[p].restorePatches ELSE NoValues]

ReadyToSave(p) == At(p, "apply") /\ job[p].toPatch = {}

SecretWrite(p) ==
    /\ ReadyToSave(p)
    /\ secret.exists = job[p].hadSecret
    /\ secret' = NewSecret(p)
    /\ UNCHANGED <<workload, sleepInfo, execution, before>>

SecretRefused(p) == ReadyToSave(p) /\ secret.exists # job[p].hadSecret

\* Variant: the operation is shown even when there was no resource.
StatusAlways(p) ==
    /\ sleepInfo.spec.exists
    /\ p \in sleepInfo.holders
    /\ sleepInfo' = [sleepInfo EXCEPT !.operation = job[p].operation,
                                      !.holders = {}]
    /\ UNCHANGED <<workload, secret, execution, before>>

\* Variant: the status is patched, whatever the version of the SleepInfo.
StatusPatched(p) ==
    /\ sleepInfo.spec.exists
    /\ sleepInfo' = [sleepInfo EXCEPT
         !.operation = IF HasResource(p) THEN job[p].operation ELSE "",
         !.holders = {}]
    /\ UNCHANGED <<workload, secret, execution, before>>

(***************************************************************************)
(* handleSleepInfoStatus: refused unless the copy that was read is still   *)
(* the current version of the SleepInfo.                                   *)
(***************************************************************************)
StatusWrite(p) ==
    /\ sleepInfo.spec.exists
    /\ p \in sleepInfo.holders
    /\ sleepInfo' = [sleepInfo EXCEPT
         !.operation = IF HasResource(p) THEN job[p].operation ELSE "",
         !.holders = {}]
    /\ UNCHANGED <<workload, secret, execution, before>>

StatusRefused(p) == ~ (sleepInfo.spec.exists /\ p \in sleepInfo.holders)

=============================================================================
