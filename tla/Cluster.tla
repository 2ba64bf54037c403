------------------------------ MODULE Cluster -------------------------------
(***************************************************************************)
(* The objects of one namespace in the API server, as the controllers of   *)
(* kube-green use them, and what users do to them.  The API server itself  *)
(* is external: an API call is one atomic step.                            *)
(*                                                                         *)
(* A workload (Deployment, StatefulSet, CronJob or any patched resource) is *)
(* reduced to the value of the fields that the patch of its target sets.   *)
(* SleepValue is the value at which that patch changes nothing, and a      *)
(* restore patch is the value to go back to.                               *)
(***************************************************************************)
EXTENDS Integers

CONSTANTS
    Targets,        \* the patch targets (group and kind)
    Workloads,      \* names of workloads; a name belongs to one target
    TargetOf,       \* the target of each workload
    Controlled,     \* workloads with a controller owner reference
    Unpatchable,    \* workloads on which the JSON patch does not apply
    Creatable,      \* workloads of which the patched fields alone are a valid
                    \* object
    Values,         \* values of the patched fields
    SleepValue,     \* their value when asleep
    None,           \* no value: no workload, no restore patch
    Executions,     \* names of SleepInfoExecutions
    OperationOf,    \* the operation each of them asks for
    UserEdits       \* which edits users make: a subset of EditKinds

EditKinds == {"workload", "wakeUpAt", "targets", "delete"}

ASSUME ClusterAssumption ==
    /\ TargetOf \in [Workloads -> Targets]
    /\ Controlled \subseteq Workloads /\ Unpatchable \subseteq Workloads
    /\ Creatable \subseteq Workloads
    /\ SleepValue \in Values /\ None \notin Values
    /\ OperationOf \in [Executions -> {"SLEEP", "WAKE_UP"}]
    /\ UserEdits \subseteq EditKinds

VARIABLES
    workload,    \* the value of each workload, None when it does not exist
    sleepInfo,   \* the SleepInfo; cached is the copy in the informer cache,
                 \* holders the copies with its current resourceVersion
    secret,      \* the Secret sleepinfo-<name>
    execution,   \* the SleepInfoExecutions, absent before they are created
    before       \* history: the value kube-green saw and replaced by
                 \* SleepValue; None for a workload that it woke up or that
                 \* a user changed since it was listed

clusterVars == <<workload, sleepInfo, secret, execution, before>>

ValueMap == [Workloads -> Values \cup {None}]
NoValues == [w \in Workloads |-> None]

NoSecret == [exists |-> FALSE, operationType |-> "", original |-> NoValues]

\* What the reconciles use of a SleepInfo.
SleepInfoSpecs == [exists : BOOLEAN, wakeUp : BOOLEAN, targets : SUBSET Targets]

InitialSpec == [exists |-> TRUE, wakeUp |-> TRUE, targets |-> Targets]

\* The informer cache and the reconciles in progress of the two controllers.
Holders == {"cache", "cron", "exec"}

Phases == {"", "Succeeded", "Failed", "Skipped"}

ExecutionObjects == [exists : BOOLEAN, owned : BOOLEAN, phase : Phases]

NoExecution == [exists |-> FALSE, owned |-> FALSE, phase |-> ""]

\* IsProcessed: the phase is terminal.
IsProcessed(e) == e.phase # ""

ClusterTypeOK ==
    /\ workload \in ValueMap
    /\ sleepInfo \in [spec : SleepInfoSpecs, cached : SleepInfoSpecs,
                      operation : {"SLEEP", "WAKE_UP", ""},
                      holders : SUBSET Holders]
    /\ secret \in [exists : BOOLEAN, operationType : {"SLEEP", "WAKE_UP", ""},
                   original : ValueMap]
    /\ execution \in [Executions -> ExecutionObjects]
    /\ before \in ValueMap

ClusterInit ==
    /\ workload \in ValueMap
    /\ sleepInfo = [spec |-> InitialSpec, cached |-> InitialSpec,
                    operation |-> "", holders |-> {"cache"}]
    /\ secret = NoSecret
    /\ execution = [e \in Executions |-> NoExecution]
    /\ before = NoValues

-----------------------------------------------------------------------------
(***************************************************************************)
(* Users.                                                                  *)
(***************************************************************************)

\* Creates, scales, edits or deletes a workload.
EditWorkload(w) ==
    /\ "workload" \in UserEdits
    /\ \E v \in (Values \cup {None}) \ {workload[w]} :
         workload' = [workload EXCEPT ![w] = v]
    /\ before' = [before EXCEPT ![w] = None]
    /\ UNCHANGED <<sleepInfo, secret, execution>>

\* Adds or removes wakeUpAt.
EditWakeUp ==
    /\ "wakeUpAt" \in UserEdits
    /\ sleepInfo.spec.exists
    /\ sleepInfo' = [sleepInfo EXCEPT !.spec.wakeUp = ~ @, !.holders = {}]
    /\ UNCHANGED <<workload, secret, execution, before>>

\* Changes suspendDeployments, suspendStatefulSets, suspendCronJobs or patches.
EditTargets ==
    /\ "targets" \in UserEdits
    /\ sleepInfo.spec.exists
    /\ \E targets \in (SUBSET Targets) \ {sleepInfo.spec.targets} :
         sleepInfo' = [sleepInfo EXCEPT !.spec.targets = targets, !.holders = {}]
    /\ UNCHANGED <<workload, secret, execution, before>>

DeleteSleepInfo ==
    /\ "delete" \in UserEdits
    /\ sleepInfo.spec.exists
    /\ sleepInfo' = [sleepInfo EXCEPT !.spec.exists = FALSE, !.holders = {}]
    /\ UNCHANGED <<workload, secret, execution, before>>

\* Variant: a Secret without owner references.
CollectSecretUnowned == FALSE

\* The garbage collector removes what an absent SleepInfo owned.
CollectSecret ==
    /\ ~ sleepInfo.spec.exists
    /\ secret.exists
    /\ secret' = NoSecret
    /\ UNCHANGED <<workload, sleepInfo, execution, before>>

CollectExecution(e) ==
    /\ ~ sleepInfo.spec.exists
    /\ execution[e].exists
    /\ execution[e].owned
    /\ execution' = [execution EXCEPT ![e].exists = FALSE]
    /\ UNCHANGED <<workload, sleepInfo, secret, before>>

\* The watch brings the current SleepInfo to the informer cache.
SyncSleepInfo ==
    /\ "cache" \notin sleepInfo.holders
    /\ sleepInfo' = [sleepInfo EXCEPT !.cached = sleepInfo.spec,
                                    !.holders = @ \cup {"cache"}]
    /\ UNCHANGED <<workload, secret, execution, before>>

UserStep ==
    \/ \E w \in Workloads : EditWorkload(w)
    \/ EditWakeUp
    \/ EditTargets
    \/ DeleteSleepInfo
    \/ CollectSecret
    \/ \E e \in Executions : CollectExecution(e)

=============================================================================
