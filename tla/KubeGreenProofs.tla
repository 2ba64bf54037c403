--------------------------- MODULE KubeGreenProofs --------------------------
(***************************************************************************)
(* What holds of the two controllers for all workloads, executions, edits  *)
(* and faults: the types, the stored originals and the terminal phases.    *)
(***************************************************************************)
EXTENDS KubeGreen, TLAPS

-----------------------------------------------------------------------------
(***************************************************************************)
(* Types of the steps that the actions are made of.                        *)
(***************************************************************************)

\* The state of a handler that returned is well formed.
LEMMA IdleType ==
    /\ NoValues \in ValueMap
    /\ NoExecution \in ExecutionObjects
    /\ Idle \in Jobs
    /\ Idle.step = "idle" /\ Idle.restorePatches = NoValues
<1>1. NoValues \in ValueMap
  BY DEF NoValues, ValueMap
<1>2. NoExecution \in ExecutionObjects
  BY DEF NoExecution, ExecutionObjects, Phases
<1>3. Idle \in Jobs
  BY <1>1, <1>2 DEF Idle, Jobs, Steps, Phases
<1>4. Idle.step = "idle" /\ Idle.restorePatches = NoValues
  BY DEF Idle
<1>5. QED
  BY <1>1, <1>2, <1>3, <1>4

\* Replacing the state of one reconcile leaves the other alone.
LEMMA JobReplaced ==
    ASSUME job \in [Workers -> Jobs], NEW p \in Workers, NEW j \in Jobs,
           job' = [job EXCEPT ![p] = j]
    PROVE  /\ job' \in [Workers -> Jobs]
           /\ job'[p] = j
           /\ \A q \in Workers \ {p} : job'[q] = job[q]
OBVIOUS

\* A handler returns.
LEMMA ReturnType ==
    ASSUME job \in [Workers -> Jobs], NEW p \in Workers, Return(p)
    PROVE  /\ job' \in [Workers -> Jobs]
           /\ job'[p] = Idle
           /\ \A q \in Workers \ {p} : job'[q] = job[q]
BY IdleType, JobReplaced DEF Return

\* The job that enters Sleep or WakeUp.
LEMMA ApplyingType ==
    ASSUME job \in [Workers -> Jobs], NEW p \in Workers
    PROVE  Applying(p) \in Jobs
<1>1. job[p] \in Jobs
  OBVIOUS
<1>2. ToSleep(p) \in SUBSET Workloads /\ ToWakeUp(p) \in SUBSET Workloads
  BY DEF ToSleep, ToWakeUp
<1> DEFINE kept == [w \in Workloads |-> IF Mapped(p, TargetOf[w])
                                        THEN job[p].restorePatches[w] ELSE None]
<1>3. kept \in ValueMap
  BY <1>1 DEF Jobs, ValueMap
<1>4. QED
  BY <1>1, <1>2, <1>3 DEF Applying, Jobs, Steps

\* A patch of a workload keeps the types of the cluster.
LEMMA PatchWriteType ==
    ASSUME TypeOK, NEW p \in Workers, NEW w \in Workloads, PatchWrite(p, w)
    PROVE  ClusterTypeOK'
<1>1. /\ job[p].restorePatches[w] \in Values \cup {None}
      /\ SleepValue \in Values /\ workload \in ValueMap /\ before \in ValueMap
  <2>1. job[p] \in Jobs /\ workload \in ValueMap /\ before \in ValueMap
    BY DEF TypeOK, ClusterTypeOK
  <2>2. job[p].restorePatches \in ValueMap
    BY <2>1 DEF Jobs
  <2>3. QED
    BY <2>1, <2>2, ClusterAssumption DEF ValueMap
<1>2. workload' \in ValueMap
  BY <1>1 DEF PatchWrite, ValueMap
<1>3. before' \in ValueMap
  BY <1>1 DEF PatchWrite, ValueMap
<1>4. QED
  BY <1>2, <1>3 DEF PatchWrite, TypeOK, ClusterTypeOK

\* upsertSecret keeps the types of the cluster.
LEMMA SecretWriteType ==
    ASSUME TypeOK, NEW p \in Workers, SecretWrite(p)
    PROVE  ClusterTypeOK'
<1>1. job[p] \in Jobs
  BY DEF TypeOK
<1>2. NewSecret(p) \in [exists : BOOLEAN,
                        operationType : {"SLEEP", "WAKE_UP", ""},
                        original : ValueMap]
  BY <1>1, IdleType DEF NewSecret, Jobs
<1>3. QED
  BY <1>2 DEF SecretWrite, TypeOK, ClusterTypeOK

\* handleSleepInfoStatus keeps the types of the cluster.
LEMMA StatusWriteType ==
    ASSUME TypeOK, NEW p \in Workers, StatusWrite(p)
    PROVE  ClusterTypeOK'
<1>1. job[p].operation \in {"SLEEP", "WAKE_UP", ""}
  BY DEF TypeOK, Jobs
<1>2. QED
  BY <1>1 DEF StatusWrite, TypeOK, ClusterTypeOK

\* setOwnerReference and updateExecutionStatus keep the types of the cluster.
LEMMA ExecutionWriteType ==
    ASSUME TypeOK, OwnerWrite \/ PhaseWrite
    PROVE  ClusterTypeOK'
<1>1. "exec" \in Workers
  BY DEF OwnerWrite, PhaseWrite, At
<1>2. job["exec"].phase \in Phases
  BY <1>1 DEF TypeOK, Jobs
<1>3. execution \in [Executions -> ExecutionObjects]
  BY DEF TypeOK, ClusterTypeOK
<1>4. CASE OwnerWrite
  BY <1>3, <1>4 DEF OwnerWrite, TypeOK, ClusterTypeOK, ExecutionObjects
<1>5. CASE PhaseWrite
  BY <1>2, <1>3, <1>5 DEF PhaseWrite, TypeOK, ClusterTypeOK, ExecutionObjects
<1>6. QED
  BY <1>4, <1>5

\* What a Sleep has patched are workloads.
LEMMA UnsavedType ==
    ASSUME NEW p, NEW toPatch
    PROVE  Unsaved(p, toPatch) \subseteq Workloads
BY DEF Unsaved, ToSleep

\* An error adds to lost what Sleep has patched.
LEMMA ReturnErrorType ==
    ASSUME lost \subseteq Workloads, NEW p, NEW toPatch, ReturnError(p, toPatch)
    PROVE  Return(p) /\ lost' \subseteq Workloads
BY UnsavedType DEF ReturnError

\* A patch takes a workload out of lost, an error adds some.
LEMMA LostType ==
    ASSUME lost \subseteq Workloads, [Next]_vars
    PROVE  lost' \subseteq Workloads
<1>1. CASE CronStep
  BY <1>1, ReturnErrorType
  DEF CronStep, CronProgress, GetSleepInfo, GetSecret, GetSecretNotDue,
    ListTarget, ListFails, UpdateStatus, UpdateStatusRefused, Patch,
    UpsertSecret, UpsertSecretRefused, SleepRefused, CronCallFails,
    CronAnswerLost, Fail
<1>2. CASE ExecStep
  BY <1>2, ReturnErrorType
  DEF ExecStep, ExecProgress, GetExecution, SetOwnerReference,
    GetSecretForExecution, ListTarget, ListFails, StartOperation, Patch,
    SaveSecret, SaveStatus, UpdateExecutionStatus, ExecCallRefused,
    ExecCallFails, ExecAnswerLost, Retry, Fail
<1>3. CASE Environment \/ UNCHANGED vars
  BY <1>3 DEF Environment, CreateExecution, SyncExecution, vars
<1>4. CASE ManagerRestarts
  BY <1>4, UnsavedType DEF ManagerRestarts
<1>5. QED
  BY <1>1, <1>2, <1>3, <1>4 DEF Next

-----------------------------------------------------------------------------
(***************************************************************************)
(* While the execution controller is in a reconcile, it has read an        *)
(* execution, and one that had no phase yet.                               *)
(***************************************************************************)
ExecutionHeld ==
    "exec" \in Workers /\ job["exec"].step # "idle"
    => Current \in Executions /\ job["exec"].seen.phase = ""

TypeInv == TypeOK /\ ExecutionHeld

\* What a step of worker p that stays in its reconcile keeps.
SameExecution(p) ==
    /\ job[p].step # "idle"
    /\ job'[p].execution = job[p].execution
    /\ job'[p].seen = job[p].seen

\* A list, failed or not, keeps the types.
LEMMA ListType ==
    ASSUME TypeOK, NEW p \in Workers, NEW t \in Targets,
           ListTarget(p, t) \/ ListFails(p, t)
    PROVE  /\ job' \in [Workers -> Jobs]
           /\ SameExecution(p)
           /\ \A q \in Workers \ {p} : job'[q] = job[q]
           /\ ClusterTypeOK'
           /\ faults' \in 0 .. MaxFaults
<1>1. job \in [Workers -> Jobs] /\ job[p] \in Jobs /\ workload \in ValueMap
  BY DEF TypeOK, ClusterTypeOK
<1>2. job[p].step = "list" /\ UNCHANGED clusterVars
  BY DEF ListTarget, ListFails, At
<1>3. ClusterTypeOK'
  BY <1>2 DEF TypeOK, ClusterTypeOK, clusterVars
<1>4. faults' \in 0 .. MaxFaults
  BY WorkersAssumption DEF ListTarget, ListFails, Fault, TypeOK
<1>5. CASE ListTarget(p, t)
  <2> DEFINE data == [w \in Workloads |-> IF TargetOf[w] = t THEN workload[w]
                                         ELSE job[p].data[w]]
             j == [job[p] EXCEPT !.toList = @ \ {t}, !.data = data]
  <2>1. data \in ValueMap
    BY <1>1 DEF Jobs, ValueMap
  <2> HIDE DEF data
  <2>2. j \in Jobs /\ j.execution = job[p].execution /\ j.seen = job[p].seen
    BY <1>1, <2>1 DEF Jobs
  <2>3. job' = [job EXCEPT ![p] = j]
    BY <1>1, <1>5 DEF ListTarget, data
  <2> HIDE DEF j
  <2>4. QED
    BY <1>1, <1>2, <1>3, <1>4, <2>2, <2>3 DEF SameExecution
<1>6. CASE ListFails(p, t)
  <2> DEFINE j == [job[p] EXCEPT !.toList = @ \ {t}]
  <2>1. j \in Jobs /\ j.execution = job[p].execution /\ j.seen = job[p].seen
    BY <1>1 DEF Jobs
  <2>2. job' = [job EXCEPT ![p] = j]
    BY <1>1, <1>6 DEF ListFails
  <2> HIDE DEF j
  <2>3. QED
    BY <1>1, <1>2, <1>3, <1>4, <2>1, <2>2 DEF SameExecution
<1>7. QED
  BY <1>5, <1>6

\* A patch that succeeds keeps the types.
LEMMA PatchType ==
    ASSUME TypeOK, NEW p \in Workers, NEW w \in Workloads, Patch(p, w)
    PROVE  /\ job' \in [Workers -> Jobs]
           /\ SameExecution(p)
           /\ \A q \in Workers \ {p} : job'[q] = job[q]
           /\ ClusterTypeOK'
           /\ faults' \in 0 .. MaxFaults
<1>1. job \in [Workers -> Jobs] /\ job[p] \in Jobs
  BY DEF TypeOK
<1>2. ClusterTypeOK' /\ job[p].step = "apply" /\ faults' = faults
  BY PatchWriteType DEF Patch, PatchWrite, At
<1> DEFINE patches == [job[p].restorePatches EXCEPT ![w] =
                         IF job[p].operation = "SLEEP" THEN job[p].data[w] ELSE @]
           j == [job[p] EXCEPT !.toPatch = @ \ {w}, !.restorePatches = patches]
<1>3. patches \in ValueMap
  BY <1>1 DEF Jobs, ValueMap
<1>4. job' = [job EXCEPT ![p] = j]
  BY <1>1 DEF Patch, Jobs
<1> HIDE DEF patches
<1>5. j \in Jobs /\ j.execution = job[p].execution /\ j.seen = job[p].seen
  BY <1>1, <1>3 DEF Jobs
<1> HIDE DEF j
<1>6. QED
  BY <1>1, <1>2, <1>4, <1>5 DEF SameExecution, TypeOK

\* A step of the SleepInfo controller keeps the types.
LEMMA CronStepType ==
    ASSUME TypeInv, CronStep, UNCHANGED execVars
    PROVE  TypeInv'
<1> USE DEF TypeInv
<1>1. /\ job \in [Workers -> Jobs]
      /\ ClusterTypeOK /\ faults \in 0 .. MaxFaults /\ ExecTypeOK
  BY DEF TypeOK
<1>0. lost \subseteq Workloads /\ lost' \subseteq Workloads
  BY LostType DEF Next, TypeOK
<1>2. SUFFICES /\ "cron" \in Workers
               /\ job' \in [Workers -> Jobs]
               /\ \A q \in Workers \ {"cron"} : job'[q] = job[q]
               /\ ClusterTypeOK'
               /\ faults' \in 0 .. MaxFaults
  <2>1. ExecTypeOK'
    BY <1>1 DEF ExecTypeOK, execVars
  <2>2. ExecutionHeld'
    BY <1>2 DEF ExecutionHeld, Current
  <2>3. QED
    BY <1>0, <1>2, <2>1, <2>2 DEF TypeOK
<1>3. UNCHANGED clusterVars => ClusterTypeOK'
  BY <1>1 DEF ClusterTypeOK, clusterVars
<1>4. \A kind \in AllFaults : Fault(kind) => faults' \in 0 .. MaxFaults
  BY <1>1, WorkersAssumption DEF Fault
<1>5. CASE GetSleepInfo
  <2>1. "cron" \in Workers
    BY <1>5 DEF GetSleepInfo, At
  <2> DEFINE j == [Idle EXCEPT !.step = "secret",
                               !.wakeUp = sleepInfo.cached.wakeUp,
                               !.toList = sleepInfo.cached.targets]
  <2>2. sleepInfo.cached.wakeUp \in BOOLEAN
        /\ sleepInfo.cached.targets \in SUBSET Targets
    BY <1>1 DEF ClusterTypeOK, SleepInfoSpecs
  <2>3. j \in Jobs
    BY <2>2, IdleType DEF Jobs, Steps
  <2>4. job' = [job EXCEPT !["cron"] = j]
    BY <1>5 DEF GetSleepInfo
  <2> HIDE DEF j
  <2>5. HoldersAfterGet("cron") \in SUBSET Holders
    BY <1>1 DEF HoldersAfterGet, Holders, ClusterTypeOK
  <2>6. ClusterTypeOK'
    BY <1>1, <1>5, <2>5 DEF GetSleepInfo, ClusterTypeOK
  <2>7. QED
    BY <1>1, <1>5, <2>1, <2>3, <2>4, <2>6, JobReplaced DEF GetSleepInfo
<1>6. CASE GetSecret
  <2>1. "cron" \in Workers
    BY <1>6 DEF GetSecret, At
  <2> DEFINE j == [job["cron"] EXCEPT
                     !.step = "list",
                     !.operation = CurrentOperation(secret.operationType,
                                                    job["cron"].wakeUp),
                     !.hadSecret = secret.exists,
                     !.restorePatches = secret.original]
  <2>2. /\ secret.exists \in BOOLEAN /\ secret.original \in ValueMap
        /\ job["cron"] \in Jobs
    BY <1>1, <2>1 DEF ClusterTypeOK
  <2> DEFINE operation == CurrentOperation(secret.operationType,
                                           job["cron"].wakeUp)
  <2> HIDE DEF operation
  <2>3. operation \in {"SLEEP", "WAKE_UP", ""}
    BY DEF operation, CurrentOperation
  <2>4. j \in Jobs
    <3> DEFINE k == [job["cron"] EXCEPT !.step = "list", !.operation = operation,
                                        !.hadSecret = secret.exists,
                                        !.restorePatches = secret.original]
    <3>1. k \in Jobs
      BY <2>2, <2>3 DEF Jobs, Steps
    <3>2. QED
      BY <3>1 DEF operation
  <2>5. job' = [job EXCEPT !["cron"] = j]
    BY <1>6 DEF GetSecret
  <2> HIDE DEF j
  <2>6. QED
    BY <1>1, <1>3, <1>6, <2>1, <2>4, <2>5, JobReplaced DEF GetSecret
<1>7. CASE GetSecretNotDue
  BY <1>1, <1>3, <1>7, ReturnType DEF GetSecretNotDue, At
<1>8. CASE \E t \in Targets : ListTarget("cron", t) \/ ListFails("cron", t)
  <2>1. "cron" \in Workers
    BY <1>8 DEF ListTarget, ListFails, At
  <2>2. QED
    BY <1>8, <2>1, ListType
<1>9. CASE UpdateStatus
  <2>1. "cron" \in Workers /\ StatusWrite("cron")
    BY <1>9 DEF UpdateStatus, Listed, At
  <2>2. Applying("cron") \in Jobs
    BY <1>1, <2>1, ApplyingType
  <2>3. QED
    BY <1>1, <1>9, <2>1, <2>2, StatusWriteType, JobReplaced DEF UpdateStatus
<1>10. CASE UpdateStatusRefused
  BY <1>1, <1>3, <1>10, ReturnType
  DEF UpdateStatusRefused, Fail, ReturnError, Listed, At
<1>11. CASE \E w \in Workloads : Patch("cron", w)
  <2>1. "cron" \in Workers
    BY <1>11 DEF Patch, PatchWrite, At
  <2>2. QED
    BY <1>11, <2>1, PatchType
<1>12. CASE UpsertSecret
  <2>1. "cron" \in Workers
    BY <1>12 DEF UpsertSecret, SecretWrite, ReadyToSave, At
  <2>2. QED
    BY <1>1, <1>12, <2>1, SecretWriteType, ReturnType DEF UpsertSecret
<1>13. CASE UpsertSecretRefused
  BY <1>1, <1>3, <1>13, ReturnType
  DEF UpsertSecretRefused, Fail, ReturnError, SecretRefused, ReadyToSave, At
<1>14. CASE CronCallFails
  BY <1>1, <1>3, <1>4, <1>14, ReturnType
  DEF CronCallFails, Fail, ReturnError, AllFaults
<1>15. CASE CronAnswerLost
  <2>1. "cron" \in Workers /\ faults' \in 0 .. MaxFaults
    BY <1>4, <1>15
    DEF CronAnswerLost, Listed, PatchWrite, SecretWrite, ReadyToSave, At, AllFaults
  <2>2. ClusterTypeOK'
    BY <1>15, <2>1, StatusWriteType, PatchWriteType, SecretWriteType
    DEF CronAnswerLost
  <2>3. Return("cron")
    BY <1>15 DEF CronAnswerLost, Fail, ReturnError
  <2>4. QED
    BY <1>1, <2>1, <2>2, <2>3, ReturnType
<1>16. CASE SleepRefused
  BY <1>1, <1>3, <1>16, ReturnType
  DEF SleepRefused, PatchRefused, Fail, ReturnError, At
<1>17. QED
  BY <1>5, <1>6, <1>7, <1>8, <1>9, <1>10, <1>11, <1>12, <1>13, <1>14, <1>15,
     <1>16
  DEF CronStep, CronProgress

\* A step of the execution controller keeps the types.
LEMMA ExecStepType ==
    ASSUME TypeInv, ExecStep
    PROVE  TypeInv'
<1> USE DEF TypeInv
<1>1. /\ job \in [Workers -> Jobs]
      /\ ClusterTypeOK /\ faults \in 0 .. MaxFaults /\ ExecTypeOK
  BY DEF TypeOK
<1>0. lost \subseteq Workloads /\ lost' \subseteq Workloads
  BY LostType DEF Next, TypeOK
<1>2. UNCHANGED clusterVars => ClusterTypeOK'
  BY <1>1 DEF ClusterTypeOK, clusterVars
<1>3. UNCHANGED execVars => ExecTypeOK'
  BY <1>1 DEF ExecTypeOK, execVars
<1>4. \A kind \in AllFaults : Fault(kind) => faults' \in 0 .. MaxFaults
  BY <1>1, WorkersAssumption DEF Fault
<1>5. ASSUME "exec" \in Workers, Return("exec"), ClusterTypeOK', ExecTypeOK',
             faults' \in 0 .. MaxFaults
      PROVE  TypeInv'
  <2>1. job' \in [Workers -> Jobs] /\ job'["exec"] = Idle
    BY <1>1, <1>5, ReturnType
  <2>2. ExecutionHeld'
    BY <2>1, IdleType DEF ExecutionHeld
  <2>3. QED
    BY <1>0, <1>5, <2>1, <2>2 DEF TypeOK
<1>6. ASSUME "exec" \in Workers, job' \in [Workers -> Jobs],
             SameExecution("exec"), ClusterTypeOK', ExecTypeOK',
             faults' \in 0 .. MaxFaults
      PROVE  TypeInv'
  BY <1>0, <1>6 DEF TypeOK, ExecutionHeld, SameExecution, Current
<1>7. CASE \E e \in Executions : GetExecution(e)
  <2>1. PICK e \in Executions : GetExecution(e)
    BY <1>7
  <2>2. "exec" \in Workers
    BY <2>1 DEF GetExecution, At
  <2>3. ExecTypeOK' /\ faults' \in 0 .. MaxFaults
    BY <1>1, <2>1 DEF GetExecution, ExecTypeOK
  <2>4. CASE cache[e].exists /\ ~ IsProcessed(cache[e])
    <3> DEFINE step == IF ~ sleepInfo.cached.exists THEN "phase"
                       ELSE IF cache[e].owned THEN "secret" ELSE "owner"
               j == [Idle EXCEPT
                       !.step = step, !.execution = e, !.seen = cache[e],
                       !.operation = OperationOf[e],
                       !.wakeUp = sleepInfo.cached.wakeUp,
                       !.toList = sleepInfo.cached.targets,
                       !.phase = IF sleepInfo.cached.exists THEN ""
                                                            ELSE "Failed"]
    <3>1. job' = [job EXCEPT !["exec"] = j]
      BY <2>1, <2>4 DEF GetExecution
    <3>2. step \in Steps
      BY DEF Steps
    <3>3. /\ sleepInfo.cached.wakeUp \in BOOLEAN
          /\ sleepInfo.cached.targets \in SUBSET Targets
      BY <1>1 DEF ClusterTypeOK, SleepInfoSpecs
    <3>4. cache[e] \in ExecutionObjects /\ OperationOf[e] \in {"SLEEP", "WAKE_UP"}
      BY <1>1, ClusterAssumption DEF ExecTypeOK
    <3> HIDE DEF step
    <3>5. j \in Jobs
      BY <3>2, <3>3, <3>4, IdleType DEF Jobs, Phases
    <3>6. j.execution = e /\ j.seen = cache[e]
      BY IdleType DEF Jobs
    <3> HIDE DEF j
    <3>7. job' \in [Workers -> Jobs] /\ job'["exec"] = j
      BY <1>1, <2>2, <3>1, <3>5, JobReplaced
    <3>8. HoldersAfterGet("exec") \in SUBSET Holders
      BY <1>1 DEF HoldersAfterGet, Holders, ClusterTypeOK
    <3>9. ClusterTypeOK'
      BY <1>1, <2>1, <2>4, <3>8 DEF GetExecution, ClusterTypeOK
    <3>10. ExecutionHeld'
      BY <2>4, <3>6, <3>7 DEF ExecutionHeld, Current, IsProcessed
    <3>11. QED
      BY <1>0, <2>3, <3>7, <3>9, <3>10 DEF TypeOK
  <2>5. CASE ~ (cache[e].exists /\ ~ IsProcessed(cache[e]))
    <3>1. UNCHANGED <<job, clusterVars>>
      BY <2>1, <2>5 DEF GetExecution, clusterVars
    <3>2. QED
      BY <1>0, <1>1, <1>2, <2>3, <3>1 DEF TypeOK, ExecutionHeld, Current
  <2>6. QED
    BY <2>4, <2>5
<1>8. CASE SetOwnerReference
  <2>1. /\ "exec" \in Workers /\ job["exec"].step = "owner"
        /\ job["exec"].seen = execution[Current] /\ OwnerWrite
        /\ job["exec"] \in Jobs
    BY <1>1, <1>8 DEF SetOwnerReference, OwnerWrite, At, Holds
  <2>2. Current \in Executions /\ job["exec"].seen.phase = ""
    BY <2>1 DEF ExecutionHeld
  <2>3. ClusterTypeOK' /\ ExecTypeOK' /\ faults' = faults
    BY <1>3, <1>8, <2>1, ExecutionWriteType DEF SetOwnerReference
  <2>4. execution'[Current] \in ExecutionObjects
    BY <2>2, <2>3 DEF ClusterTypeOK, Current
  <2>5. execution'[Current].phase = ""
    BY <1>1, <2>1, <2>2 DEF OwnerWrite, ClusterTypeOK, ExecutionObjects
  <2> DEFINE j == [job["exec"] EXCEPT !.step = "secret",
                                      !.seen = execution'[Current]]
  <2>6. job' = [job EXCEPT !["exec"] = j]
    BY <1>1, <1>8, <2>1 DEF SetOwnerReference
  <2>7. j \in Jobs /\ j.execution = Current /\ j.seen = execution'[Current]
    BY <2>1, <2>4 DEF Jobs, Steps, Current
  <2> HIDE DEF j
  <2>8. job' \in [Workers -> Jobs] /\ job'["exec"] = j
    BY <1>1, <2>1, <2>6, <2>7
  <2>9. ExecutionHeld'
    BY <2>2, <2>5, <2>7, <2>8 DEF ExecutionHeld, Current
  <2>10. QED
    BY <1>0, <1>1, <2>3, <2>8, <2>9 DEF TypeOK
<1>9. CASE GetSecretForExecution
  <2>1. /\ "exec" \in Workers /\ job["exec"].step = "secret"
        /\ job["exec"] \in Jobs
    BY <1>1, <1>9 DEF GetSecretForExecution, At
  <2> DEFINE isAsleep == secret.exists /\ secret.operationType = "SLEEP"
             phase == IF (job["exec"].operation = "SLEEP") = isAsleep
                      THEN "Skipped"
                      ELSE IF OverrideFails(job["exec"].operation,
                                            job["exec"].wakeUp)
                           THEN "Failed" ELSE ""
             step == IF phase = "" THEN "list" ELSE "phase"
  <2>2. phase \in Phases /\ step \in Steps
    BY DEF Phases, Steps
  <2>3. secret.exists \in BOOLEAN /\ secret.original \in ValueMap
    BY <1>1 DEF ClusterTypeOK
  <2> DEFINE j == [job["exec"] EXCEPT !.step = step, !.phase = phase,
                                      !.hadSecret = secret.exists,
                                      !.restorePatches = secret.original]
  <2>4. job' = [job EXCEPT !["exec"] = j]
    BY <1>9 DEF GetSecretForExecution
  <2> HIDE DEF phase, step
  <2>5. /\ j \in Jobs /\ j.execution = job["exec"].execution
        /\ j.seen = job["exec"].seen
    BY <2>1, <2>2, <2>3 DEF Jobs
  <2> HIDE DEF j
  <2>6. job' \in [Workers -> Jobs] /\ SameExecution("exec")
    BY <1>1, <2>1, <2>4, <2>5 DEF SameExecution
  <2>7. QED
    BY <1>1, <1>2, <1>3, <1>6, <1>9, <2>1, <2>6 DEF GetSecretForExecution
<1>10. CASE \E t \in Targets : /\ ListTarget("exec", t) \/ ListFails("exec", t)
                               /\ UNCHANGED execVars
  <2>1. "exec" \in Workers
    BY <1>10 DEF ListTarget, ListFails, At
  <2>2. QED
    BY <1>3, <1>6, <1>10, <2>1, ListType
<1>11. CASE StartOperation
  <2>1. /\ "exec" \in Workers /\ job["exec"].step = "list"
        /\ job["exec"] \in Jobs
    BY <1>1, <1>11 DEF StartOperation, Listed, At
  <2>2. PICK j : /\ job' = [job EXCEPT !["exec"] = j]
                 /\ \/ j = Applying("exec")
                    \/ j = [job["exec"] EXCEPT !.step = "phase",
                                               !.phase = "Skipped"]
    BY <1>11 DEF StartOperation
  <2>3. j \in Jobs
    <3>1. Applying("exec") \in Jobs
      BY <1>1, <2>1, ApplyingType
    <3>2. [job["exec"] EXCEPT !.step = "phase", !.phase = "Skipped"] \in Jobs
      BY <2>1 DEF Jobs, Steps, Phases
    <3>3. QED
      BY <2>2, <3>1, <3>2
  <2>4. j.execution = job["exec"].execution /\ j.seen = job["exec"].seen
    BY <1>1, <2>1, <2>2 DEF Applying, Jobs
  <2>5. job' \in [Workers -> Jobs] /\ SameExecution("exec")
    BY <1>1, <2>1, <2>2, <2>3, <2>4 DEF SameExecution
  <2>6. QED
    BY <1>1, <1>2, <1>3, <1>6, <1>11, <2>1, <2>5 DEF StartOperation
<1>12. CASE (\E w \in Workloads : Patch("exec", w)) /\ UNCHANGED execVars
  <2>1. "exec" \in Workers
    BY <1>12 DEF Patch, PatchWrite, At
  <2>2. QED
    BY <1>3, <1>6, <1>12, <2>1, PatchType
<1>13. CASE SaveSecret
  <2>1. /\ "exec" \in Workers /\ job["exec"].step = "apply"
        /\ job["exec"] \in Jobs
    BY <1>1, <1>13 DEF SaveSecret, SecretWrite, ReadyToSave, At
  <2>2. ClusterTypeOK'
    BY <1>13, <2>1, SecretWriteType DEF SaveSecret
  <2>3. Current \in Executions
    BY <2>1 DEF ExecutionHeld
  <2>4. ExecTypeOK'
    BY <1>1, <1>13, <2>3 DEF SaveSecret, ExecTypeOK
  <2> DEFINE j == [job["exec"] EXCEPT !.step = "status"]
  <2>5. /\ j \in Jobs /\ j.execution = job["exec"].execution
        /\ j.seen = job["exec"].seen
    BY <2>1 DEF Jobs, Steps
  <2>6. job' = [job EXCEPT !["exec"] = j]
    BY <1>13 DEF SaveSecret
  <2> HIDE DEF j
  <2>7. job' \in [Workers -> Jobs] /\ SameExecution("exec")
    BY <1>1, <2>1, <2>5, <2>6 DEF SameExecution
  <2>8. QED
    BY <1>1, <1>6, <1>13, <2>1, <2>2, <2>4, <2>7 DEF SaveSecret
<1>14. CASE SaveStatus
  <2>1. /\ "exec" \in Workers /\ job["exec"].step = "status"
        /\ job["exec"] \in Jobs
    BY <1>1, <1>14 DEF SaveStatus, At
  <2>2. ClusterTypeOK'
    BY <1>14, <2>1, StatusWriteType DEF SaveStatus
  <2> DEFINE j == [job["exec"] EXCEPT !.step = "phase", !.phase = "Succeeded"]
  <2>3. /\ j \in Jobs /\ j.execution = job["exec"].execution
        /\ j.seen = job["exec"].seen
    BY <2>1 DEF Jobs, Steps, Phases
  <2>4. job' = [job EXCEPT !["exec"] = j]
    BY <1>1, <1>14, <2>1 DEF SaveStatus
  <2> HIDE DEF j
  <2>5. job' \in [Workers -> Jobs] /\ SameExecution("exec")
    BY <1>1, <2>1, <2>3, <2>4 DEF SameExecution
  <2>6. QED
    BY <1>1, <1>3, <1>6, <1>14, <2>1, <2>2, <2>5 DEF SaveStatus
<1>15. CASE UpdateExecutionStatus
  <2>1. "exec" \in Workers /\ ClusterTypeOK'
    BY <1>15, ExecutionWriteType DEF UpdateExecutionStatus, PhaseWrite, At
  <2>2. QED
    BY <1>1, <1>3, <1>5, <1>15, <2>1 DEF UpdateExecutionStatus
<1>16. ASSUME "exec" \in Workers, job["exec"].step # "idle"
       PROVE  queue \cup {Current} \subseteq Executions
              /\ performed \cup {Current} \subseteq Executions
  BY <1>1, <1>16 DEF ExecTypeOK, ExecutionHeld
<1>17. CASE ExecCallRefused
  <2>1. "exec" \in Workers /\ job["exec"].step # "idle"
    BY <1>17 DEF ExecCallRefused, PatchRefused, SecretRefused, ReadyToSave, At
  <2>2. ExecTypeOK'
    BY <1>1, <1>16, <1>17, <2>1 DEF ExecCallRefused, Retry, ExecTypeOK
  <2>3. QED
    BY <1>1, <1>2, <1>5, <1>17, <2>1, <2>2
    DEF ExecCallRefused, Retry, Fail, ReturnError
<1>18. CASE ExecCallFails
  <2>1. "exec" \in Workers /\ job["exec"].step # "idle"
    BY <1>18 DEF ExecCallFails
  <2>2. ExecTypeOK'
    BY <1>1, <1>16, <1>18, <2>1 DEF ExecCallFails, Retry, ExecTypeOK
  <2>3. QED
    BY <1>2, <1>4, <1>5, <1>18, <2>1, <2>2
    DEF ExecCallFails, Retry, Fail, ReturnError, AllFaults
<1>19. CASE ExecAnswerLost
  <2>1. "exec" \in Workers /\ job["exec"].step # "idle"
    BY <1>19 DEF ExecAnswerLost, OwnerWrite, PhaseWrite, PatchWrite,
                 SecretWrite, ReadyToSave, At
  <2>2. ClusterTypeOK'
    BY <1>19, <2>1, ExecutionWriteType, PatchWriteType, SecretWriteType,
       StatusWriteType DEF ExecAnswerLost
  <2>3. ExecTypeOK'
    BY <1>1, <1>16, <1>19, <2>1 DEF ExecAnswerLost, ExecTypeOK
  <2>4. Return("exec") /\ faults' \in 0 .. MaxFaults
    BY <1>4, <1>19 DEF ExecAnswerLost, Fail, ReturnError, AllFaults
  <2>5. QED
    BY <1>5, <2>1, <2>2, <2>3, <2>4
<1>20. QED
  BY <1>7, <1>8, <1>9, <1>10, <1>11, <1>12, <1>13, <1>14, <1>15, <1>17, <1>18,
     <1>19
  DEF ExecStep, ExecProgress

\* Users, the garbage collector and the watches keep the types.
LEMMA EnvironmentType ==
    ASSUME TypeInv, Environment
    PROVE  TypeInv'
<1> USE DEF TypeInv
<1>1. ClusterTypeOK /\ ExecTypeOK
  BY DEF TypeOK
<1>0. lost' \subseteq Workloads
  BY LostType DEF Next, TypeOK
<1>2. CASE (UserStep \/ SyncSleepInfo) /\ UNCHANGED <<job, faults, lost, execVars>>
  <2>1. ClusterTypeOK'
    <3>1. CASE \E w \in Workloads : EditWorkload(w)
      <4>1. PICK w \in Workloads : EditWorkload(w)
        BY <3>1
      <4>2. PICK v \in Values \cup {None} : workload' = [workload EXCEPT ![w] = v]
        BY <4>1 DEF EditWorkload
      <4>3. workload' \in ValueMap
        BY <1>1, <4>2 DEF ClusterTypeOK, ValueMap
      <4>4. before' \in ValueMap
        BY <1>1, <4>1 DEF EditWorkload, ClusterTypeOK, ValueMap
      <4>5. QED
        BY <1>1, <4>1, <4>3, <4>4 DEF EditWorkload, ClusterTypeOK
    <3>2. CASE EditWakeUp
      BY <1>1, <3>2 DEF EditWakeUp, ClusterTypeOK, SleepInfoSpecs
    <3>3. CASE EditTargets
      <4>1. PICK targets \in SUBSET Targets :
              sleepInfo' = [sleepInfo EXCEPT !.spec.targets = targets,
                                             !.holders = {}]
        BY <3>3 DEF EditTargets
      <4>2. sleepInfo' \in [spec : SleepInfoSpecs, cached : SleepInfoSpecs,
                            operation : {"SLEEP", "WAKE_UP", ""},
                            holders : SUBSET Holders]
        BY <1>1, <4>1 DEF ClusterTypeOK, SleepInfoSpecs
      <4>3. QED
        BY <1>1, <3>3, <4>2 DEF EditTargets, ClusterTypeOK
    <3>4. CASE DeleteSleepInfo
      BY <1>1, <3>4 DEF DeleteSleepInfo, ClusterTypeOK, SleepInfoSpecs
    <3>5. CASE CollectSecret
      BY <1>1, <3>5, IdleType DEF CollectSecret, ClusterTypeOK, NoSecret
    <3>6. CASE \E e \in Executions : CollectExecution(e)
      <4>1. PICK e \in Executions : CollectExecution(e)
        BY <3>6
      <4>2. execution' \in [Executions -> ExecutionObjects]
        BY <1>1, <4>1 DEF CollectExecution, ClusterTypeOK, ExecutionObjects
      <4>3. QED
        BY <1>1, <4>1, <4>2 DEF CollectExecution, ClusterTypeOK
    <3>7. CASE SyncSleepInfo
      BY <1>1, <3>7 DEF SyncSleepInfo, ClusterTypeOK, Holders
    <3>8. QED
      BY <1>2, <3>1, <3>2, <3>3, <3>4, <3>5, <3>6, <3>7 DEF UserStep
  <2>2. QED
    BY <1>0, <1>2, <2>1
    DEF TypeOK, ExecTypeOK, execVars, ExecutionHeld, Current
<1>3. CASE \E e \in Executions : CreateExecution(e)
  <2>1. PICK e \in Executions : CreateExecution(e)
    BY <1>3
  <2>2. execution' \in [Executions -> ExecutionObjects]
    BY <1>1, <2>1 DEF CreateExecution, ClusterTypeOK, ExecutionObjects
  <2>3. ClusterTypeOK' /\ ExecTypeOK'
    BY <1>1, <2>1, <2>2 DEF CreateExecution, ClusterTypeOK, ExecTypeOK
  <2>4. QED
    BY <1>0, <2>1, <2>3 DEF CreateExecution, TypeOK, ExecutionHeld, Current
<1>4. CASE \E e \in Executions : SyncExecution(e)
  <2>1. ClusterTypeOK' /\ ExecTypeOK'
    BY <1>1, <1>4 DEF SyncExecution, ClusterTypeOK, ExecTypeOK, clusterVars
  <2>2. QED
    BY <1>0, <1>4, <2>1 DEF SyncExecution, TypeOK, ExecutionHeld, Current
<1>5. QED
  BY <1>2, <1>3, <1>4 DEF Environment

\* A restart keeps the types.
LEMMA RestartType ==
    ASSUME TypeInv, ManagerRestarts
    PROVE  TypeInv'
<1> USE DEF TypeInv
<1>1. ClusterTypeOK /\ ExecTypeOK /\ faults \in 0 .. MaxFaults
  BY DEF TypeOK
<1>2. job' \in [Workers -> Jobs] /\ \A p \in Workers : job'[p] = Idle
  BY IdleType DEF ManagerRestarts
<1>3. ClusterTypeOK'
  BY <1>1 DEF ManagerRestarts, ClusterTypeOK, Holders
<1>4. ExecTypeOK' /\ faults' \in 0 .. MaxFaults
  <2>1. ExecTypeOK'
    BY <1>1 DEF ManagerRestarts, ExecTypeOK, ClusterTypeOK
  <2>2. faults' \in 0 .. MaxFaults
    BY <1>1, WorkersAssumption DEF ManagerRestarts, Fault
  <2>3. QED
    BY <2>1, <2>2
<1>5. ExecutionHeld'
  BY <1>2, IdleType DEF ExecutionHeld
<1>6. lost' \subseteq Workloads
  BY LostType DEF Next, TypeOK
<1>7. QED
  BY <1>2, <1>3, <1>4, <1>5, <1>6 DEF TypeOK

\* The initial states are well typed.
LEMMA TypeInvInit == Init => TypeInv
<1> SUFFICES ASSUME Init PROVE TypeInv
  OBVIOUS
<1>1. InitialSpec \in SleepInfoSpecs
  BY DEF InitialSpec, SleepInfoSpecs
<1>2. ClusterTypeOK
  BY <1>1, IdleType DEF Init, ClusterInit, ClusterTypeOK, NoSecret, Holders
<1>3. job \in [Workers -> Jobs] /\ \A p \in Workers : job[p] = Idle
  BY IdleType DEF Init
<1>4. ExecTypeOK /\ faults \in 0 .. MaxFaults
  BY IdleType, WorkersAssumption DEF Init, ExecInit, ExecTypeOK
<1>5. ExecutionHeld
  BY <1>3, IdleType DEF ExecutionHeld
<1>6. lost \subseteq Workloads
  BY DEF Init
<1>7. QED
  BY <1>2, <1>3, <1>4, <1>5, <1>6 DEF TypeInv, TypeOK

\* Every step keeps the types.
LEMMA TypeInvNext == TypeInv /\ [Next]_vars => TypeInv'
<1>1. ASSUME TypeInv, UNCHANGED vars PROVE TypeInv'
  BY <1>1 DEF vars, clusterVars, execVars, TypeInv, TypeOK, ClusterTypeOK,
              ExecTypeOK, ExecutionHeld, Current
<1>2. QED
  BY <1>1, CronStepType, ExecStepType, EnvironmentType, RestartType DEF Next

(***************************************************************************)
(* The state of cluster, reconciles, queue and cache keeps its types.      *)
(***************************************************************************)
THEOREM TypeCorrect == Spec => []TypeOK
<1>1. TypeInv => TypeOK
  BY DEF TypeInv
<1>2. QED
  BY TypeInvInit, TypeInvNext, <1>1, PTL DEF Spec

-----------------------------------------------------------------------------
(***************************************************************************)
(* OriginalsNotAsleep is not inductive: what Sleep puts in the restore     *)
(* patches next comes from its list.  The invariant adds that the workloads *)
(* left to put to sleep were listed awake.                                 *)
(***************************************************************************)
KeepsAwake(j) ==
    /\ \A w \in Workloads : j.restorePatches[w] # SleepValue
    /\ j.step = "apply" /\ j.operation = "SLEEP"
       => \A w \in j.toPatch : j.data[w] # SleepValue

StoredAwake == \A w \in Workloads : secret.original[w] # SleepValue

OriginalsInv == StoredAwake /\ \A p \in Workers : KeepsAwake(job[p])

\* A handler that returned holds no restore patch.
LEMMA IdleAwake ==
    KeepsAwake(Idle) /\ \A w \in Workloads : NoValues[w] # SleepValue
<1>1. \A w \in Workloads : NoValues[w] # SleepValue
  BY ClusterAssumption DEF NoValues
<1>2. QED
  BY <1>1, IdleType DEF KeepsAwake

\* Changing the state of one reconcile, for good.
LEMMA JobAwake ==
    ASSUME job \in [Workers -> Jobs], \A q \in Workers : KeepsAwake(job[q]),
           NEW p \in Workers, NEW j, KeepsAwake(j),
           job' = [job EXCEPT ![p] = j]
    PROVE  \A q \in Workers : KeepsAwake(job'[q])
<1>1. \A q \in Workers : job'[q] = j \/ job'[q] = job[q]
  OBVIOUS
<1>2. QED
  BY <1>1

\* A handler returns.
LEMMA ReturnAwake ==
    ASSUME job \in [Workers -> Jobs], \A q \in Workers : KeepsAwake(job[q]),
           NEW p \in Workers, Return(p)
    PROVE  \A q \in Workers : KeepsAwake(job'[q])
BY JobAwake, IdleAwake DEF Return

\* A step before Sleep or WakeUp, or after it, that leaves the restore patches.
LEMMA OutsideApply ==
    ASSUME NEW j, NEW k, KeepsAwake(j), k.step # "apply",
           k.restorePatches = j.restorePatches
    PROVE  KeepsAwake(k)
BY DEF KeepsAwake

\* A list leaves the restore patches.
LEMMA ListAwake ==
    ASSUME TypeOK, OriginalsInv, NEW p \in Workers, NEW t \in Targets,
           ListTarget(p, t) \/ ListFails(p, t)
    PROVE  OriginalsInv'
<1>1. job \in [Workers -> Jobs] /\ job[p] \in Jobs /\ job[p].step = "list"
  BY DEF TypeOK, ListTarget, ListFails, At
<1>2. PICK toList, data :
        job' = [job EXCEPT ![p] = [job[p] EXCEPT !.toList = toList, !.data = data]]
  <2>1. CASE ListTarget(p, t)
    BY <1>1, <2>1 DEF ListTarget, Jobs
  <2>2. CASE ListFails(p, t)
    <3>1. job' = [job EXCEPT ![p] = [job[p] EXCEPT !.toList = @ \ {t},
                                                   !.data = job[p].data]]
      BY <1>1, <2>2 DEF ListFails, Jobs
    <3>2. QED
      BY <3>1
  <2>3. QED
    BY <2>1, <2>2
<1> DEFINE j == [job[p] EXCEPT !.toList = toList, !.data = data]
<1>3. j.step = "list" /\ j.restorePatches = job[p].restorePatches
  BY <1>1 DEF Jobs
<1> HIDE DEF j
<1>4. KeepsAwake(j)
  BY <1>3, OutsideApply DEF OriginalsInv
<1>5. \A q \in Workers : KeepsAwake(job'[q])
  BY <1>1, <1>2, <1>4, JobAwake DEF OriginalsInv, j
<1>6. secret' = secret
  BY DEF ListTarget, ListFails, clusterVars
<1>7. QED
  BY <1>5, <1>6 DEF OriginalsInv, StoredAwake

\* Sleep starts with the workloads that were listed awake.
LEMMA ApplyingAwake ==
    ASSUME TypeOK, OriginalsInv, NEW p \in Workers
    PROVE  KeepsAwake(Applying(p))
<1>1. job[p] \in Jobs /\ KeepsAwake(job[p])
  BY DEF TypeOK, OriginalsInv
<1>2. /\ Applying(p).operation = job[p].operation
      /\ Applying(p).data = job[p].data
      /\ job[p].operation = "SLEEP" => Applying(p).toPatch = ToSleep(p)
      /\ \A w \in Workloads :
           Applying(p).restorePatches[w] \in {job[p].restorePatches[w], None}
  BY <1>1 DEF Applying, Jobs
<1>3. \A w \in ToSleep(p) : job[p].data[w] # SleepValue
  BY DEF ToSleep
<1>4. QED
  BY <1>1, <1>2, <1>3, ClusterAssumption DEF KeepsAwake

\* A patch records the listed value.
LEMMA PatchAwake ==
    ASSUME TypeOK, OriginalsInv, NEW p \in Workers, NEW w \in Workloads,
           Patch(p, w)
    PROVE  OriginalsInv'
<1>1. /\ job \in [Workers -> Jobs] /\ job[p] \in Jobs /\ KeepsAwake(job[p])
      /\ job[p].step = "apply" /\ w \in job[p].toPatch /\ secret' = secret
  BY DEF TypeOK, OriginalsInv, Patch, PatchWrite, At
<1> DEFINE patches == [job[p].restorePatches EXCEPT ![w] =
                         IF job[p].operation = "SLEEP" THEN job[p].data[w] ELSE @]
           j == [job[p] EXCEPT !.toPatch = @ \ {w}, !.restorePatches = patches]
<1>2. job' = [job EXCEPT ![p] = j]
  BY <1>1 DEF Patch, Jobs
<1>3. \A v \in Workloads : patches[v] # SleepValue
  BY <1>1 DEF KeepsAwake, Jobs, ValueMap
<1> HIDE DEF patches
<1>4. /\ j.restorePatches = patches /\ j.toPatch = job[p].toPatch \ {w}
      /\ j.data = job[p].data /\ j.operation = job[p].operation
  BY <1>1 DEF Jobs
<1> HIDE DEF j
<1>5. KeepsAwake(j)
  BY <1>1, <1>3, <1>4 DEF KeepsAwake
<1>6. QED
  BY <1>1, <1>2, <1>5, JobAwake DEF OriginalsInv, StoredAwake

\* upsertSecret stores restore patches of the reconcile, or none.
LEMMA SecretWriteAwake ==
    ASSUME OriginalsInv, NEW p \in Workers, SecretWrite(p)
    PROVE  StoredAwake'
BY IdleAwake DEF OriginalsInv, SecretWrite, NewSecret, StoredAwake, KeepsAwake

\* A step of the SleepInfo controller stores no scaled-down state.
LEMMA CronStepAwake ==
    ASSUME TypeOK, OriginalsInv, CronStep
    PROVE  OriginalsInv'
<1>1. job \in [Workers -> Jobs] /\ \A q \in Workers : KeepsAwake(job[q])
  BY DEF TypeOK, OriginalsInv
<1>2. secret' = secret => StoredAwake'
  BY DEF OriginalsInv, StoredAwake
<1>3. CASE GetSleepInfo
  <2> DEFINE j == [Idle EXCEPT !.step = "secret",
                               !.wakeUp = sleepInfo.cached.wakeUp,
                               !.toList = sleepInfo.cached.targets]
  <2>1. job' = [job EXCEPT !["cron"] = j] /\ "cron" \in Workers /\ secret' = secret
    BY <1>3 DEF GetSleepInfo, At
  <2>2. j.step = "secret" /\ j.restorePatches = Idle.restorePatches
    BY IdleType DEF Jobs
  <2> HIDE DEF j
  <2>3. KeepsAwake(j)
    BY <2>2, IdleAwake, OutsideApply
  <2>4. QED
    BY <1>1, <1>2, <2>1, <2>3, JobAwake DEF OriginalsInv
<1>4. CASE GetSecret
  <2> DEFINE j == [job["cron"] EXCEPT
                     !.step = "list",
                     !.operation = CurrentOperation(secret.operationType,
                                                    job["cron"].wakeUp),
                     !.hadSecret = secret.exists,
                     !.restorePatches = secret.original]
  <2>1. /\ job' = [job EXCEPT !["cron"] = j]
        /\ "cron" \in Workers /\ secret' = secret
    BY <1>4 DEF GetSecret, At, clusterVars
  <2>2. j.step = "list" /\ j.restorePatches = secret.original
    BY <1>1, <2>1 DEF Jobs
  <2> HIDE DEF j
  <2>3. KeepsAwake(j)
    BY <2>2 DEF KeepsAwake, OriginalsInv, StoredAwake
  <2>4. QED
    BY <1>1, <1>2, <2>1, <2>3, JobAwake DEF OriginalsInv
<1>5. CASE \E t \in Targets : ListTarget("cron", t) \/ ListFails("cron", t)
  BY <1>5, ListAwake DEF ListTarget, ListFails, At
<1>6. CASE UpdateStatus
  <2>1. "cron" \in Workers /\ secret' = secret
    BY <1>6 DEF UpdateStatus, Listed, At, StatusWrite
  <2>2. KeepsAwake(Applying("cron"))
    BY <2>1, ApplyingAwake
  <2>3. QED
    BY <1>1, <1>2, <1>6, <2>1, <2>2, JobAwake DEF UpdateStatus, OriginalsInv
<1>7. CASE \E w \in Workloads : Patch("cron", w)
  BY <1>7, PatchAwake DEF Patch, PatchWrite, At
<1>8. CASE \/ GetSecretNotDue \/ UpdateStatusRefused \/ UpsertSecret
           \/ UpsertSecretRefused \/ SleepRefused \/ CronCallFails
           \/ CronAnswerLost
  <2>1. "cron" \in Workers /\ Return("cron")
    BY <1>8 DEF GetSecretNotDue, UpdateStatusRefused, UpsertSecret,
      UpsertSecretRefused, SleepRefused, CronCallFails, CronAnswerLost, Fail,
      ReturnError, Listed, At, PatchRefused, PatchWrite, SecretWrite,
      SecretRefused, ReadyToSave
  <2>2. secret' = secret \/ SecretWrite("cron")
    BY <1>8 DEF GetSecretNotDue, UpdateStatusRefused, UpsertSecret,
      UpsertSecretRefused, SleepRefused, CronCallFails, CronAnswerLost,
      PatchWrite, StatusWrite, clusterVars
  <2>3. QED
    BY <1>1, <1>2, <2>1, <2>2, SecretWriteAwake, ReturnAwake DEF OriginalsInv
<1>9. QED
  BY <1>3, <1>4, <1>5, <1>6, <1>7, <1>8 DEF CronStep, CronProgress

\* A step of the execution controller stores no scaled-down state.
LEMMA ExecStepAwake ==
    ASSUME TypeOK, OriginalsInv, ExecStep
    PROVE  OriginalsInv'
<1>1. job \in [Workers -> Jobs] /\ \A q \in Workers : KeepsAwake(job[q])
  BY DEF TypeOK, OriginalsInv
<1>2. secret' = secret => StoredAwake'
  BY DEF OriginalsInv, StoredAwake
<1>3. CASE \E e \in Executions : GetExecution(e)
  <2>1. PICK e \in Executions : GetExecution(e)
    BY <1>3
  <2>2. "exec" \in Workers /\ secret' = secret
    BY <2>1 DEF GetExecution, At
  <2>3. CASE job' = job
    BY <1>1, <1>2, <2>2, <2>3 DEF OriginalsInv
  <2>4. CASE job' # job
    <3> DEFINE step == IF ~ sleepInfo.cached.exists THEN "phase"
                       ELSE IF cache[e].owned THEN "secret" ELSE "owner"
               j == [Idle EXCEPT
                       !.step = step, !.execution = e, !.seen = cache[e],
                       !.operation = OperationOf[e],
                       !.wakeUp = sleepInfo.cached.wakeUp,
                       !.toList = sleepInfo.cached.targets,
                       !.phase = IF sleepInfo.cached.exists THEN ""
                                                            ELSE "Failed"]
    <3>1. job' = [job EXCEPT !["exec"] = j]
      BY <2>1, <2>4 DEF GetExecution
    <3>2. step # "apply"
      OBVIOUS
    <3> HIDE DEF step
    <3>3. j.step # "apply" /\ j.restorePatches = Idle.restorePatches
      BY <3>2, IdleType DEF Jobs
    <3> HIDE DEF j
    <3>4. KeepsAwake(j)
      BY <3>3, IdleAwake, OutsideApply
    <3>5. QED
      BY <1>1, <1>2, <2>2, <3>1, <3>4, JobAwake DEF OriginalsInv
  <2>5. QED
    BY <2>3, <2>4
<1>4. CASE SetOwnerReference
  <2> DEFINE j == [job["exec"] EXCEPT !.step = "secret",
                                      !.seen = execution'[Current]]
  <2>1. /\ "exec" \in Workers /\ secret' = secret
        /\ job' = [job EXCEPT !["exec"] = j]
    <3>1. "exec" \in Workers /\ secret' = secret
      BY <1>4 DEF SetOwnerReference, OwnerWrite, At
    <3>2. job' = [job EXCEPT !["exec"] = j]
      BY <1>1, <1>4, <3>1 DEF SetOwnerReference
    <3>3. QED
      BY <3>1, <3>2
  <2>2. j.step = "secret" /\ j.restorePatches = job["exec"].restorePatches
    BY <1>1, <2>1 DEF Jobs
  <2> HIDE DEF j
  <2>3. KeepsAwake(j)
    BY <1>1, <2>1, <2>2, OutsideApply
  <2>4. QED
    BY <1>1, <1>2, <2>1, <2>3, JobAwake DEF OriginalsInv
<1>5. CASE GetSecretForExecution
  <2> DEFINE isAsleep == secret.exists /\ secret.operationType = "SLEEP"
             phase == IF (job["exec"].operation = "SLEEP") = isAsleep
                      THEN "Skipped"
                      ELSE IF OverrideFails(job["exec"].operation,
                                            job["exec"].wakeUp)
                           THEN "Failed" ELSE ""
             step == IF phase = "" THEN "list" ELSE "phase"
             j == [job["exec"] EXCEPT !.step = step, !.phase = phase,
                                      !.hadSecret = secret.exists,
                                      !.restorePatches = secret.original]
  <2>1. /\ "exec" \in Workers /\ secret' = secret
        /\ job' = [job EXCEPT !["exec"] = j]
    BY <1>5 DEF GetSecretForExecution, At, clusterVars
  <2>2. step # "apply"
    OBVIOUS
  <2> HIDE DEF step, phase
  <2>3. j.step # "apply" /\ j.restorePatches = secret.original
    BY <1>1, <2>1, <2>2 DEF Jobs
  <2> HIDE DEF j
  <2>4. KeepsAwake(j)
    BY <2>3 DEF KeepsAwake, OriginalsInv, StoredAwake
  <2>5. QED
    BY <1>1, <1>2, <2>1, <2>4, JobAwake DEF OriginalsInv
<1>6. CASE \E t \in Targets : ListTarget("exec", t) \/ ListFails("exec", t)
  BY <1>6, ListAwake DEF ListTarget, ListFails, At
<1>7. CASE StartOperation
  <2>1. "exec" \in Workers /\ secret' = secret
    BY <1>7 DEF StartOperation, Listed, At, clusterVars
  <2> DEFINE skipped == [job["exec"] EXCEPT !.step = "phase", !.phase = "Skipped"]
  <2>2. \/ job' = [job EXCEPT !["exec"] = Applying("exec")]
        \/ job' = [job EXCEPT !["exec"] = skipped]
    BY <1>7 DEF StartOperation
  <2>3. /\ skipped.step = "phase"
        /\ skipped.restorePatches = job["exec"].restorePatches
    BY <1>1, <2>1 DEF Jobs
  <2> HIDE DEF skipped
  <2>4. KeepsAwake(skipped) /\ KeepsAwake(Applying("exec"))
    BY <1>1, <2>1, <2>3, OutsideApply, ApplyingAwake
  <2>5. QED
    BY <1>1, <1>2, <2>1, <2>2, <2>4, JobAwake DEF OriginalsInv
<1>8. CASE \E w \in Workloads : Patch("exec", w)
  BY <1>8, PatchAwake DEF Patch, PatchWrite, At
<1>9. CASE SaveSecret
  <2> DEFINE j == [job["exec"] EXCEPT !.step = "status"]
  <2>1. "exec" \in Workers /\ job' = [job EXCEPT !["exec"] = j]
    BY <1>9 DEF SaveSecret, SecretWrite, ReadyToSave, At
  <2>2. j.step = "status" /\ j.restorePatches = job["exec"].restorePatches
    BY <1>1, <2>1 DEF Jobs
  <2> HIDE DEF j
  <2>3. KeepsAwake(j) /\ StoredAwake'
    BY <1>1, <1>9, <2>1, <2>2, OutsideApply, SecretWriteAwake DEF SaveSecret
  <2>4. QED
    BY <1>1, <2>1, <2>3, JobAwake DEF OriginalsInv
<1>10. CASE SaveStatus
  <2> DEFINE j == [job["exec"] EXCEPT !.step = "phase", !.phase = "Succeeded"]
  <2>1. "exec" \in Workers /\ secret' = secret
    BY <1>10 DEF SaveStatus, StatusWrite, At
  <2>2. job' = [job EXCEPT !["exec"] = j]
    BY <1>1, <1>10, <2>1 DEF SaveStatus
  <2>3. j.step = "phase" /\ j.restorePatches = job["exec"].restorePatches
    BY <1>1, <2>1 DEF Jobs
  <2> HIDE DEF j
  <2>4. KeepsAwake(j)
    BY <1>1, <2>1, <2>3, OutsideApply
  <2>5. QED
    BY <1>1, <1>2, <2>1, <2>2, <2>4, JobAwake DEF OriginalsInv
<1>11. CASE \/ UpdateExecutionStatus \/ ExecCallRefused \/ ExecCallFails
            \/ ExecAnswerLost
  <2>1. "exec" \in Workers /\ Return("exec")
    BY <1>11 DEF UpdateExecutionStatus, ExecCallRefused, ExecCallFails,
      ExecAnswerLost, Retry, Fail, ReturnError, PhaseWrite, OwnerWrite,
      PatchRefused, PatchWrite, SecretWrite, SecretRefused, ReadyToSave, At
  <2>2. secret' = secret \/ SecretWrite("exec")
    BY <1>11 DEF UpdateExecutionStatus, ExecCallRefused, ExecCallFails,
      ExecAnswerLost, PhaseWrite, OwnerWrite, PatchWrite, StatusWrite,
      clusterVars
  <2>3. QED
    BY <1>1, <1>2, <2>1, <2>2, SecretWriteAwake, ReturnAwake DEF OriginalsInv
<1>12. QED
  BY <1>3, <1>4, <1>5, <1>6, <1>7, <1>8, <1>9, <1>10, <1>11
  DEF ExecStep, ExecProgress

\* Every step stores no scaled-down state.
LEMMA OriginalsInvNext == TypeOK /\ OriginalsInv /\ [Next]_vars => OriginalsInv'
<1> SUFFICES ASSUME TypeOK, OriginalsInv, [Next]_vars PROVE OriginalsInv'
  OBVIOUS
<1>1. CASE job' = job /\ secret' \in {secret, NoSecret}
  <2>1. \A w \in Workloads : NoSecret.original[w] # SleepValue
    BY IdleAwake DEF NoSecret
  <2>2. QED
    BY <1>1, <2>1 DEF OriginalsInv, StoredAwake
<1>2. CASE Environment
  BY <1>1, <1>2 DEF Environment, UserStep, EditWorkload, EditWakeUp, EditTargets,
    DeleteSleepInfo, CollectSecret, CollectExecution, SyncSleepInfo,
    CreateExecution, SyncExecution, clusterVars
<1>3. CASE ManagerRestarts
  BY <1>3, IdleAwake DEF ManagerRestarts, OriginalsInv, StoredAwake
<1>4. CASE UNCHANGED vars
  BY <1>1, <1>4 DEF vars, clusterVars
<1>5. QED
  BY <1>2, <1>3, <1>4, CronStepAwake, ExecStepAwake DEF Next

(***************************************************************************)
(* Whatever fails, restarts or overlaps, neither the Secret nor a reconcile *)
(* holds a scaled-down state as the original one of a workload.            *)
(***************************************************************************)
THEOREM OriginalsCorrect == Spec => []OriginalsNotAsleep
<1>1. ASSUME Init PROVE OriginalsInv
  <2>1. StoredAwake
    BY <1>1, IdleAwake DEF Init, ClusterInit, NoSecret, StoredAwake
  <2>2. \A p \in Workers : job[p] = Idle
    BY <1>1 DEF Init
  <2>3. QED
    BY <2>1, <2>2, IdleAwake DEF OriginalsInv
<1>2. OriginalsInv => OriginalsNotAsleep
  BY DEF OriginalsInv, StoredAwake, KeepsAwake, OriginalsNotAsleep
<1>3. QED
  BY <1>1, <1>2, OriginalsInvNext, TypeCorrect, PTL DEF Spec

-----------------------------------------------------------------------------
\* The writes that change an execution.
LEMMA ExecutionWriters ==
    ASSUME [Next]_vars
    PROVE  \/ execution' = execution
           \/ OwnerWrite
           \/ PhaseWrite
           \/ \E e \in Executions : CreateExecution(e) \/ CollectExecution(e)
<1>1. CASE CronStep
  BY <1>1 DEF CronStep, CronProgress, GetSleepInfo, GetSecret, GetSecretNotDue,
    ListTarget, ListFails, UpdateStatus, UpdateStatusRefused, Patch, PatchWrite,
    UpsertSecret, UpsertSecretRefused, SleepRefused, CronCallFails,
    CronAnswerLost, StatusWrite, SecretWrite, clusterVars
<1>2. CASE ExecStep
  BY <1>2 DEF ExecStep, ExecProgress, GetExecution, SetOwnerReference,
    GetSecretForExecution, ListTarget, ListFails, StartOperation, Patch,
    PatchWrite, SaveSecret, SaveStatus, UpdateExecutionStatus, ExecCallRefused,
    ExecCallFails, ExecAnswerLost, StatusWrite, SecretWrite, clusterVars
<1>3. CASE Environment
  BY <1>3 DEF Environment, UserStep, EditWorkload, EditWakeUp, EditTargets,
    DeleteSleepInfo, CollectSecret, SyncSleepInfo, SyncExecution, clusterVars
<1>4. CASE ManagerRestarts \/ UNCHANGED vars
  BY <1>4 DEF ManagerRestarts, vars, clusterVars
<1>5. QED
  BY <1>1, <1>2, <1>3, <1>4 DEF Next

(***************************************************************************)
(* A terminal phase is never rewritten.  The write of a phase is accepted  *)
(* only from a current copy, and ExecutionHeld says that the copy had no   *)
(* phase: so neither a stale cache nor a retry reaches a processed one.    *)
(***************************************************************************)
THEOREM PhaseFinal == Spec => PhaseIsFinal
<1> DEFINE A == \A e \in Executions :
                  IsProcessed(execution[e])
                  => execution'[e].phase = execution[e].phase
<1>1. ASSUME TypeInv, [Next]_vars PROVE A
  <2>1. execution \in [Executions -> ExecutionObjects]
    BY <1>1 DEF TypeInv, TypeOK, ClusterTypeOK
  <2>2. CASE execution' = execution
    BY <2>2
  <2>3. CASE OwnerWrite
    BY <2>1, <2>3 DEF OwnerWrite, ExecutionObjects
  <2>4. CASE PhaseWrite
    <3>1. execution[Current].phase = ""
      BY <1>1, <2>4 DEF PhaseWrite, Holds, At, TypeInv, ExecutionHeld
    <3>2. \A e \in Executions \ {Current} : execution'[e] = execution[e]
      BY <2>1, <2>4 DEF PhaseWrite
    <3>3. QED
      BY <3>1, <3>2 DEF IsProcessed
  <2>5. CASE \E e \in Executions : CreateExecution(e) \/ CollectExecution(e)
    <3>1. PICK e \in Executions : execution' = [execution EXCEPT ![e].exists = TRUE]
                                \/ execution' = [execution EXCEPT ![e].exists = FALSE]
      BY <2>5 DEF CreateExecution, CollectExecution
    <3>2. QED
      BY <2>1, <3>1 DEF ExecutionObjects
  <2>6. QED
    BY <1>1, <2>2, <2>3, <2>4, <2>5, ExecutionWriters
<1>2. TypeInv /\ [Next]_vars => TypeInv' /\ [A]_vars
  BY <1>1, TypeInvNext
<1>3. QED
  BY <1>2, TypeInvInit, PTL DEF Spec, PhaseIsFinal

=============================================================================
