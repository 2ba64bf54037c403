---------------------------- MODULE StatusProofs ----------------------------
(***************************************************************************)
(* The update of the SleepInfo status, which comes before a scheduled      *)
(* operation: what its version check guarantees of the operation, and that *)
(* no operation is recorded which the status does not name.                *)
(***************************************************************************)
EXTENDS KubeGreenProofs

(***************************************************************************)
(* A copy with the current resourceVersion is the SleepInfo as it is: the  *)
(* informer cache and, until the status is updated, the reconcile of the   *)
(* SleepInfo controller and what it listed.                                *)
(***************************************************************************)
ReadFrom(j, spec) ==
    /\ j.wakeUp = spec.wakeUp
    /\ j.toList \subseteq spec.targets
    /\ \A w \in Workloads : j.data[w] # None => TargetOf[w] \in spec.targets

CopiesInv ==
    /\ "cache" \in sleepInfo.holders => sleepInfo.cached = sleepInfo.spec
    /\ /\ "cron" \in Workers /\ "cron" \in sleepInfo.holders
       /\ job["cron"].step \in {"secret", "list"}
       => ReadFrom(job["cron"], sleepInfo.spec)

\* A step that gives nobody a copy and lists nothing.
LEMMA CopiesKept ==
    ASSUME CopiesInv,
           sleepInfo'.spec = sleepInfo.spec,
           sleepInfo'.cached = sleepInfo.cached,
           sleepInfo'.holders \subseteq sleepInfo.holders \cup {"exec"},
           "cron" \in Workers =>
              \/ job'["cron"] = job["cron"]
              \/ job'["cron"].step \notin {"secret", "list"}
    PROVE  CopiesInv'
<1>1. "cache" \in sleepInfo'.holders => "cache" \in sleepInfo.holders
  OBVIOUS
<1>2. "cron" \in sleepInfo'.holders => "cron" \in sleepInfo.holders
  OBVIOUS
<1>3. CASE "cron" \in Workers
  BY <1>1, <1>2, <1>3 DEF CopiesInv, ReadFrom
<1>4. CASE "cron" \notin Workers
  BY <1>1, <1>4 DEF CopiesInv
<1>5. QED
  BY <1>3, <1>4

\* Every write of the SleepInfo makes the copies stale.
LEMMA NoCopies ==
    ASSUME sleepInfo'.holders = {}
    PROVE  CopiesInv'
BY DEF CopiesInv

\* A list, failed or not, adds workloads of the targets that were read only.
LEMMA ListCopies ==
    ASSUME TypeOK, CopiesInv, NEW p \in Workers, NEW t \in Targets,
           ListTarget(p, t) \/ ListFails(p, t)
    PROVE  CopiesInv'
<1>1. /\ job \in [Workers -> Jobs] /\ job[p] \in Jobs
      /\ job[p].step = "list" /\ t \in job[p].toList
      /\ UNCHANGED sleepInfo
  BY DEF TypeOK, ListTarget, ListFails, At, clusterVars
<1>2. CASE p # "cron"
  <2>1. "cron" \in Workers => job'["cron"] = job["cron"]
    BY <1>2, ListType
  <2>2. QED
    BY <1>1, <2>1, CopiesKept
<1>3. CASE p = "cron"
  <2> DEFINE data == [w \in Workloads |-> IF TargetOf[w] = t THEN workload[w]
                                         ELSE job[p].data[w]]
             j == [job[p] EXCEPT !.toList = @ \ {t}, !.data = data]
             k == [job[p] EXCEPT !.toList = @ \ {t}]
  <2>1. \/ job' = [job EXCEPT ![p] = j]
        \/ job' = [job EXCEPT ![p] = k]
    BY <1>1 DEF ListTarget, ListFails
  <2>2. \A w \in Workloads : data[w] = IF TargetOf[w] = t THEN workload[w]
                                                          ELSE job[p].data[w]
    OBVIOUS
  <2> HIDE DEF data
  <2>3. /\ j.wakeUp = job[p].wakeUp /\ j.toList = job[p].toList \ {t}
        /\ j.data = data
        /\ k.wakeUp = job[p].wakeUp /\ k.toList = job[p].toList \ {t}
        /\ k.data = job[p].data
    BY <1>1 DEF Jobs
  <2> HIDE DEF j, k
  <2>4. job'[p] = j \/ job'[p] = k
    BY <1>1, <2>1
  <2>5. ReadFrom(job[p], sleepInfo.spec) => ReadFrom(job'[p], sleepInfo.spec)
    BY <1>1, <2>2, <2>3, <2>4 DEF ReadFrom
  <2>6. QED
    BY <1>1, <1>3, <2>5 DEF CopiesInv
<1>4. QED
  BY <1>2, <1>3

\* A step of the SleepInfo controller keeps the invariant.
LEMMA CronCopies ==
    ASSUME TypeInv, CopiesInv, CronStep
    PROVE  CopiesInv'
<1>1. /\ job \in [Workers -> Jobs] /\ TypeOK
      /\ sleepInfo \in [spec : SleepInfoSpecs, cached : SleepInfoSpecs,
                        operation : {"SLEEP", "WAKE_UP", ""},
                        holders : SUBSET Holders]
  BY DEF TypeInv, TypeOK, ClusterTypeOK
<1>2. ASSUME "cron" \in Workers, Return("cron"), UNCHANGED sleepInfo
      PROVE  CopiesInv'
  <2>1. job'["cron"].step = "idle"
    BY <1>1, <1>2, ReturnType, IdleType
  <2>2. QED
    BY <1>2, <2>1, CopiesKept
<1>3. ASSUME StatusWrite("cron")
      PROVE  CopiesInv'
  BY <1>1, <1>3, NoCopies DEF StatusWrite
<1>4. CASE GetSleepInfo
  <2> DEFINE j == [Idle EXCEPT !.step = "secret",
                               !.wakeUp = sleepInfo.cached.wakeUp,
                               !.toList = sleepInfo.cached.targets]
  <2>1. job' = [job EXCEPT !["cron"] = j] /\ "cron" \in Workers
    BY <1>4 DEF GetSleepInfo, At
  <2>2. /\ j.wakeUp = sleepInfo.cached.wakeUp
        /\ j.toList = sleepInfo.cached.targets
        /\ \A w \in Workloads : j.data[w] = None
    BY DEF Idle, NoValues
  <2> HIDE DEF j
  <2>3. job'["cron"] = j
    BY <1>1, <2>1
  <2>4. /\ sleepInfo'.spec = sleepInfo.spec /\ sleepInfo'.cached = sleepInfo.cached
        /\ sleepInfo'.holders = HoldersAfterGet("cron")
    BY <1>1, <1>4 DEF GetSleepInfo
  <2>5. /\ "cache" \in sleepInfo'.holders => "cache" \in sleepInfo.holders
        /\ "cron" \in sleepInfo'.holders => "cache" \in sleepInfo.holders
    BY <2>4 DEF HoldersAfterGet
  <2>6. ReadFrom(j, sleepInfo.cached)
    BY <2>2 DEF ReadFrom
  <2>7. QED
    BY <2>3, <2>4, <2>5, <2>6 DEF CopiesInv
<1>5. CASE GetSecret
  <2> DEFINE operation == CurrentOperation(secret.operationType,
                                           job["cron"].wakeUp)
             j == [job["cron"] EXCEPT !.step = "list", !.operation = operation,
                                      !.hadSecret = secret.exists,
                                      !.restorePatches = secret.original]
  <2>1. /\ job' = [job EXCEPT !["cron"] = j] /\ "cron" \in Workers
        /\ job["cron"].step = "secret" /\ UNCHANGED sleepInfo
    BY <1>5 DEF GetSecret, At, clusterVars
  <2> HIDE DEF operation
  <2>2. /\ j.wakeUp = job["cron"].wakeUp /\ j.toList = job["cron"].toList
        /\ j.data = job["cron"].data
    BY <1>1, <2>1 DEF Jobs
  <2> HIDE DEF j
  <2>3. job'["cron"] = j
    BY <1>1, <2>1
  <2>4. QED
    BY <2>1, <2>2, <2>3 DEF CopiesInv, ReadFrom
<1>6. CASE \E t \in Targets : ListTarget("cron", t) \/ ListFails("cron", t)
  <2>1. "cron" \in Workers
    BY <1>6 DEF ListTarget, ListFails, At
  <2>2. QED
    BY <1>1, <1>6, <2>1, ListCopies
<1>7. CASE UpdateStatus
  BY <1>3, <1>7 DEF UpdateStatus
<1>8. CASE \E w \in Workloads : Patch("cron", w)
  <2>1. PICK w \in Workloads : Patch("cron", w)
    BY <1>8
  <2>2. /\ "cron" \in Workers /\ job["cron"].step = "apply" /\ UNCHANGED sleepInfo
        /\ job' = [job EXCEPT
             !["cron"].toPatch = @ \ {w},
             !["cron"].restorePatches[w] =
                 IF job["cron"].operation = "SLEEP" THEN job["cron"].data[w] ELSE @]
    BY <2>1 DEF Patch, PatchWrite, At
  <2>3. job'["cron"].step = "apply"
    BY ZenonT(60), <1>1, <2>2 DEF Jobs
  <2>4. QED
    BY <2>2, <2>3, CopiesKept
<1>9. CASE CronAnswerLost
  <2>1. CASE StatusWrite("cron")
    BY <1>3, <2>1
  <2>2. CASE UNCHANGED sleepInfo
    BY <1>2, <1>9, <2>2
    DEF CronAnswerLost, Fail, ReturnError, Listed, PatchWrite, SecretWrite,
        ReadyToSave, At
  <2>3. QED
    BY <1>9, <2>1, <2>2 DEF CronAnswerLost, PatchWrite, SecretWrite
<1>10. CASE \/ GetSecretNotDue \/ UpdateStatusRefused \/ UpsertSecret
            \/ UpsertSecretRefused \/ SleepRefused \/ CronCallFails
  BY <1>2, <1>10
  DEF GetSecretNotDue, UpdateStatusRefused, UpsertSecret, UpsertSecretRefused,
      SleepRefused, PatchRefused, CronCallFails, Fail, ReturnError, SecretWrite,
      SecretRefused, ReadyToSave, Listed, At, clusterVars
<1>11. QED
  BY <1>4, <1>5, <1>6, <1>7, <1>8, <1>9, <1>10 DEF CronStep, CronProgress

\* A step of the execution controller leaves the other reconcile alone.
LEMMA ExecLeavesCron ==
    ASSUME TypeInv, ExecStep, "cron" \in Workers
    PROVE  job'["cron"] = job["cron"]
<1>1. job \in [Workers -> Jobs] /\ TypeOK
  BY DEF TypeInv, TypeOK
<1>2. ASSUME "exec" \in Workers, Return("exec")
      PROVE  job'["cron"] = job["cron"]
  BY <1>1, <1>2 DEF Return
<1>3. CASE \E t \in Targets : ListTarget("exec", t) \/ ListFails("exec", t)
  <2>1. "exec" \in Workers
    BY <1>3 DEF ListTarget, ListFails, At
  <2>2. QED
    BY <1>1, <1>3, <2>1, ListType
<1>4. CASE \E w \in Workloads : Patch("exec", w)
  <2>1. "exec" \in Workers
    BY <1>4 DEF Patch, PatchWrite, At
  <2>2. QED
    BY <1>1, <1>4, <2>1, PatchType
<1>5. CASE \/ \E e \in Executions : GetExecution(e)
           \/ SetOwnerReference \/ GetSecretForExecution \/ StartOperation
           \/ SaveSecret \/ SaveStatus
  BY <1>1, <1>5
  DEF GetExecution, SetOwnerReference, GetSecretForExecution, StartOperation,
      SaveSecret, SaveStatus
<1>6. CASE UpdateExecutionStatus
  BY <1>2, <1>6 DEF UpdateExecutionStatus, PhaseWrite, At
<1>7. CASE ExecCallRefused
  BY <1>2, <1>7
  DEF ExecCallRefused, PatchRefused, Retry, Fail, ReturnError, SecretRefused,
      ReadyToSave, At
<1>8. CASE ExecCallFails
  BY <1>2, <1>8 DEF ExecCallFails, Retry, Fail, ReturnError
<1>9. CASE ExecAnswerLost
  BY <1>2, <1>9
  DEF ExecAnswerLost, Fail, ReturnError, OwnerWrite, PhaseWrite, PatchWrite,
      SecretWrite, ReadyToSave, At
<1>10. QED
  BY <1>3, <1>4, <1>5, <1>6, <1>7, <1>8, <1>9 DEF ExecStep, ExecProgress

\* What the execution controller does to the SleepInfo.
LEMMA ExecWritesSleepInfo ==
    ASSUME TypeInv, ExecStep
    PROVE  \/ UNCHANGED sleepInfo
           \/ StatusWrite("exec")
           \/ sleepInfo' = [sleepInfo EXCEPT !.holders = HoldersAfterGet("exec")]
BY DEF ExecStep, ExecProgress, GetExecution, SetOwnerReference,
       GetSecretForExecution, ListTarget, ListFails, StartOperation, Patch,
       PatchWrite, SaveSecret, SaveStatus, UpdateExecutionStatus,
       ExecCallRefused, ExecCallFails, ExecAnswerLost, OwnerWrite, PhaseWrite,
       SecretWrite, clusterVars

\* A step of the execution controller keeps the invariant.
LEMMA ExecCopies ==
    ASSUME TypeInv, CopiesInv, ExecStep
    PROVE  CopiesInv'
<1>1. sleepInfo \in [spec : SleepInfoSpecs, cached : SleepInfoSpecs,
                     operation : {"SLEEP", "WAKE_UP", ""},
                     holders : SUBSET Holders]
  BY DEF TypeInv, TypeOK, ClusterTypeOK
<1>2. "cron" \in Workers => job'["cron"] = job["cron"]
  BY ExecLeavesCron
<1>3. CASE UNCHANGED sleepInfo
  BY <1>2, <1>3, CopiesKept
<1>4. CASE StatusWrite("exec")
  BY <1>1, <1>4, NoCopies DEF StatusWrite
<1>5. CASE sleepInfo' = [sleepInfo EXCEPT !.holders = HoldersAfterGet("exec")]
  <2>1. /\ sleepInfo'.spec = sleepInfo.spec /\ sleepInfo'.cached = sleepInfo.cached
        /\ sleepInfo'.holders = HoldersAfterGet("exec")
    BY <1>1, <1>5
  <2>2. HoldersAfterGet("exec") \subseteq sleepInfo.holders \cup {"exec"}
    BY DEF HoldersAfterGet
  <2>3. QED
    BY <1>2, <2>1, <2>2, CopiesKept
<1>6. QED
  BY <1>3, <1>4, <1>5, ExecWritesSleepInfo

\* The copies are current in every reachable state: users who edit the
\* SleepInfo make them stale, the watch and a restart renew the cache.
LEMMA CopiesInvNext == TypeInv /\ CopiesInv /\ [Next]_vars => CopiesInv'
<1> SUFFICES ASSUME TypeInv, CopiesInv, [Next]_vars PROVE CopiesInv'
  OBVIOUS
<1>1. sleepInfo \in [spec : SleepInfoSpecs, cached : SleepInfoSpecs,
                     operation : {"SLEEP", "WAKE_UP", ""},
                     holders : SUBSET Holders]
  BY DEF TypeInv, TypeOK, ClusterTypeOK
<1>2. CASE UNCHANGED <<sleepInfo, job>>
  BY <1>2, CopiesKept
<1>3. CASE EditWakeUp \/ EditTargets \/ DeleteSleepInfo
  BY <1>1, <1>3, NoCopies DEF EditWakeUp, EditTargets, DeleteSleepInfo
<1>4. CASE SyncSleepInfo /\ UNCHANGED job
  <2>1. /\ sleepInfo'.spec = sleepInfo.spec /\ sleepInfo'.cached = sleepInfo.spec
        /\ sleepInfo'.holders = sleepInfo.holders \cup {"cache"}
    BY <1>1, <1>4 DEF SyncSleepInfo
  <2>2. "cron" \in sleepInfo'.holders => "cron" \in sleepInfo.holders
    BY <2>1
  <2>3. QED
    BY <1>4, <2>1, <2>2 DEF CopiesInv, ReadFrom
<1>5. CASE Environment
  BY <1>2, <1>3, <1>4, <1>5
  DEF Environment, UserStep, EditWorkload, CollectSecret, CollectExecution,
      CreateExecution, SyncExecution, clusterVars
<1>6. CASE ManagerRestarts
  <2>1. /\ sleepInfo'.spec = sleepInfo.spec /\ sleepInfo'.cached = sleepInfo.spec
        /\ sleepInfo'.holders = {"cache"}
    BY <1>1, <1>6 DEF ManagerRestarts
  <2>2. "cron" \notin sleepInfo'.holders
    BY <2>1
  <2>3. QED
    BY <2>1, <2>2 DEF CopiesInv
<1>7. QED
  BY <1>2, <1>5, <1>6, CronCopies, ExecCopies DEF Next, vars, clusterVars

(***************************************************************************)
(* A reconcile of the SleepInfo controller enters its operation by the     *)
(* status update only.                                                     *)
(***************************************************************************)
LEMMA EntersByStatus ==
    ASSUME TypeInv, [Next]_vars, "cron" \in Workers,
           job["cron"].step = "list", job'["cron"].step = "apply"
    PROVE  StatusWrite("cron")
<1>1. job \in [Workers -> Jobs] /\ TypeOK
  BY DEF TypeInv, TypeOK
<1>2. Return("cron") => FALSE
  BY <1>1, ReturnType, IdleType
<1>3. CASE CronStep
  <2>1. ASSUME NEW t \in Targets, ListTarget("cron", t) \/ ListFails("cron", t)
        PROVE  FALSE
    BY ZenonT(60), <1>1, <2>1 DEF ListTarget, ListFails, Jobs
  <2>2. ASSUME \/ GetSecretNotDue \/ UpdateStatusRefused \/ UpsertSecret
               \/ UpsertSecretRefused \/ SleepRefused \/ CronCallFails
               \/ CronAnswerLost
        PROVE  FALSE
    BY <1>2, <2>2
    DEF GetSecretNotDue, UpdateStatusRefused, UpsertSecret, UpsertSecretRefused,
        SleepRefused, CronCallFails, CronAnswerLost, Fail, ReturnError
  <2>3. ASSUME \/ GetSleepInfo \/ GetSecret
               \/ \E w \in Workloads : Patch("cron", w)
        PROVE  FALSE
    BY <2>3 DEF GetSleepInfo, GetSecret, Patch, PatchWrite, At
  <2>4. QED
    BY <1>3, <2>1, <2>2, <2>3 DEF CronStep, CronProgress, UpdateStatus
<1>4. CASE ExecStep
  BY <1>4, ExecLeavesCron
<1>5. CASE Environment \/ UNCHANGED vars
  BY <1>5 DEF Environment, CreateExecution, SyncExecution, vars
<1>6. CASE ManagerRestarts
  BY <1>6, IdleType DEF ManagerRestarts
<1>7. QED
  BY <1>3, <1>4, <1>5, <1>6 DEF Next

(***************************************************************************)
(* Whatever is edited, fails, restarts or overlaps, a scheduled operation  *)
(* starts only from the SleepInfo as it is: the wakeUpAt that its choice   *)
(* between SLEEP and WAKE_UP used and the targets it listed are current.   *)
(***************************************************************************)
THEOREM OperationFromCurrentSpec == Spec => ScheduledFromCurrentSpec
<1> DEFINE A == \A p \in Workers \ {"exec"} :
                  job[p].step = "list" /\ job'[p].step = "apply"
                  => /\ job[p].wakeUp = sleepInfo.spec.wakeUp
                     /\ \A w \in Workloads :
                          job[p].data[w] # None
                          => TargetOf[w] \in sleepInfo.spec.targets
           I == TypeInv /\ CopiesInv
<1>1. Init => I
  <2>1. ASSUME Init PROVE CopiesInv
    <3>1. sleepInfo.cached = sleepInfo.spec
      BY <2>1 DEF Init, ClusterInit
    <3>2. "cron" \in Workers => job["cron"].step = "idle"
      BY <2>1, IdleType DEF Init
    <3>3. QED
      BY <3>1, <3>2 DEF CopiesInv
  <2>2. QED
    BY <2>1, TypeInvInit
<1>2. ASSUME I, [Next]_vars PROVE A
  <2>1. SUFFICES ASSUME "cron" \in Workers, job["cron"].step = "list",
                        job'["cron"].step = "apply"
                 PROVE  ReadFrom(job["cron"], sleepInfo.spec)
    BY WorkersAssumption DEF ReadFrom
  <2>2. "cron" \in sleepInfo.holders
    BY <1>2, <2>1, EntersByStatus DEF StatusWrite
  <2>3. QED
    BY <1>2, <2>1, <2>2 DEF CopiesInv
<1>3. I /\ [Next]_vars => I' /\ [A]_vars
  BY <1>2, TypeInvNext, CopiesInvNext
<1>4. QED
  BY <1>1, <1>3, PTL DEF Spec, ScheduledFromCurrentSpec

-----------------------------------------------------------------------------
(***************************************************************************)
(* RecordedIsNamed needs an invariant: from the status update on, until    *)
(* the Secret is written, the status names what the Secret will.           *)
(***************************************************************************)
StatusInv ==
    job["cron"].step = "apply"
    => sleepInfo.operation = IF HasResource("cron") THEN job["cron"].operation ELSE ""

\* What a step writes into the Secret, if it writes one, the status names.
RecordsNamed ==
    secret' # secret /\ secret'.exists => sleepInfo.operation = secret'.operationType

StatusStep == StatusInv' /\ RecordsNamed

\* A step that enters no operation and writes neither status nor Secret.
LEMMA StatusKept ==
    ASSUME StatusInv,
           sleepInfo'.operation = sleepInfo.operation,
           UNCHANGED secret \/ ~ secret'.exists,
           job'["cron"] = job["cron"] \/ job'["cron"].step # "apply"
    PROVE  StatusStep
BY DEF StatusStep, StatusInv, RecordsNamed, HasResource

\* The operation of the status is no part of what users and the caches change.
LEMMA OperationKept ==
    ASSUME TypeInv,
           \/ EditWakeUp \/ EditTargets \/ DeleteSleepInfo \/ SyncSleepInfo
           \/ ManagerRestarts
    PROVE  sleepInfo'.operation = sleepInfo.operation
<1>1. sleepInfo \in [spec : SleepInfoSpecs, cached : SleepInfoSpecs,
                     operation : {"SLEEP", "WAKE_UP", ""},
                     holders : SUBSET Holders]
  BY DEF TypeInv, TypeOK, ClusterTypeOK
<1>2. CASE EditWakeUp
  <2> DEFINE spec == [sleepInfo.spec EXCEPT !.wakeUp = ~ @]
  <2>1. sleepInfo' = [sleepInfo EXCEPT !.spec = spec, !.holders = {}]
    BY <1>1, <1>2 DEF EditWakeUp
  <2> HIDE DEF spec
  <2>2. QED
    BY <1>1, <2>1
<1>3. CASE EditTargets
  BY <1>1, <1>3 DEF EditTargets
<1>4. CASE DeleteSleepInfo
  BY <1>1, <1>4 DEF DeleteSleepInfo
<1>5. CASE SyncSleepInfo
  BY <1>1, <1>5 DEF SyncSleepInfo
<1>6. CASE ManagerRestarts
  BY <1>1, <1>6 DEF ManagerRestarts
<1>7. QED
  BY <1>2, <1>3, <1>4, <1>5, <1>6

\* A step of the SleepInfo controller.
LEMMA CronStatus ==
    ASSUME Workers = {"cron"}, TypeInv, StatusInv, CronStep
    PROVE  StatusStep
<1>1. /\ job \in [Workers -> Jobs] /\ TypeOK /\ "cron" \in Workers
      /\ job["cron"] \in Jobs
      /\ sleepInfo \in [spec : SleepInfoSpecs, cached : SleepInfoSpecs,
                        operation : {"SLEEP", "WAKE_UP", ""},
                        holders : SUBSET Holders]
  BY DEF TypeInv, TypeOK, ClusterTypeOK
<1>2. ASSUME Return("cron")
      PROVE  job'["cron"].step = "idle"
  BY <1>1, <1>2, ReturnType, IdleType
<1>3. CASE GetSleepInfo
  <2>1. job'["cron"].step = "secret"
    BY <1>1, <1>3, IdleType DEF GetSleepInfo, Jobs
  <2>2. sleepInfo'.operation = sleepInfo.operation /\ UNCHANGED secret
    BY <1>1, <1>3 DEF GetSleepInfo
  <2>3. QED
    BY <2>1, <2>2, StatusKept
<1>4. CASE GetSecret
  <2> DEFINE operation == CurrentOperation(secret.operationType,
                                           job["cron"].wakeUp)
             j == [job["cron"] EXCEPT !.step = "list", !.operation = operation,
                                      !.hadSecret = secret.exists,
                                      !.restorePatches = secret.original]
  <2>1. job' = [job EXCEPT !["cron"] = j] /\ UNCHANGED <<sleepInfo, secret>>
    BY <1>4 DEF GetSecret, clusterVars
  <2> HIDE DEF operation
  <2>2. j.step = "list"
    BY <1>1 DEF Jobs
  <2> HIDE DEF j
  <2>3. job'["cron"] = j
    BY <1>1, <2>1
  <2>4. QED
    BY <2>1, <2>2, <2>3, StatusKept
<1>5. ASSUME Return("cron"), UNCHANGED clusterVars
      PROVE  StatusStep
  BY <1>2, <1>5, StatusKept DEF clusterVars
<1>6. CASE \/ GetSecretNotDue \/ UpdateStatusRefused \/ UpsertSecretRefused
           \/ SleepRefused \/ CronCallFails
  BY <1>5, <1>6
  DEF GetSecretNotDue, UpdateStatusRefused, UpsertSecretRefused, SleepRefused,
      CronCallFails, Fail, ReturnError
<1>7. CASE \E t \in Targets : ListTarget("cron", t) \/ ListFails("cron", t)
  <2>1. PICK t \in Targets : ListTarget("cron", t) \/ ListFails("cron", t)
    BY <1>7
  <2>2. job["cron"].step = "list" /\ UNCHANGED <<sleepInfo, secret>>
    BY <2>1 DEF ListTarget, ListFails, At, clusterVars
  <2>3. job'["cron"].step = "list"
    BY ZenonT(60), <1>1, <2>1, <2>2 DEF ListTarget, ListFails, Jobs
  <2>4. QED
    BY <2>2, <2>3, StatusKept
<1>8. CASE UpdateStatus
  <2>1. UNCHANGED secret /\ job' = [job EXCEPT !["cron"] = Applying("cron")]
    BY <1>8 DEF UpdateStatus, StatusWrite
  <2>2. sleepInfo'.operation = IF HasResource("cron") THEN job["cron"].operation
                                                      ELSE ""
    BY <1>1, <1>8 DEF UpdateStatus, StatusWrite
  <2>3. /\ job'["cron"].operation = job["cron"].operation
        /\ job'["cron"].data = job["cron"].data
    BY <1>1, <2>1 DEF Applying, Jobs
  <2>4. HasResource("cron")' = HasResource("cron")
    BY <2>3 DEF HasResource
  <2>5. QED
    BY <2>1, <2>2, <2>3, <2>4 DEF StatusStep, StatusInv, RecordsNamed
<1>9. CASE \E w \in Workloads : Patch("cron", w)
  <2>1. PICK w \in Workloads : Patch("cron", w)
    BY <1>9
  <2>2. /\ job["cron"].step = "apply" /\ UNCHANGED <<sleepInfo, secret>>
        /\ job' = [job EXCEPT
             !["cron"].toPatch = @ \ {w},
             !["cron"].restorePatches[w] =
                 IF job["cron"].operation = "SLEEP" THEN job["cron"].data[w] ELSE @]
    BY <2>1 DEF Patch, PatchWrite, At
  <2>3. /\ job'["cron"].operation = job["cron"].operation
        /\ job'["cron"].data = job["cron"].data
    BY <1>1, <2>2 DEF Jobs
  <2>4. HasResource("cron")' = HasResource("cron")
    BY <2>3 DEF HasResource
  <2>5. QED
    BY <2>2, <2>3, <2>4 DEF StatusStep, StatusInv, RecordsNamed
<1>10. ASSUME SecretWrite("cron"), Return("cron")
       PROVE  StatusStep
  <2>1. /\ job["cron"].step = "apply" /\ job'["cron"].step = "idle"
        /\ secret' = NewSecret("cron")
    BY <1>2, <1>10 DEF SecretWrite, ReadyToSave, At
  <2>2. secret'.operationType = IF HasResource("cron") THEN job["cron"].operation
                                                       ELSE ""
    BY <2>1 DEF NewSecret
  <2>3. QED
    BY <2>1, <2>2 DEF StatusStep, StatusInv, RecordsNamed
<1>11. CASE UpsertSecret
  BY <1>10, <1>11 DEF UpsertSecret
<1>12. CASE CronAnswerLost
  <2>1. Return("cron")
    BY <1>12 DEF CronAnswerLost, Fail, ReturnError
  <2>2. CASE SecretWrite("cron")
    BY <1>10, <2>1, <2>2
  <2>3. CASE UNCHANGED secret
    BY <1>2, <2>1, <2>3 DEF StatusStep, StatusInv, RecordsNamed
  <2>4. QED
    BY <1>12, <2>2, <2>3 DEF CronAnswerLost, StatusWrite, PatchWrite
<1>13. QED
  BY <1>3, <1>4, <1>6, <1>7, <1>8, <1>9, <1>11, <1>12 DEF CronStep, CronProgress

\* Every step: users may edit or delete the SleepInfo at any point.
LEMMA StatusInvNext ==
    ASSUME Workers = {"cron"}
    PROVE  TypeInv /\ StatusInv /\ [Next]_vars => StatusStep
<1> SUFFICES ASSUME TypeInv, StatusInv, [Next]_vars PROVE StatusStep
  OBVIOUS
<1>1. CASE UNCHANGED <<sleepInfo, job, secret>>
  BY <1>1, StatusKept
<1>2. CASE /\ EditWakeUp \/ EditTargets \/ DeleteSleepInfo \/ SyncSleepInfo
           /\ UNCHANGED job
  <2>1. UNCHANGED secret
    BY <1>2 DEF EditWakeUp, EditTargets, DeleteSleepInfo, SyncSleepInfo
  <2>2. QED
    BY <1>2, <2>1, OperationKept, StatusKept
<1>3. CASE CollectSecret /\ UNCHANGED job
  BY <1>3, StatusKept DEF CollectSecret, NoSecret
<1>4. CASE Environment
  BY <1>1, <1>2, <1>3, <1>4
  DEF Environment, UserStep, EditWorkload, CollectExecution, CreateExecution,
      SyncExecution, clusterVars
<1>5. CASE ManagerRestarts
  <2>1. job'["cron"].step = "idle" /\ UNCHANGED secret
    BY <1>5, IdleType DEF ManagerRestarts
  <2>2. QED
    BY <1>5, <2>1, OperationKept, StatusKept
<1>6. ~ ExecStep
  BY DEF ExecStep, ExecProgress, GetExecution, SetOwnerReference,
    GetSecretForExecution, ListTarget, ListFails, StartOperation, Patch,
    PatchWrite, PatchRefused, SaveSecret, SaveStatus, UpdateExecutionStatus,
    ExecCallRefused, ExecCallFails, ExecAnswerLost, OwnerWrite, PhaseWrite,
    SecretWrite, SecretRefused, ReadyToSave, Listed, At
<1>7. QED
  BY <1>1, <1>4, <1>5, <1>6, CronStatus DEF Next, vars, clusterVars

(***************************************************************************)
(* Without executions, the Secret never records a scheduled operation that *)
(* the status does not name: for all workloads, whatever users edit or     *)
(* delete, whatever call or list fails, and whenever the manager restarts. *)
(***************************************************************************)
THEOREM StatusNamesOperation ==
    ASSUME Workers = {"cron"} PROVE Spec => RecordedIsNamed
<1> DEFINE I == TypeInv /\ StatusInv
<1>1. Init => I
  <2>1. ASSUME Init PROVE StatusInv
    BY <2>1, IdleType DEF Init, StatusInv
  <2>2. QED
    BY <2>1, TypeInvInit
<1>2. I /\ [Next]_vars => I' /\ [RecordsNamed]_vars
  BY TypeInvNext, StatusInvNext DEF StatusStep
<1>3. QED
  BY <1>1, <1>2, PTL DEF Spec, RecordedIsNamed, RecordsNamed

=============================================================================
