----------------------------- MODULE KubeGreen ------------------------------
(***************************************************************************)
(* The two controllers of the manager over one SleepInfo and its           *)
(* executions, with the users of the namespace, API calls that fail and    *)
(* restarts of the manager.                                                *)
(***************************************************************************)
EXTENDS SleepInfoReconciler, ExecutionReconciler

vars == <<clusterVars, job, faults, lost, execVars>>

Init ==
    /\ ClusterInit
    /\ job = [p \in Workers |-> Idle]
    /\ faults = 0
    /\ lost = {}
    /\ ExecInit

\* The process ends at any point and a new one starts: the reconciles in
\* progress and the queues are lost, the first list fills cache and queue.
ManagerRestarts ==
    /\ Fault("restart")
    /\ job' = [p \in Workers |-> Idle]
    /\ lost' = lost \cup UNION {Unsaved(p, job[p].toPatch) : p \in Workers}
    /\ queue' = {e \in Executions : execution[e].exists}
    /\ cache' = execution
    /\ sleepInfo' = [sleepInfo EXCEPT !.cached = sleepInfo.spec,
                                      !.holders = {"cache"}]
    /\ UNCHANGED <<workload, secret, execution, before, performed>>

Environment ==
    \/ (UserStep \/ SyncSleepInfo) /\ UNCHANGED <<job, faults, lost, execVars>>
    \/ \E e \in Executions : CreateExecution(e) \/ SyncExecution(e)

Next ==
    \/ CronStep /\ UNCHANGED execVars
    \/ ExecStep
    \/ Environment
    \/ ManagerRestarts

Spec == Init /\ [][Next]_vars

(***************************************************************************)
(* Weak fairness of what goes on by itself: the worker of the execution    *)
(* controller, whose failed keys the rate limiter brings back, the watches *)
(* behind the cache, one for each kind, and the garbage collector.         *)
(* Nothing is assumed of users, of the SleepInfo controller or of failures.*)
(***************************************************************************)
FairSpec ==
    /\ Spec
    /\ WF_vars(ExecProgress)
    /\ WF_vars(SyncSleepInfo /\ UNCHANGED <<job, faults, lost, execVars>>)
    /\ WF_vars(CollectSecret /\ UNCHANGED <<job, faults, lost, execVars>>)
    /\ WF_vars(\E e \in Executions : SyncExecution(e))

-----------------------------------------------------------------------------
\* Type invariant.
TypeOK ==
    /\ ClusterTypeOK
    /\ job \in [Workers -> Jobs]
    /\ faults \in 0 .. MaxFaults
    /\ lost \subseteq Workloads
    /\ ExecTypeOK

(***************************************************************************)
(* The stored original state is never the scaled-down one: Sleep skips a   *)
(* resource its patch does not change instead of saving an empty restore   *)
(* patch for it.  This holds whatever fails, restarts or overlaps.         *)
(***************************************************************************)
OriginalsNotAsleep ==
    \A w \in Workloads :
        /\ secret.original[w] # SleepValue
        /\ \A p \in Workers : job[p].restorePatches[w] # SleepValue

\* The value that kube-green replaced by SleepValue, unless the Sleep that did
\* so failed.
Remembered == [w \in Workloads |-> IF w \in lost THEN None ELSE before[w]]

\* What the sleeps in progress have patched.
Pending == UNION {Unsaved(p, job[p].toPatch) : p \in Workers}

UsersEdit == "workload" \in UserEdits

\* A Sleep fails with a call, with its process, or by the deletion of a
\* workload that it listed.
SleepsFail == UsersEdit \/ FaultKinds # {}

Cycle == INSTANCE SleepCycle WITH value <- workload, remembered <- Remembered,
                                  pending <- Pending, progress <- job

(***************************************************************************)
(* A controller that runs alone, and whose lists do not fail, implements   *)
(* the promise of SleepCycle: Sleep and WakeUp, split at their API calls,  *)
(* with restore patches that travel from the list to the Secret and back,  *)
(* restore exactly the value that was replaced.  A Sleep that fails, or    *)
(* ends with its process, costs the originals of what it patched, never    *)
(* one that an earlier Sleep saved.  Only a step that leaves every         *)
(* reconcile where it is may pass for one of a user.                       *)
(***************************************************************************)
ImplementsSleepCycle == Cycle!Spec

\* No reconcile is in progress.
Quiet == \A p \in Workers : job[p].step = "idle"

\* The reconcile of p is putting resources to sleep and has not yet saved.
Saving(p, w) ==
    /\ job[p].step = "apply"
    /\ job[p].operation = "SLEEP"
    /\ job[p].restorePatches[w] = before[w]

(***************************************************************************)
(* A workload that kube-green put to sleep, and that nobody changed since, *)
(* can be woken up: the Secret holds the value it had, or the reconcile    *)
(* that put it to sleep is about to save it (Sleep, GetOriginalInfoToSave, *)
(* upsertSecret).  The exception are the workloads that a Sleep patched    *)
(* before it failed: its restore patches went with it, those of earlier    *)
(* sleeps did not.                                                         *)
(***************************************************************************)
RestoreDataKept ==
    \A w \in Workloads :
        Remembered[w] # None => \/ secret.original[w] = before[w]
                                \/ \E p \in Workers : Saving(p, w)

(***************************************************************************)
(* The operation-type key of the Secret is SLEEP whenever kube-green left a *)
(* workload asleep and no reconcile is in progress: the guards of the      *)
(* execution controller and the choice of the next operation trust it.     *)
(* Again this leaves out what a Sleep patched before it failed.            *)
(***************************************************************************)
AsleepIsRecorded ==
    Quiet => \A w \in Workloads :
               Remembered[w] # None => secret.operationType = "SLEEP"

(***************************************************************************)
(* A recorded wake up left nothing asleep: "The operation-type key of the  *)
(* secret is the source of truth about the namespace state"                *)
(* (sleepinfoexecution_controller.go).                                     *)
(***************************************************************************)
WakeUpIsComplete ==
    Quiet /\ secret.operationType = "WAKE_UP"
    => \A w \in Workloads : before[w] = None

(***************************************************************************)
(* Once a sleep is recorded and no reconcile is in progress, "original     *)
(* state is stored to restore later" (sleepinfoexecution_test.go).         *)
(***************************************************************************)
SleepStoresOriginals ==
    Quiet /\ secret.operationType = "SLEEP"
    => \A w \in Workloads : before[w] # None => secret.original[w] = before[w]

(***************************************************************************)
(* The Secret never records a scheduled operation that the status of the   *)
(* SleepInfo does not name.  Reconcile writes the status first; when it    *)
(* fails in between the two differ, but only until the next operation is   *)
(* recorded, whatever was edited, failed or restarted meanwhile.           *)
(***************************************************************************)
RecordedIsNamed ==
    [][secret' # secret /\ secret'.exists
       => sleepInfo.operation = secret'.operationType]_vars

(***************************************************************************)
(* An execution leaves its terminal phase in no circumstance: neither a    *)
(* stale read from the cache nor a retry after a lost answer rewrites it.  *)
(***************************************************************************)
PhaseIsFinal ==
    [][\A e \in Executions :
         IsProcessed(execution[e]) => execution'[e].phase = execution[e].phase]_vars

\* A Skipped execution did nothing: "the operation was a no-op".
SkippedIsNoOp ==
    \A e \in Executions : execution[e].phase = "Skipped" => e \notin performed

(***************************************************************************)
(* A scheduled operation starts only from the SleepInfo as it is: the      *)
(* update of the status, which Reconcile makes before the operation, fails *)
(* when the SleepInfo was edited after the copy in the cache.              *)
(***************************************************************************)
ScheduledFromCurrentSpec ==
    [][\A p \in Workers \ {"exec"} :
         job[p].step = "list" /\ job'[p].step = "apply"
         => /\ job[p].wakeUp = sleepInfo.spec.wakeUp
            /\ \A w \in Workloads :
                 job[p].data[w] # None => TargetOf[w] \in sleepInfo.spec.targets]_vars

(***************************************************************************)
(* Again and again there is no execution without a terminal phase, so that *)
(* each one ends: failures are retried, and stale reads end with the next  *)
(* watch event.                                                            *)
(***************************************************************************)
ExecutionsEnd ==
    []<>(\A e \in Executions :
           execution[e].exists => IsProcessed(execution[e]))

(***************************************************************************)
(* Once the SleepInfo is deleted its Secret goes for good: a reconcile     *)
(* that was in progress may still create or update it, but with an owner   *)
(* reference, and no reconcile starts any more.                            *)
(***************************************************************************)
SecretIsCollected == (~ sleepInfo.spec.exists) ~> [](~ secret.exists)

=============================================================================
