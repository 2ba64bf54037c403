------------------------ MODULE ExecutionReconciler -------------------------
(***************************************************************************)
(* SleepInfoExecutionReconciler.Reconcile, the operations on demand, one   *)
(* step per API call.                                                      *)
(***************************************************************************)
EXTENDS ManagedResources, SleepInfoData

VARIABLES
    queue,      \* the executions in the work queue, retries included
    cache,      \* the executions as the informer cache shows them
    performed   \* history: executions whose operation reached the Secret

execVars == <<queue, cache, performed>>

ExecTypeOK ==
    /\ queue \subseteq Executions
    /\ cache \in [Executions -> ExecutionObjects]
    /\ performed \subseteq Executions

ExecInit ==
    /\ queue = {}
    /\ cache = [e \in Executions |-> NoExecution]
    /\ performed = {}

Current == job["exec"].execution

\* A user creates an execution: the only event GenerationChangedPredicate lets
\* pass, since the spec is immutable.
CreateExecution(e) ==
    /\ execution[e] = NoExecution
    /\ cache[e] = NoExecution
    /\ e \notin queue
    /\ execution' = [execution EXCEPT ![e].exists = TRUE]
    /\ cache' = [cache EXCEPT ![e] = execution'[e]]
    /\ queue' = queue \cup {e}
    /\ UNCHANGED <<workload, sleepInfo, secret, before, job, faults, lost, performed>>

SyncExecution(e) ==
    /\ cache[e] # execution[e]
    /\ cache' = [cache EXCEPT ![e] = execution[e]]
    /\ UNCHANGED <<clusterVars, job, faults, lost, queue, performed>>

\* Variant: the error is swallowed.
RetryForgets ==
    /\ Fail("exec")
    /\ UNCHANGED execVars

\* The handler returns an error: the key goes back through the rate limiter.
Retry ==
    /\ Fail("exec")
    /\ queue' = queue \cup {Current}
    /\ UNCHANGED <<cache, performed>>

-----------------------------------------------------------------------------
\* The execution and its SleepInfo are read from the cache.
GetExecution(e) ==
    LET seen == cache[e]
        spec == sleepInfo.cached
        step == IF ~ spec.exists THEN "phase"
                ELSE IF seen.owned THEN "secret" ELSE "owner"
    IN  /\ At("exec", "idle")
        /\ e \in queue
        /\ queue' = queue \ {e}
        /\ IF seen.exists /\ ~ IsProcessed(seen)
           THEN /\ job' = [job EXCEPT !["exec"] =
                     [Idle EXCEPT
                        !.step = step, !.execution = e, !.seen = seen,
                        !.operation = OperationOf[e],
                        !.wakeUp = spec.wakeUp,
                        !.toList = spec.targets,
                        !.phase = IF spec.exists THEN "" ELSE "Failed"]]
                /\ sleepInfo' = [sleepInfo EXCEPT
                                   !.holders = HoldersAfterGet("exec")]
           ELSE UNCHANGED <<job, sleepInfo>>
        /\ UNCHANGED <<workload, secret, execution, before, faults, lost,
                       cache, performed>>

\* Variant: the update carries no resourceVersion.
HoldsAlways == TRUE

\* An update of the execution is refused unless the copy read is current.
Holds == job["exec"].seen = execution[Current]

OwnerWrite ==
    /\ At("exec", "owner")
    /\ Holds
    /\ execution' = [execution EXCEPT ![Current].owned = TRUE]
    /\ UNCHANGED <<workload, sleepInfo, secret, before>>

SetOwnerReference ==
    /\ OwnerWrite
    /\ job' = [job EXCEPT !["exec"].step = "secret",
                          !["exec"].seen = execution'[Current]]
    /\ UNCHANGED <<faults, lost, execVars>>

\* getSecret, the guards on what the Secret says and applyExecutionOverride.
GetSecretForExecution ==
    LET operation == job["exec"].operation
        isAsleep == secret.exists /\ secret.operationType = "SLEEP"
        phase == IF (operation = "SLEEP") = isAsleep THEN "Skipped"
                 ELSE IF OverrideFails(operation, job["exec"].wakeUp)
                      THEN "Failed" ELSE ""
    IN  /\ At("exec", "secret")
        /\ job' = [job EXCEPT !["exec"] =
             [@ EXCEPT !.step = IF phase = "" THEN "list" ELSE "phase",
                       !.phase = phase,
                       !.hadSecret = secret.exists,
                       !.restorePatches = secret.original]]
        /\ UNCHANGED <<clusterVars, faults, lost, execVars>>

StartOperation ==
    /\ Listed("exec")
    /\ job' = [job EXCEPT !["exec"] =
         IF HasResource("exec") THEN Applying("exec")
         ELSE [@ EXCEPT !.step = "phase", !.phase = "Skipped"]]
    /\ UNCHANGED <<clusterVars, faults, lost, execVars>>

SaveSecret ==
    /\ SecretWrite("exec")
    /\ job' = [job EXCEPT !["exec"].step = "status"]
    /\ performed' = performed \cup {Current}
    /\ UNCHANGED <<faults, lost, queue, cache>>

\* handleSleepInfoStatus comes after the operation.
SaveStatus ==
    /\ At("exec", "status")
    /\ StatusWrite("exec")
    /\ job' = [job EXCEPT !["exec"].step = "phase",
                          !["exec"].phase = "Succeeded"]
    /\ UNCHANGED <<faults, lost, execVars>>

PhaseWrite ==
    /\ At("exec", "phase")
    /\ Holds
    /\ execution' = [execution EXCEPT ![Current].phase = job["exec"].phase]
    /\ UNCHANGED <<workload, sleepInfo, secret, before>>

\* updateExecutionStatus
UpdateExecutionStatus ==
    /\ PhaseWrite
    /\ Return("exec")
    /\ UNCHANGED <<faults, lost, execVars>>

\* The API server refuses an update or a create.
ExecCallRefused ==
    /\ \/ At("exec", "owner") /\ ~ Holds
       \/ \E w \in Workloads : PatchRefused("exec", w)
       \/ SecretRefused("exec")
       \/ At("exec", "status") /\ StatusRefused("exec")
       \/ At("exec", "phase") /\ ~ Holds
    /\ Retry
    /\ UNCHANGED <<clusterVars, faults>>

\* A call fails before it reaches the API server.
ExecCallFails ==
    /\ "exec" \in Workers
    /\ job["exec"].step # "idle"
    /\ Fault("call")
    /\ Retry
    /\ UNCHANGED clusterVars

\* The API server performs a write and the answer is lost.
ExecAnswerLost ==
    /\ \/ /\ \/ OwnerWrite \/ PhaseWrite
             \/ At("exec", "status") /\ StatusWrite("exec")
          /\ Fail("exec")
          /\ UNCHANGED performed
       \/ /\ \E w \in Workloads :
               /\ PatchWrite("exec", w)
               /\ ReturnError("exec", job["exec"].toPatch \ {w})
          /\ UNCHANGED performed
       \/ /\ SecretWrite("exec")
          /\ Return("exec")
          /\ performed' = performed \cup {Current}
          /\ UNCHANGED lost
    /\ Fault("answer")
    /\ queue' = queue \cup {Current}
    /\ UNCHANGED cache

\* What the worker does when nothing fails.
ExecProgress ==
    \/ \E e \in Executions : GetExecution(e)
    \/ SetOwnerReference
    \/ GetSecretForExecution
    \/ (\E t \in Targets : ListTarget("exec", t)) /\ UNCHANGED execVars
    \/ StartOperation
    \/ (\E w \in Workloads : Patch("exec", w)) /\ UNCHANGED execVars
    \/ SaveSecret
    \/ SaveStatus
    \/ UpdateExecutionStatus
    \/ ExecCallRefused

ExecStep ==
    \/ ExecProgress
    \/ (\E t \in Targets : ListFails("exec", t)) /\ UNCHANGED execVars
    \/ ExecCallFails
    \/ ExecAnswerLost

=============================================================================
