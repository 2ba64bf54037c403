------------------------ MODULE SleepInfoReconciler -------------------------
(***************************************************************************)
(* SleepInfoReconciler.Reconcile, the scheduled operations, one step per   *)
(* API call.  When a tick is due is the subject of module ScheduleLoop:    *)
(* here getNextSchedule may answer either way, and the key may be dequeued *)
(* at any time, by a timer, an event or the retry of an error.             *)
(***************************************************************************)
EXTENDS ManagedResources, SleepInfoData

\* getSleepInfo.  A SleepInfo that is not found ends the reconcile.
GetSleepInfo ==
    /\ At("cron", "idle")
    /\ sleepInfo.cached.exists
    /\ sleepInfo' = [sleepInfo EXCEPT !.holders = HoldersAfterGet("cron")]
    /\ job' = [job EXCEPT !["cron"] =
         [Idle EXCEPT !.step = "secret", !.wakeUp = sleepInfo.cached.wakeUp,
                      !.toList = sleepInfo.cached.targets]]
    /\ UNCHANGED <<workload, secret, execution, before, faults, lost>>

\* getSecret and getSleepInfoData; the tick is due.
GetSecret ==
    /\ At("cron", "secret")
    /\ job' = [job EXCEPT !["cron"] =
         [@ EXCEPT !.step = "list",
                   !.operation = CurrentOperation(secret.operationType,
                                                  job["cron"].wakeUp),
                   !.hadSecret = secret.exists,
                   !.restorePatches = secret.original]]
    /\ UNCHANGED <<clusterVars, faults, lost>>

\* The same; no tick is due, and the handler returns RequeueAfter.
GetSecretNotDue ==
    /\ At("cron", "secret")
    /\ Return("cron")
    /\ UNCHANGED <<clusterVars, faults, lost>>

\* handleSleepInfoStatus comes before the operation.
UpdateStatus ==
    /\ Listed("cron")
    /\ StatusWrite("cron")
    /\ job' = [job EXCEPT !["cron"] = Applying("cron")]
    /\ UNCHANGED <<faults, lost>>

UpdateStatusRefused ==
    /\ Listed("cron")
    /\ StatusRefused("cron")
    /\ Fail("cron")
    /\ UNCHANGED <<clusterVars, faults>>

UpsertSecret ==
    /\ SecretWrite("cron")
    /\ Return("cron")
    /\ UNCHANGED <<faults, lost>>

UpsertSecretRefused ==
    /\ SecretRefused("cron")
    /\ Fail("cron")
    /\ UNCHANGED <<clusterVars, faults>>

SleepRefused ==
    /\ \E w \in Workloads : PatchRefused("cron", w)
    /\ Fail("cron")
    /\ UNCHANGED <<clusterVars, faults>>

\* One of the calls fails before it reaches the API server: every error makes
\* the handler return and the key go back to the queue.
CronCallFails ==
    /\ "cron" \in Workers
    /\ job["cron"].step # "idle"
    /\ Fault("call")
    /\ Fail("cron")
    /\ UNCHANGED clusterVars

\* The API server performs a write and the answer is lost.
CronAnswerLost ==
    /\ \/ /\ Listed("cron") /\ StatusWrite("cron")
          /\ Fail("cron")
       \/ \E w \in Workloads :
            /\ PatchWrite("cron", w)
            /\ ReturnError("cron", job["cron"].toPatch \ {w})
       \/ /\ SecretWrite("cron")
          /\ Return("cron")
          /\ UNCHANGED lost
    /\ Fault("answer")

\* What a reconcile in progress does when nothing fails.
CronProgress ==
    \/ GetSecret
    \/ GetSecretNotDue
    \/ \E t \in Targets : ListTarget("cron", t)
    \/ UpdateStatus
    \/ UpdateStatusRefused
    \/ \E w \in Workloads : Patch("cron", w)
    \/ UpsertSecret
    \/ UpsertSecretRefused
    \/ SleepRefused

CronStep ==
    \/ GetSleepInfo
    \/ CronProgress
    \/ \E t \in Targets : ListFails("cron", t)
    \/ CronCallFails
    \/ CronAnswerLost

=============================================================================
