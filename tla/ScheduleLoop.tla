---------------------------- MODULE ScheduleLoop ----------------------------
(***************************************************************************)
(* The requeue loop of one SleepInfo in time: SleepInfoReconciler.Reconcile *)
(* driven by its work queue (controller-runtime, external).  A reconcile is *)
(* one step here, reading the clock once as the code does; module          *)
(* SleepInfoReconciler has the same handler split at its API calls, without *)
(* the clock.                                                              *)
(***************************************************************************)
EXTENDS Schedule

CONSTANTS
    SleepAt,        \* the cron schedule of sleepAt
    WakeUpAt,       \* the cron schedule of wakeUpAt, or NoSchedule
    StartTimes,     \* the instants at which the SleepInfo may be created
    MaxTime,        \* bound: the clock stops here
    MaxLag,         \* how late a worker may pick up a key of the queue
    MaxBackoff,     \* how long the rate limiter may delay a failed key
    MaxErrors,      \* bound: reconciles that end in an error
    ResourcesVary,  \* whether the managed resources come and go
    OnDemand,       \* whether SleepInfoExecutions are created
    Restarts        \* whether the manager stops and starts again

ASSUME LoopAssumption ==
    /\ SleepAt \in CronSchedules
    /\ WakeUpAt \in CronSchedules \cup {NoSchedule}
    /\ StartTimes \subseteq Nat
    /\ MaxTime \in Nat /\ MaxLag \in Nat
    /\ MaxBackoff \in Nat /\ MaxErrors \in Nat
    /\ ResourcesVary \in BOOLEAN /\ OnDemand \in BOOLEAN /\ Restarts \in BOOLEAN

VARIABLES
    now,             \* the clock
    running,         \* the manager is up
    queuedAt,        \* when the key was added to the work queue, or NoTime
    due,             \* the earliest pending AddAfter of the key, or NoTime
    secret,          \* what the Secret sleepinfo-<name> holds
    hasResource,     \* the namespace holds resources to manage
    errors,          \* reconciles that failed so far
    upAtTick,        \* history: the manager is up since before the last tick
    resourcesAtTick  \* history: there are resources since before the window
                     \* of the last sleep tick opened

vars == <<now, running, queuedAt, due, secret, hasResource, errors,
          upAtTick, resourcesAtTick>>

NoTime == -1

NoSecret == [exists |-> FALSE, scheduledAt |-> ZeroTime,
             operationType |-> NoOperation]

Init ==
    /\ now \in StartTimes
    /\ running = TRUE
    /\ queuedAt = now
    /\ due = NoTime
    /\ secret = NoSecret
    /\ hasResource \in IF ResourcesVary THEN BOOLEAN ELSE {TRUE}
    /\ errors = 0
    /\ upAtTick = FALSE
    /\ resourcesAtTick = FALSE

-----------------------------------------------------------------------------
(***************************************************************************)
(* The work queue.  AddAfter keeps the earlier of two pending timers of a  *)
(* key; a result whose RequeueAfter is not positive sets no timer at all.  *)
(***************************************************************************)
TimerFired == due # NoTime /\ due <= now

\* A worker takes the key: its fired timer and its queue entry are one item.
Dequeue ==
    /\ running
    /\ queuedAt # NoTime \/ TimerFired
    /\ queuedAt' = NoTime

AddAfter(requeueAfter) ==
    LET pending == IF TimerFired THEN NoTime ELSE due
        timer == now + requeueAfter
    IN  due' = IF requeueAfter <= 0 \/ (pending # NoTime /\ pending < timer)
               THEN pending
               ELSE timer

\* The queue is served within MaxLag.
OnTime ==
    running => /\ queuedAt # NoTime => now < queuedAt + MaxLag
               /\ due # NoTime => now < due + MaxLag

Advance ==
    /\ now < MaxTime
    /\ OnTime
    /\ now' = now + 1
    /\ upAtTick' = IF IsTick(SleepAt \cup WakeUpAt, now') THEN running
                                                          ELSE upAtTick
    /\ resourcesAtTick' = IF IsTick(SleepAt, now' + ScheduleDelta)
                          THEN hasResource ELSE resourcesAtTick
    /\ UNCHANGED <<running, queuedAt, due, secret, hasResource, errors>>

\* The SleepInfo is updated: GenerationChangedPredicate lets the event pass.
SleepInfoEvent ==
    /\ running
    /\ queuedAt = NoTime
    /\ queuedAt' = now
    /\ UNCHANGED <<now, running, due, secret, hasResource, errors,
                   upAtTick, resourcesAtTick>>

-----------------------------------------------------------------------------
Data == GetSleepInfoData(secret, SleepAt, WakeUpAt)

Decision == GetNextSchedule(Data, now)

\* upsertSecret: a Secret built from nothing each time.
UpsertSecret(operationType) ==
    secret' = [exists |-> TRUE, scheduledAt |-> FormatRFC3339(now),
               operationType |-> operationType]

ReconcileNotDue ==
    /\ Dequeue
    /\ ~ Decision.isToExecute
    /\ AddAfter(Decision.requeueAfter)
    /\ UNCHANGED <<now, running, secret, hasResource, errors, upAtTick,
                   resourcesAtTick>>

ReconcileOperation ==
    /\ Dequeue
    /\ Decision.isToExecute
    /\ hasResource
    /\ UpsertSecret(Data.CurrentOperationType)
    /\ AddAfter(Decision.requeueAfter)
    /\ UNCHANGED <<now, running, hasResource, errors, upAtTick, resourcesAtTick>>

ReconcileNoResource ==
    /\ Dequeue
    /\ Decision.isToExecute
    /\ ~ hasResource
    /\ UpsertSecret(NoOperation)
    /\ AddAfter(IF Data.CurrentOperationType = "SLEEP"
                THEN SkipWakeUpIfSleepNotPerformed(
                        Data.CurrentOperationSchedule, Decision.nextSchedule, now)
                ELSE Decision.requeueAfter)
    /\ UNCHANGED <<now, running, hasResource, errors, upAtTick, resourcesAtTick>>

\* An API call of the handler fails before the Secret is written: the error,
\* or Requeue, puts the key back through the rate limiter.
ReconcileError ==
    /\ errors < MaxErrors
    /\ Dequeue
    /\ errors' = errors + 1
    /\ \E backoff \in 1 .. MaxBackoff : AddAfter(backoff)
    /\ UNCHANGED <<now, running, secret, hasResource, upAtTick, resourcesAtTick>>

\* The Secret is written and the answer of that call is lost: upsertSecret
\* returns an error, and the key comes back through the rate limiter.
UpsertAnswerLost ==
    /\ errors < MaxErrors
    /\ Dequeue
    /\ Decision.isToExecute
    /\ UpsertSecret(IF hasResource THEN Data.CurrentOperationType
                                   ELSE NoOperation)
    /\ errors' = errors + 1
    /\ \E backoff \in 1 .. MaxBackoff : AddAfter(backoff)
    /\ UNCHANGED <<now, running, hasResource, upAtTick, resourcesAtTick>>

\* SleepInfoExecutionReconciler.Reconcile, as far as the loop can see it: the
\* Secret changes and the timer of the SleepInfo does not.
Execution(operation) ==
    /\ OnDemand
    /\ running
    /\ hasResource
    /\ IF operation = "SLEEP"
       THEN secret.operationType # "SLEEP"
       ELSE secret.operationType = "SLEEP" /\ WakeUpAt # NoSchedule
    /\ UpsertSecret(operation)
    /\ UNCHANGED <<now, running, queuedAt, due, hasResource, errors, upAtTick,
                   resourcesAtTick>>

-----------------------------------------------------------------------------
\* The queue and its timers live in memory.
ManagerStops ==
    /\ Restarts
    /\ running
    /\ running' = FALSE
    /\ queuedAt' = NoTime
    /\ due' = NoTime
    /\ upAtTick' = FALSE
    /\ UNCHANGED <<now, secret, hasResource, errors, resourcesAtTick>>

\* The first list of the informer enqueues every SleepInfo.
ManagerStarts ==
    /\ ~ running
    /\ running' = TRUE
    /\ queuedAt' = now
    /\ UNCHANGED <<now, due, secret, hasResource, errors, upAtTick,
                   resourcesAtTick>>

ResourcesChange ==
    /\ ResourcesVary
    /\ hasResource' = ~ hasResource
    /\ resourcesAtTick' = FALSE
    /\ UNCHANGED <<now, running, queuedAt, due, secret, errors, upAtTick>>

Next ==
    \/ Advance
    \/ SleepInfoEvent
    \/ ReconcileNotDue
    \/ ReconcileOperation
    \/ ReconcileNoResource
    \/ ReconcileError
    \/ UpsertAnswerLost
    \/ \E operation \in Operations : Execution(operation)
    \/ ManagerStops
    \/ ManagerStarts
    \/ ResourcesChange

Spec == Init /\ [][Next]_vars

-----------------------------------------------------------------------------
\* Type invariant.
TypeOK ==
    /\ now \in Nat
    /\ running \in BOOLEAN
    /\ queuedAt \in Nat \cup {NoTime}
    /\ due \in Nat \cup {NoTime}
    /\ secret \in [exists : BOOLEAN, scheduledAt : Int,
                   operationType : Operations \cup {NoOperation}]
    /\ hasResource \in BOOLEAN
    /\ errors \in Nat
    /\ upAtTick \in BOOLEAN
    /\ resourcesAtTick \in BOOLEAN

(***************************************************************************)
(* The loop never stops by itself: while the manager runs, the key of the  *)
(* SleepInfo is in the queue or has a timer.  Reconcile hands RequeueAfter *)
(* to the queue on every path, and a value that is not positive would set  *)
(* no timer: the SleepInfo would be dead until its spec changes.           *)
(***************************************************************************)
NeverStalls == running => queuedAt # NoTime \/ due # NoTime

LastTick(sched) ==
    CHOOSE t \in (now - Second * Period + 1) .. now :
        IsTick(sched, t) /\ \A u \in (t + 1) .. now : ~ IsTick(sched, u)

\* sched fired at least the delta ago, the manager is up since before, and
\* no other tick came since then or is near enough to be served early.
Settled(sched) ==
    LET tick == LastTick(sched)
    IN  /\ upAtTick
        /\ tick + ScheduleDelta <= now
        /\ \A t \in (tick + 1) .. (now + ScheduleDelta) :
              ~ IsTick(SleepAt \cup WakeUpAt, t)

(***************************************************************************)
(* A sleep tick is served within the delta: with the manager up and        *)
(* resources present since before the tick could be served, the namespace  *)
(* is asleep once the delta has passed, whatever events, failed reconciles *)
(* and earlier nights without resources came before (Reconcile with        *)
(* getNextSchedule and skipWakeUpIfSleepNotPerformed).                     *)
(***************************************************************************)
AsleepWhenDue ==
    WakeUpAt # NoSchedule /\ Settled(SleepAt) /\ resourcesAtTick
    => secret.operationType = "SLEEP"

(***************************************************************************)
(* A wake-up tick is served within the delta: what was asleep before the   *)
(* tick is not asleep any more (Reconcile: the timer that follows a sleep  *)
(* is set for the wake up).                                                *)
(***************************************************************************)
AwakeWhenDue ==
    /\ WakeUpAt # NoSchedule
    /\ Settled(WakeUpAt)
    /\ secret.scheduledAt < LastTick(WakeUpAt) - ScheduleDelta
    => secret.operationType # "SLEEP"

(***************************************************************************)
(* Without wakeUpAt the resources are put to sleep again at every sleep    *)
(* tick (Reconcile with NextOperationSchedule = sleepAt).                  *)
(***************************************************************************)
SleepsEveryNight ==
    WakeUpAt = NoSchedule /\ Settled(SleepAt) /\ resourcesAtTick
    => /\ secret.operationType = "SLEEP"
       /\ secret.scheduledAt >= LastTick(SleepAt) - ScheduleDelta

(***************************************************************************)
(* Every scheduled operation serves a tick of its own schedule, within the *)
(* delta and after the instant the Secret recorded for the last operation: *)
(* a tick that was served at or after its instant is not served again by a *)
(* later event or a timer left over (getNextSchedule with LastSchedule).   *)
(***************************************************************************)
TickNotRepeated ==
    [][ReconcileOperation /\ secret.exists
       => \E tick \in (now - ScheduleDelta) .. (now + ScheduleDelta) :
            /\ IsTick(Data.CurrentOperationSchedule, tick)
            /\ secret.scheduledAt < tick]_vars

=============================================================================
