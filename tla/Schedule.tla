------------------------------ MODULE Schedule ------------------------------
(***************************************************************************)
(* When an operation of a SleepInfo is due: the pure part of               *)
(* internal/controller/sleepinfo/{schedule,sleepinfodata,secrets}.go.      *)
(*                                                                         *)
(* Time is an integer number of milliseconds, the grain at which the code  *)
(* compares instants (isTimeInDelta).  Second is the number of those units *)
(* in a second: 1000 in the program, less in a model.                      *)
(***************************************************************************)
EXTENDS Integers, SleepInfoData

CONSTANTS
    Second,      \* time units in a second
    Period,      \* seconds after which every cron schedule repeats
    SleepDelta   \* seconds: the -sleep-delta flag

ASSUME ScheduleAssumption ==
    /\ Second \in Nat \ {0}
    /\ Period \in Nat \ {0}
    /\ SleepDelta \in Nat

(***************************************************************************)
(* A cron schedule (robfig/cron, external) is the set of the seconds of    *)
(* the period at which it fires.  The empty set is the empty string that   *)
(* GetWakeUpSchedule returns for a SleepInfo without wakeUpAt.             *)
(***************************************************************************)
NoSchedule == {}

CronSchedules == (SUBSET (0 .. Period - 1)) \ {NoSchedule}

IsTick(sched, t) == t % Second = 0 /\ (t \div Second) % Period \in sched

\* Schedule.Next: the first instant strictly after t at which sched fires.
CronNext(sched, t) ==
    CHOOSE n \in (t + 1) .. (t + Second * Period) :
        /\ IsTick(sched, n)
        /\ \A m \in (t + 1) .. (n - 1) : ~ IsTick(sched, m)

ScheduleDelta == SleepDelta * Second

\* The zero time.Time of a SleepInfoData that was not read from a secret: an
\* instant before every instant the clock shows, or the clock minus the delta.
ZeroTime == - ScheduleDelta - 1

\* time.RFC3339 has no fraction of a second: what is parsed back was truncated.
FormatRFC3339(t) == t - (t % Second)

-----------------------------------------------------------------------------
NewSleepInfoData(last, type, current, next) ==
    [LastSchedule |-> last, CurrentOperationType |-> type,
     CurrentOperationSchedule |-> current, NextOperationSchedule |-> next]

\* getSleepInfoData, with secret = [exists, scheduledAt, operationType].
GetSleepInfoData(secret, sleepSchedule, wakeUpSchedule) ==
    LET hasWakeUp == wakeUpSchedule # NoSchedule
        type == IF secret.exists
                THEN CurrentOperation(secret.operationType, hasWakeUp)
                ELSE "SLEEP"
        other == IF hasWakeUp THEN wakeUpSchedule ELSE sleepSchedule
        last == IF secret.exists THEN secret.scheduledAt ELSE ZeroTime
    IN  IF type = "WAKE_UP"
        THEN NewSleepInfoData(last, type, wakeUpSchedule, sleepSchedule)
        ELSE NewSleepInfoData(last, type, sleepSchedule, other)

-----------------------------------------------------------------------------
IsTimeInDelta(t1, t2, delta) ==
    (IF t1 < t2 THEN t2 - t1 ELSE t1 - t2) <= delta

\* Variant: the operands of Sub swapped.
RequeueAfterSwapped(schedule, now) == now - schedule

GetRequeueAfter(schedule, now) == schedule - now

\* Variant: the last schedule is forgotten.
CandidateTickForgets(data, now) ==
    CronNext(data.CurrentOperationSchedule, now - ScheduleDelta)

\* Variant: a tick missed long ago is not given up.
CandidateTickMissed(data, now) ==
    CronNext(data.CurrentOperationSchedule,
             IF data.LastSchedule = ZeroTime THEN now - ScheduleDelta
                                             ELSE data.LastSchedule)

\* The tick of the current operation that getNextSchedule compares with now.
CandidateTick(data, now) ==
    LET last == data.LastSchedule
        sched == data.CurrentOperationSchedule
        earliest == IF last = ZeroTime THEN now - ScheduleDelta ELSE last
        next == CronNext(sched, earliest)
    IN  IF /\ earliest = last
           /\ next < now
           /\ ~ IsTimeInDelta(next, now, ScheduleDelta)
        THEN CronNext(sched, now - ScheduleDelta)
        ELSE next

\* Variant: after an operation the timer is set for the same operation.
NextScheduleSame(data, now) ==
    LET tick == CandidateTick(data, now)
        isToExecute == IsTimeInDelta(now, tick, ScheduleDelta)
        next == IF isToExecute
                THEN CronNext(data.CurrentOperationSchedule, now + ScheduleDelta)
                ELSE tick
    IN  [isToExecute |-> isToExecute, nextSchedule |-> next,
         requeueAfter |-> GetRequeueAfter(next, now)]

GetNextSchedule(data, now) ==
    LET tick == CandidateTick(data, now)
        isToExecute == IsTimeInDelta(now, tick, ScheduleDelta)
        next == IF isToExecute
                THEN CronNext(data.NextOperationSchedule, now + ScheduleDelta)
                ELSE tick
    IN  [isToExecute |-> isToExecute, nextSchedule |-> next,
         requeueAfter |-> GetRequeueAfter(next, now)]

\* Variant: one more tick is skipped.
SkipTwoTicks(sched, nextSchedule, now) ==
    GetRequeueAfter(CronNext(sched, CronNext(sched, nextSchedule)), now)

\* With nothing put to sleep there is nothing to wake up: requeue for the
\* current operation after the one that would have come next.
SkipWakeUpIfSleepNotPerformed(sched, nextSchedule, now) ==
    GetRequeueAfter(CronNext(sched, nextSchedule), now)

=============================================================================
