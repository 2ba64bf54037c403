------------------------- MODULE ScheduleLoopProofs -------------------------
(***************************************************************************)
(* The requeue loop never stops and serves no tick twice, for every delta, *)
(* every pair of schedules and every latency of the queue; and it serves   *)
(* every tick in time when the queue is prompt.                            *)
(***************************************************************************)
EXTENDS ScheduleLoop, ScheduleProofs

\* The data a reconcile works with, and what getNextSchedule answers.
LEMMA DecisionType ==
    ASSUME TypeOK
    PROVE  /\ Data \in SleepInfoDatas
           /\ Decision.nextSchedule \in Int
           /\ Decision.requeueAfter = Decision.nextSchedule - now
           /\ Decision.requeueAfter > ScheduleDelta
<1>1. Data \in SleepInfoDatas
  BY LoopAssumption, SleepInfoDataType DEF TypeOK, Data
<1>2. now \in Nat
  BY DEF TypeOK
<1>3. QED
  BY <1>1, <1>2, RequeueBeyondDelta DEF Decision

\* A positive RequeueAfter leaves the key with a timer.
LEMMA AddAfterSetsTimer ==
    ASSUME TypeOK, NEW requeueAfter \in Nat \ {0}, AddAfter(requeueAfter)
    PROVE  due' \in Nat
BY DEF TypeOK, AddAfter, TimerFired, NoTime

\* Skipping a wake up only delays the timer.
LEMMA SkipWakeUpIsLater ==
    ASSUME NEW sched \in CronSchedules, NEW next \in Int, NEW t \in Int,
           next > t
    PROVE  SkipWakeUpIfSleepNotPerformed(sched, next, t) \in Nat \ {0}
<1>1. CronNext(sched, next) \in Int /\ CronNext(sched, next) > next
  BY CronNextIsFirst
<1>2. QED
  BY <1>1 DEF SkipWakeUpIfSleepNotPerformed, GetRequeueAfter

\* What upsertSecret writes is a well-formed record of the operation.
LEMMA UpsertType ==
    ASSUME TypeOK, NEW operation \in Operations \cup {NoOperation},
           UpsertSecret(operation)
    PROVE  secret' \in [exists : BOOLEAN, scheduledAt : Int,
                        operationType : Operations \cup {NoOperation}]
<1>1. FormatRFC3339(now) \in Int
  BY FormatKeepsSecond DEF TypeOK
<1>2. QED
  BY <1>1 DEF UpsertSecret

\* The inductive invariant of the loop that never stops.
LoopInv == TypeOK /\ NeverStalls

\* Each reconcile that does not fail hands a positive value to AddAfter.
LEMMA ReconcileAdds ==
    ASSUME TypeOK,
           ReconcileNotDue \/ ReconcileOperation \/ ReconcileNoResource
    PROVE  \E r \in Nat \ {0} : AddAfter(r)
<1>1. ScheduleDelta \in Nat /\ now \in Nat
  BY ScheduleAssumption DEF ScheduleDelta, TypeOK
<1>2. /\ Decision.requeueAfter \in Nat \ {0}
      /\ Decision.nextSchedule \in Int /\ Decision.nextSchedule > now
  BY <1>1, DecisionType
<1>3. CASE ReconcileNotDue \/ ReconcileOperation
  BY <1>2, <1>3 DEF ReconcileNotDue, ReconcileOperation
<1>4. CASE ReconcileNoResource
  <2>1. Data.CurrentOperationSchedule \in CronSchedules
    BY DecisionType DEF SleepInfoDatas
  <2>2. SkipWakeUpIfSleepNotPerformed(
          Data.CurrentOperationSchedule, Decision.nextSchedule, now)
            \in Nat \ {0}
    BY <1>1, <1>2, <2>1, SkipWakeUpIsLater
  <2>3. QED
    BY <1>2, <1>4, <2>2 DEF ReconcileNoResource
<1>5. QED
  BY <1>3, <1>4

\* Every path of Reconcile that ends without an error sets a timer.
LEMMA ReconcileSetsTimer ==
    ASSUME TypeOK,
           ReconcileNotDue \/ ReconcileOperation \/ ReconcileNoResource
    PROVE  due' \in Nat
BY ReconcileAdds, AddAfterSetsTimer

\* The loop starts with the SleepInfo in the queue.
LEMMA LoopInvInit == Init => LoopInv
<1> SUFFICES ASSUME Init PROVE LoopInv
  OBVIOUS
<1>1. ZeroTime \in Int
  BY ScheduleAssumption DEF ZeroTime, ScheduleDelta
<1>2. secret \in [exists : BOOLEAN, scheduledAt : Int,
                  operationType : Operations \cup {NoOperation}]
  BY <1>1 DEF Init, NoSecret
<1>3. now \in Nat /\ queuedAt = now /\ hasResource \in BOOLEAN
  BY LoopAssumption DEF Init
<1>4. running \in BOOLEAN /\ upAtTick \in BOOLEAN /\ resourcesAtTick \in BOOLEAN
  BY Zenon DEF Init
<1>5. due = NoTime /\ errors \in Nat
  BY DEF Init
<1>6. TypeOK
  BY <1>2, <1>3, <1>4, <1>5 DEF TypeOK
<1>7. NeverStalls
  BY <1>3 DEF NeverStalls, NoTime
<1>8. QED
  BY <1>6, <1>7 DEF LoopInv

\* Every step of the loop keeps the invariant.
LEMMA LoopInvNext == LoopInv /\ [Next]_vars => LoopInv'
<1> SUFFICES ASSUME LoopInv, [Next]_vars PROVE LoopInv'
  OBVIOUS
<1> USE DEF LoopInv
<1>1. CASE Advance
  <2>1. upAtTick' \in BOOLEAN /\ resourcesAtTick' \in BOOLEAN
    BY <1>1 DEF TypeOK, Advance
  <2>2. now' \in Nat
    BY <1>1 DEF TypeOK, Advance
  <2>3. QED
    BY <1>1, <2>1, <2>2 DEF TypeOK, NeverStalls, Advance
<1>2. CASE SleepInfoEvent
  BY <1>2 DEF TypeOK, NeverStalls, SleepInfoEvent, NoTime
<1>3. CASE ReconcileNotDue
  <2>1. due' \in Nat
    BY <1>3, ReconcileSetsTimer
  <2>2. QED
    BY <1>3, <2>1 DEF TypeOK, NeverStalls, ReconcileNotDue, Dequeue, NoTime
<1>4. CASE ReconcileOperation
  <2>1. due' \in Nat
    BY <1>4, ReconcileSetsTimer
  <2>2. Data.CurrentOperationType \in Operations \cup {NoOperation}
    BY DecisionType DEF SleepInfoDatas
  <2>3. secret' \in [exists : BOOLEAN, scheduledAt : Int,
                     operationType : Operations \cup {NoOperation}]
    BY <1>4, <2>2, UpsertType DEF ReconcileOperation
  <2>4. QED
    BY <1>4, <2>1, <2>3
    DEF TypeOK, NeverStalls, ReconcileOperation, Dequeue, NoTime
<1>5. CASE ReconcileNoResource
  <2>1. due' \in Nat
    BY <1>5, ReconcileSetsTimer
  <2>2. secret' \in [exists : BOOLEAN, scheduledAt : Int,
                     operationType : Operations \cup {NoOperation}]
    BY <1>5, UpsertType DEF ReconcileNoResource
  <2>3. QED
    BY <1>5, <2>1, <2>2
    DEF TypeOK, NeverStalls, ReconcileNoResource, Dequeue, NoTime
<1>6. CASE ReconcileError
  <2>1. PICK backoff \in 1 .. MaxBackoff : AddAfter(backoff)
    BY <1>6 DEF ReconcileError
  <2>2. due' \in Nat
    <3>1. backoff \in Nat \ {0}
      BY LoopAssumption
    <3>2. QED
      BY <2>1, <3>1, AddAfterSetsTimer
  <2>3. QED
    BY <1>6, <2>2 DEF TypeOK, NeverStalls, ReconcileError, Dequeue, NoTime
<1>7. CASE \E operation \in Operations : Execution(operation)
  <2>1. PICK operation \in Operations : Execution(operation)
    BY <1>7
  <2>2. secret' \in [exists : BOOLEAN, scheduledAt : Int,
                     operationType : Operations \cup {NoOperation}]
    BY <2>1, UpsertType DEF Execution
  <2>3. QED
    BY <2>1, <2>2 DEF TypeOK, NeverStalls, Execution
<1>8. CASE ManagerStops
  BY <1>8 DEF TypeOK, NeverStalls, ManagerStops
<1>9. CASE ManagerStarts
  BY <1>9 DEF TypeOK, NeverStalls, ManagerStarts, NoTime
<1>10. CASE ResourcesChange
  BY <1>10 DEF TypeOK, NeverStalls, ResourcesChange
<1>11. CASE UNCHANGED vars
  BY <1>11 DEF TypeOK, NeverStalls, vars
<1>12. CASE UpsertAnswerLost
  <2>1. PICK backoff \in 1 .. MaxBackoff : AddAfter(backoff)
    BY <1>12 DEF UpsertAnswerLost
  <2>2. due' \in Nat
    <3>1. backoff \in Nat \ {0}
      BY LoopAssumption
    <3>2. QED
      BY <2>1, <3>1, AddAfterSetsTimer
  <2>3. Data.CurrentOperationType \in Operations \cup {NoOperation}
    BY DecisionType DEF SleepInfoDatas
  <2>4. secret' \in [exists : BOOLEAN, scheduledAt : Int,
                     operationType : Operations \cup {NoOperation}]
    BY <1>12, <2>3, UpsertType DEF UpsertAnswerLost
  <2>5. QED
    BY <1>12, <2>2, <2>4
    DEF TypeOK, NeverStalls, UpsertAnswerLost, Dequeue, NoTime
<1>13. QED
  BY <1>1, <1>2, <1>3, <1>4, <1>5, <1>6, <1>7, <1>8, <1>9, <1>10, <1>11, <1>12
  DEF Next

\* The state of the loop keeps its types.
THEOREM LoopTypeCorrect == Spec => []TypeOK
<1>1. LoopInv => TypeOK
  BY DEF LoopInv
<1>2. QED
  BY LoopInvInit, LoopInvNext, <1>1, PTL DEF Spec

(***************************************************************************)
(* While the manager runs, the SleepInfo is in the queue or has a timer:   *)
(* no reconcile, failed reconcile, execution or restart ends its schedule. *)
(***************************************************************************)
THEOREM LoopNeverStalls == Spec => []NeverStalls
<1>1. LoopInv => NeverStalls
  BY DEF LoopInv
<1>2. QED
  BY LoopInvInit, LoopInvNext, <1>1, PTL DEF Spec

-----------------------------------------------------------------------------
\* What an existing Secret holds was written by upsertSecret: an instant that
\* is not the zero time, so that getNextSchedule looks for a tick after it.
ScheduledAtIsReal == secret.exists => secret.scheduledAt # ZeroTime

\* The second of an instant that the clock shows is later than the zero time.
LEMMA FormatIsReal == ASSUME NEW t \in Nat PROVE FormatRFC3339(t) > ZeroTime
<1>1. t % Second \in 0 .. (Second - 1) /\ t % Second <= t
  <2> DEFINE q == t \div Second
             r == t % Second
  <2>1. r \in 0 .. (Second - 1) /\ q \in Int /\ t = Second * q + r
    BY ScheduleAssumption
  <2>2. q >= 0
    BY ScheduleAssumption
  <2> HIDE DEF q, r
  <2>3. Second * q >= 0 /\ Second * q \in Int
    BY <2>1, <2>2, ScheduleAssumption
  <2>4. r \in 0 .. (Second - 1) /\ r <= t
    BY <2>1, <2>3, ScheduleAssumption
  <2>5. QED
    BY <2>4 DEF r
<1>2. ScheduleDelta \in Nat
  BY ScheduleAssumption DEF ScheduleDelta
<1>3. QED
  BY <1>1, <1>2, ScheduleAssumption DEF FormatRFC3339, ZeroTime

\* Every step keeps it: FormatRFC3339 of a clock is later than the zero time.
LEMMA ScheduledAtInv == TypeOK /\ ScheduledAtIsReal /\ [Next]_vars
                          => ScheduledAtIsReal'
<1> SUFFICES ASSUME TypeOK, ScheduledAtIsReal, [Next]_vars
             PROVE  ScheduledAtIsReal'
  OBVIOUS
<1>1. ASSUME NEW operation, UpsertSecret(operation)
      PROVE  ScheduledAtIsReal'
  <2>1. now \in Nat /\ now \in Int
    BY DEF TypeOK
  <2>2. FormatRFC3339(now) > ZeroTime
    BY <2>1, FormatIsReal
  <2>3. FormatRFC3339(now) \in Int /\ ZeroTime \in Int
    BY <2>1, FormatKeepsSecond, ScheduleAssumption DEF ZeroTime, ScheduleDelta
  <2>4. QED
    BY <1>1, <2>2, <2>3 DEF UpsertSecret, ScheduledAtIsReal
<1>2. CASE UNCHANGED secret
  BY <1>2 DEF ScheduledAtIsReal
<1>3. UNCHANGED secret \/ \E operation : UpsertSecret(operation)
  BY DEF Next, vars, Advance, SleepInfoEvent, ReconcileNotDue,
         ReconcileOperation, ReconcileNoResource, ReconcileError,
         UpsertAnswerLost, Execution,
         ManagerStops, ManagerStarts, ResourcesChange
<1>4. QED
  BY <1>1, <1>2, <1>3

(***************************************************************************)
(* Every scheduled operation serves a tick of its own schedule that lies   *)
(* within the delta and after the last recorded operation.                 *)
(***************************************************************************)
THEOREM LoopTickNotRepeated == Spec => TickNotRepeated
<1> DEFINE A == ReconcileOperation /\ secret.exists
                => \E tick \in (now - ScheduleDelta) .. (now + ScheduleDelta) :
                     /\ IsTick(Data.CurrentOperationSchedule, tick)
                     /\ secret.scheduledAt < tick
<1>1. Init => ScheduledAtIsReal
  BY DEF Init, NoSecret, ScheduledAtIsReal
<1>2. ASSUME LoopInv, ScheduledAtIsReal, ReconcileOperation, secret.exists
      PROVE  \E tick \in (now - ScheduleDelta) .. (now + ScheduleDelta) :
               /\ IsTick(Data.CurrentOperationSchedule, tick)
               /\ secret.scheduledAt < tick
  <2> DEFINE tick == CandidateTick(Data, now)
  <2>1. Data \in SleepInfoDatas /\ now \in Nat /\ ScheduleDelta \in Nat
    BY <1>2, DecisionType, ScheduleAssumption DEF LoopInv, TypeOK, ScheduleDelta
  <2>2. Data.LastSchedule = secret.scheduledAt
    BY <1>2 DEF Data, GetSleepInfoData, NewSleepInfoData
  <2>3. /\ tick \in Int
        /\ IsTick(Data.CurrentOperationSchedule, tick)
        /\ tick >= now - ScheduleDelta
        /\ secret.scheduledAt < tick
    <3>1. secret.scheduledAt # ZeroTime /\ secret.scheduledAt \in Int
      BY <1>2 DEF ScheduledAtIsReal, LoopInv, TypeOK
    <3>2. QED
      BY <2>1, <2>2, <3>1, CandidateTickIsFresh
  <2>4. IsTimeInDelta(now, tick, ScheduleDelta)
    BY <1>2 DEF ReconcileOperation, Decision, GetNextSchedule
  <2> HIDE DEF tick
  <2>5. tick \in (now - ScheduleDelta) .. (now + ScheduleDelta)
    BY <2>1, <2>3, <2>4 DEF IsTimeInDelta
  <2>6. QED
    BY <2>3, <2>5
<1>3. LoopInv /\ ScheduledAtIsReal /\ [Next]_vars
        => LoopInv' /\ ScheduledAtIsReal' /\ [A]_vars
  BY <1>2, LoopInvNext, ScheduledAtInv DEF LoopInv
<1>4. QED
  BY <1>1, <1>3, LoopInvInit, PTL DEF Spec, TickNotRepeated

-----------------------------------------------------------------------------
(***************************************************************************)
(* Ticks are served in time when the queue is prompt: all the failed       *)
(* reconciles with their delays, and the lag of the last one, take less    *)
(* than the delta.                                                         *)
(***************************************************************************)
Prompt == MaxErrors * (MaxBackoff + MaxLag) + MaxLag < ScheduleDelta

\* How long after its timer a reconcile may succeed, e errors having happened.
Budget(e) == (MaxErrors - e) * (MaxBackoff + MaxLag) + MaxLag

\* The queue or a timer brings a reconcile less than the delta after t.
DueBy(t) ==
    \/ queuedAt # NoTime /\ queuedAt + Budget(errors) < t + ScheduleDelta
    \/ due # NoTime /\ due + Budget(errors) < t + ScheduleDelta

\* Queue, timer, Secret and histories agree with the clock.
ClockInv ==
    /\ errors <= MaxErrors
    /\ upAtTick => running
    /\ resourcesAtTick => hasResource
    /\ ~ running => queuedAt = NoTime /\ due = NoTime
    /\ queuedAt # NoTime => queuedAt <= now /\ now <= queuedAt + MaxLag
    /\ due # NoTime => now <= due + MaxLag
    /\ IF secret.exists
       THEN secret.scheduledAt <= now /\ secret.scheduledAt # ZeroTime
       ELSE secret = NoSecret

\* After AddAfter the timer is ahead, no later than asked for and no later
\* than a timer that was ahead before.
LEMMA AddAfterKeeps ==
    ASSUME TypeOK, NEW requeueAfter \in Nat \ {0}, AddAfter(requeueAfter)
    PROVE  /\ due' \in Nat /\ now < due' /\ due' <= now + requeueAfter
           /\ due # NoTime /\ now < due => due' <= due
BY DEF TypeOK, AddAfter, TimerFired, NoTime

\* A timer that is ahead is not late.
LEMMA Ahead ==
    ASSUME NEW t \in Nat, NEW timer \in Nat, NEW lag \in Nat, t < timer
    PROVE  t <= timer + lag
OBVIOUS

\* What upsertSecret records is not later than the clock and not the zero time.
LEMMA RecordedInTime ==
    ASSUME TypeOK, NEW operation, UpsertSecret(operation)
    PROVE  /\ secret'.exists /\ secret'.operationType = operation
           /\ secret'.scheduledAt = FormatRFC3339(now)
           /\ secret'.scheduledAt <= now /\ secret'.scheduledAt # ZeroTime
<1>1. now \in Nat /\ now \in Int
  BY DEF TypeOK
<1>2. FormatRFC3339(now) \in Int /\ FormatRFC3339(now) <= now
  BY <1>1, FormatKeepsSecond
<1>3. FormatRFC3339(now) > ZeroTime
  BY <1>1, FormatIsReal
<1>4. ZeroTime \in Int
  BY ScheduleAssumption DEF ZeroTime, ScheduleDelta
<1>5. /\ secret'.exists /\ secret'.operationType = operation
      /\ secret'.scheduledAt = FormatRFC3339(now)
  BY DEF UpsertSecret
<1>6. QED
  BY <1>1, <1>2, <1>3, <1>4, <1>5

\* The loop starts with the key in the queue and without a Secret.
LEMMA ClockInvInit == Init => ClockInv
BY LoopAssumption DEF Init, ClockInv, NoSecret, NoTime

\* Every step keeps queue, timer, Secret and histories in agreement.
LEMMA ClockInvNext == TypeOK /\ ClockInv /\ [Next]_vars => ClockInv'
<1> SUFFICES ASSUME TypeOK, ClockInv, [Next]_vars PROVE ClockInv'
  OBVIOUS
<1>0. MaxLag \in Nat /\ MaxBackoff \in Nat /\ MaxErrors \in Nat
  BY LoopAssumption
<1>1. CASE Advance
  <2>1. resourcesAtTick' => hasResource'
    BY <1>1 DEF ClockInv, Advance
  <2>2. upAtTick' => running'
    BY <1>1 DEF ClockInv, Advance
  <2>3. /\ queuedAt' # NoTime => queuedAt' <= now' /\ now' <= queuedAt' + MaxLag
        /\ due' # NoTime => now' <= due' + MaxLag
    BY <1>0, <1>1 DEF ClockInv, TypeOK, Advance, OnTime, NoTime
  <2>4. IF secret'.exists
        THEN secret'.scheduledAt <= now' /\ secret'.scheduledAt # ZeroTime
        ELSE secret' = NoSecret
    BY <1>1 DEF ClockInv, TypeOK, Advance
  <2>5. QED
    BY <1>1, <2>1, <2>2, <2>3, <2>4 DEF ClockInv, Advance, NoSecret
<1>2. CASE SleepInfoEvent
  BY <1>0, <1>2 DEF ClockInv, TypeOK, SleepInfoEvent, NoTime, NoSecret
<1>3. CASE ReconcileNotDue \/ ReconcileOperation \/ ReconcileNoResource
  <2>1. due' \in Nat /\ now < due'
    BY <1>3, ReconcileAdds, AddAfterKeeps
  <2>2. /\ running /\ queuedAt' = NoTime
        /\ UNCHANGED <<now, running, hasResource, errors, upAtTick, resourcesAtTick>>
    BY <1>3 DEF ReconcileNotDue, ReconcileOperation, ReconcileNoResource, Dequeue
  <2>3. UNCHANGED secret \/ \E operation : UpsertSecret(operation)
    BY <1>3 DEF ReconcileNotDue, ReconcileOperation, ReconcileNoResource
  <2>4. IF secret'.exists
        THEN secret'.scheduledAt <= now' /\ secret'.scheduledAt # ZeroTime
        ELSE secret' = NoSecret
    BY <2>2, <2>3, RecordedInTime DEF ClockInv
  <2>5. now' <= due' + MaxLag
    <3>1. now' = now /\ now \in Nat
      BY <2>2 DEF TypeOK
    <3>2. now <= due' + MaxLag
      BY <1>0, <2>1, <3>1, Ahead
    <3>3. QED
      BY <3>1, <3>2
  <2>6. QED
    BY <2>2, <2>4, <2>5 DEF ClockInv
<1>4. CASE ReconcileError
  <2>1. PICK backoff \in 1 .. MaxBackoff : AddAfter(backoff)
    BY <1>4 DEF ReconcileError
  <2>2. due' \in Nat /\ now < due'
    BY <1>0, <2>1, AddAfterKeeps
  <2>3. errors' <= MaxErrors
    BY <1>0, <1>4 DEF ReconcileError, TypeOK
  <2>4. now' <= due' + MaxLag
    <3>1. now' = now /\ now \in Nat
      BY <1>4 DEF TypeOK, ReconcileError
    <3>2. now <= due' + MaxLag
      BY <1>0, <2>2, <3>1, Ahead
    <3>3. QED
      BY <3>1, <3>2
  <2>5. QED
    BY <1>4, <2>3, <2>4 DEF ClockInv, ReconcileError, Dequeue
<1>5. CASE \E operation \in Operations : Execution(operation)
  <2>1. PICK operation \in Operations : Execution(operation)
    BY <1>5
  <2>2. secret'.exists /\ secret'.scheduledAt <= now /\ secret'.scheduledAt # ZeroTime
    BY <2>1, RecordedInTime DEF Execution
  <2>3. QED
    BY <2>1, <2>2 DEF ClockInv, Execution
<1>6. CASE ManagerStops
  BY <1>6 DEF ClockInv, ManagerStops, NoSecret
<1>7. CASE ManagerStarts
  BY <1>0, <1>7 DEF ClockInv, TypeOK, ManagerStarts, NoSecret
<1>8. CASE ResourcesChange
  BY <1>8 DEF ClockInv, ResourcesChange, NoSecret
<1>9. CASE UNCHANGED vars
  BY <1>9 DEF ClockInv, vars, NoSecret
<1>10. CASE UpsertAnswerLost
  <2>1. PICK backoff \in 1 .. MaxBackoff : AddAfter(backoff)
    BY <1>10 DEF UpsertAnswerLost
  <2>2. due' \in Nat /\ now < due'
    BY <1>0, <2>1, AddAfterKeeps
  <2>3. errors' <= MaxErrors
    BY <1>0, <1>10 DEF UpsertAnswerLost, TypeOK
  <2>4. now' <= due' + MaxLag
    <3>1. now' = now /\ now \in Nat
      BY <1>10 DEF TypeOK, UpsertAnswerLost
    <3>2. now <= due' + MaxLag
      BY <1>0, <2>2, <3>1, Ahead
    <3>3. QED
      BY <3>1, <3>2
  <2>5. /\ secret'.exists /\ secret'.scheduledAt <= now'
        /\ secret'.scheduledAt # ZeroTime
    BY <1>10, RecordedInTime DEF UpsertAnswerLost
  <2>6. QED
    BY <1>10, <2>3, <2>4, <2>5 DEF ClockInv, UpsertAnswerLost, Dequeue
<1>11. QED
  BY <1>1, <1>2, <1>3, <1>4, <1>5, <1>6, <1>7, <1>8, <1>9, <1>10 DEF Next

-----------------------------------------------------------------------------
(***************************************************************************)
(* Deadlines.                                                              *)
(***************************************************************************)

\* A reconcile succeeds less than the delta after its timer.
LEMMA BudgetBounds ==
    ASSUME TypeOK, ClockInv, Prompt
    PROVE  Budget(errors) \in Nat /\ MaxLag <= Budget(errors) /\ Budget(errors) < ScheduleDelta
<1> DEFINE K == MaxBackoff + MaxLag
           left == MaxErrors - errors
<1>1. /\ K \in Nat /\ MaxLag \in Nat /\ left \in Nat /\ errors \in Nat
      /\ MaxErrors \in Nat /\ ScheduleDelta \in Nat
  BY LoopAssumption, ScheduleAssumption DEF TypeOK, ClockInv, ScheduleDelta
<1>2. Budget(errors) = left * K + MaxLag /\ MaxErrors * K + MaxLag < ScheduleDelta
  BY DEF Budget, Prompt
<1>3. MaxErrors = left + errors
  BY <1>1
<1> HIDE DEF K, left
<1>4. left * K \in Nat /\ errors * K \in Nat /\ MaxErrors * K = left * K + errors * K
  BY <1>1, <1>3
<1> QED
  BY <1>1, <1>2, <1>4

\* A failed reconcile uses up one delay and one lag.
LEMMA BudgetSpent ==
    ASSUME NEW e \in Nat
    PROVE  Budget(e + 1) = Budget(e) - (MaxBackoff + MaxLag)
<1> DEFINE K == MaxBackoff + MaxLag
<1>1. K \in Nat /\ MaxErrors \in Nat /\ MaxLag \in Nat
  BY LoopAssumption
<1> HIDE DEF K
<1>2. (MaxErrors - (e + 1)) * K = (MaxErrors - e) * K - K
  BY <1>1
<1>3. QED
  BY <1>1, <1>2 DEF Budget, K

\* The deadline of what is due has not passed.
LEMMA DueByDeadline ==
    ASSUME TypeOK, ClockInv, Prompt, NEW t \in Int, DueBy(t)
    PROVE  now < t + ScheduleDelta
<1>1. /\ Budget(errors) \in Nat /\ MaxLag <= Budget(errors) /\ MaxLag \in Nat
      /\ ScheduleDelta \in Nat
  BY BudgetBounds, LoopAssumption, ScheduleAssumption DEF ScheduleDelta
<1>2. QED
  BY <1>1 DEF DueBy, TypeOK, ClockInv

\* A timer that is set for t, or for an instant before, is in time for t.
LEMMA TimerInTime ==
    ASSUME TypeOK, ClockInv, Prompt, NEW t \in Int,
           NEW r \in Nat \ {0}, AddAfter(r), now + r <= t, errors' = errors
    PROVE  DueBy(t)'
<1>1. Budget(errors) \in Nat /\ Budget(errors) < ScheduleDelta /\ ScheduleDelta \in Nat
  BY BudgetBounds, ScheduleAssumption DEF ScheduleDelta
<1>2. due' \in Nat /\ due' <= now + r
  BY AddAfterKeeps
<1>3. Budget(errors') = Budget(errors)
  OBVIOUS
<1>4. due' + Budget(errors') < t + ScheduleDelta
  BY <1>1, <1>2, <1>3 DEF TypeOK
<1>5. QED
  BY <1>2, <1>4 DEF DueBy, NoTime

\* A key that is queued now is in time for every instant to come.
LEMMA QueuedInTime ==
    ASSUME TypeOK, ClockInv, Prompt, NEW t \in Int, now < t,
           queuedAt' = now, errors' = errors
    PROVE  DueBy(t)'
<1>1. Budget(errors) \in Nat /\ Budget(errors) < ScheduleDelta /\ ScheduleDelta \in Nat
  BY BudgetBounds, ScheduleAssumption DEF ScheduleDelta
<1>2. Budget(errors') = Budget(errors)
  OBVIOUS
<1>3. QED
  BY <1>1, <1>2 DEF DueBy, TypeOK, NoTime

\* A failed reconcile comes back in time: its delay is within the budget.
LEMMA RetryInTime ==
    ASSUME TypeOK, ClockInv, Prompt, NEW t \in Int, DueBy(t), ReconcileError
    PROVE  DueBy(t)'
<1>1. /\ Budget(errors) \in Nat /\ MaxLag \in Nat /\ MaxBackoff \in Nat
      /\ ScheduleDelta \in Nat
  BY BudgetBounds, LoopAssumption, ScheduleAssumption DEF ScheduleDelta
<1>2. Budget(errors') = Budget(errors) - (MaxBackoff + MaxLag)
  BY BudgetSpent DEF ReconcileError, TypeOK
<1>3. PICK backoff \in 1 .. MaxBackoff : AddAfter(backoff)
  BY DEF ReconcileError
<1>4. /\ due' \in Nat /\ due' <= now + MaxBackoff
      /\ due # NoTime /\ now < due => due' <= due
  BY <1>1, <1>3, AddAfterKeeps DEF TypeOK
<1>5. due' + Budget(errors') < t + ScheduleDelta
  <2>1. CASE queuedAt # NoTime /\ queuedAt + Budget(errors) < t + ScheduleDelta
    BY <1>1, <1>2, <1>4, <2>1 DEF TypeOK, ClockInv
  <2>2. CASE due # NoTime /\ due + Budget(errors) < t + ScheduleDelta
    BY <1>1, <1>2, <1>4, <2>2 DEF TypeOK, ClockInv
  <2>3. QED
    BY <2>1, <2>2 DEF DueBy
<1>6. QED
  BY <1>4, <1>5 DEF DueBy, NoTime

\* A reconcile whose record was written and not answered comes back in time
\* for every instant to come.
LEMMA RetryAhead ==
    ASSUME TypeOK, ClockInv, Prompt, NEW t \in Int, now < t, UpsertAnswerLost
    PROVE  DueBy(t)'
<1>1. /\ Budget(errors) \in Nat /\ Budget(errors) < ScheduleDelta
      /\ MaxLag \in Nat /\ MaxBackoff \in Nat /\ ScheduleDelta \in Nat
  BY BudgetBounds, LoopAssumption, ScheduleAssumption DEF ScheduleDelta
<1>2. Budget(errors') = Budget(errors) - (MaxBackoff + MaxLag)
  BY BudgetSpent DEF UpsertAnswerLost, TypeOK
<1>3. PICK backoff \in 1 .. MaxBackoff : AddAfter(backoff)
  BY DEF UpsertAnswerLost
<1>4. due' \in Nat /\ due' <= now + MaxBackoff
  BY <1>1, <1>3, AddAfterKeeps DEF TypeOK
<1>5. due' + Budget(errors') < t + ScheduleDelta
  BY <1>1, <1>2, <1>4 DEF TypeOK
<1>6. QED
  BY <1>4, <1>5 DEF DueBy, NoTime

-----------------------------------------------------------------------------
(***************************************************************************)
(* The ticks that the loop answers for: those to come while the manager is *)
(* up, and the last one if it is up since then.                            *)
(***************************************************************************)

\* No tick of either schedule after from, up to to.
Quiet(from, to) ==
    \A u \in Int : from < u /\ u <= to => ~ IsTick(SleepAt \cup WakeUpAt, u)

\* The manager is up, since before t if t is past.
UpFor(t) == IF now < t THEN running ELSE upAtTick

\* A reconcile for the tick t is still to be expected.
Answers(t) == UpFor(t) /\ Quiet(t, now)

\* The ticks of either schedule.
LEMMA EitherTick ==
    ASSUME NEW t
    PROVE  IsTick(SleepAt \cup WakeUpAt, t) <=> IsTick(SleepAt, t) \/ IsTick(WakeUpAt, t)
BY DEF IsTick

\* When the clock advances the loop answers for no other ticks than before.
LEMMA AdvanceAnswers ==
    ASSUME TypeOK, Advance, NEW t \in Int, IsTick(SleepAt \cup WakeUpAt, t),
           Answers(t)'
    PROVE  Answers(t)
<1>1. /\ now' = now + 1 /\ now \in Nat /\ running' = running
      /\ upAtTick' = IF IsTick(SleepAt \cup WakeUpAt, now') THEN running
                                                            ELSE upAtTick
  BY DEF Advance, TypeOK
<1>2. /\ IF now' < t THEN running' ELSE upAtTick'
      /\ \A u \in Int : t < u /\ u <= now' => ~ IsTick(SleepAt \cup WakeUpAt, u)
  BY DEF Answers, UpFor, Quiet
<1>3. Quiet(t, now)
  BY <1>1, <1>2 DEF Quiet
<1>4. CASE now' < t
  BY <1>1, <1>2, <1>3, <1>4 DEF Answers, UpFor
<1>5. CASE now' = t
  BY <1>1, <1>2, <1>3, <1>5 DEF Answers, UpFor
<1>6. CASE t < now'
  <2>0. now' \in Int /\ now' <= now'
    BY <1>1
  <2>1. ~ IsTick(SleepAt \cup WakeUpAt, now') /\ ~ (now < t) /\ ~ (now' < t)
    <3>1. ~ IsTick(SleepAt \cup WakeUpAt, now')
      BY <1>2, <1>6, <2>0
    <3>2. ~ (now < t) /\ ~ (now' < t)
      BY <1>1, <1>6
    <3>3. QED
      BY <3>1, <3>2
  <2>2. upAtTick
    BY <1>1, <1>2, <2>1
  <2>3. QED
    BY <1>3, <2>1, <2>2 DEF Answers, UpFor
<1>7. QED
  BY <1>1, <1>4, <1>5, <1>6

\* The steps of the loop that are no reconcile without an error and no
\* execution, and the clock.
OtherStep ==
    \/ Advance \/ SleepInfoEvent \/ ReconcileError
    \/ ManagerStops \/ ManagerStarts \/ ResourcesChange
    \/ UNCHANGED vars

(***************************************************************************)
(* None of them changes the Secret or leaves a tick that is due without a  *)
(* timer.  A tick that the loop answers for after such a step but not      *)
(* before it is due by the queue: the manager has just started.            *)
(***************************************************************************)
LEMMA OtherSteps ==
    ASSUME TypeOK, ClockInv, Prompt, OtherStep,
           NEW t \in Int, IsTick(SleepAt \cup WakeUpAt, t), Answers(t)'
    PROVE  /\ secret' = secret
           /\ DueBy(t)' \/ (Answers(t) /\ ~ DueBy(t))
<1>1. secret' = secret
  BY DEF OtherStep, Advance, SleepInfoEvent, ReconcileError, ManagerStops,
         ManagerStarts, ResourcesChange, vars
<1>2. ASSUME UNCHANGED <<queuedAt, due, errors>>, DueBy(t)
      PROVE  DueBy(t)'
  BY <1>2 DEF DueBy
<1>3. ASSUME UNCHANGED <<now, running, upAtTick>>
      PROVE  Answers(t)
  BY <1>3 DEF Answers, UpFor, Quiet
<1>4. CASE Advance
  BY <1>1, <1>2, <1>4, AdvanceAnswers DEF Advance
<1>5. CASE SleepInfoEvent
  <2>1. ASSUME DueBy(t) PROVE DueBy(t)'
    BY <1>5, <2>1 DEF DueBy, SleepInfoEvent
  <2>2. QED
    BY <1>1, <1>3, <1>5, <2>1 DEF SleepInfoEvent
<1>6. CASE ReconcileError
  BY <1>1, <1>3, <1>6, RetryInTime DEF ReconcileError
<1>7. CASE ManagerStops
  BY <1>7 DEF ManagerStops, Answers, UpFor
<1>8. CASE ManagerStarts
  <2>1. now' = now /\ queuedAt' = now /\ errors' = errors
    BY <1>8 DEF ManagerStarts
  <2>2. ~ upAtTick /\ upAtTick' = upAtTick
    BY <1>8 DEF ManagerStarts, ClockInv
  <2>3. now < t
    BY <2>1, <2>2 DEF Answers, UpFor
  <2>4. QED
    BY <1>1, <2>1, <2>3, QueuedInTime
<1>9. CASE ResourcesChange \/ UNCHANGED vars
  BY <1>1, <1>2, <1>3, <1>9 DEF ResourcesChange, vars
<1>10. QED
  BY <1>4, <1>5, <1>6, <1>7, <1>8, <1>9 DEF OtherStep

\* At the start the loop answers for ticks to come only, and the key is queued.
LEMMA StartInTime ==
    ASSUME Init, TypeOK, ClockInv, Prompt, NEW t \in Int, Answers(t)
    PROVE  DueBy(t)
<1>1. now < t /\ queuedAt = now /\ now \in Nat
  BY DEF Init, TypeOK, Answers, UpFor
<1>2. /\ Budget(errors) \in Nat /\ Budget(errors) < ScheduleDelta
      /\ ScheduleDelta \in Nat
  BY BudgetBounds, ScheduleAssumption DEF ScheduleDelta
<1>3. QED
  BY <1>1, <1>2 DEF DueBy, NoTime

\* The last tick of a schedule is one, and none comes after it.
LEMMA LastTickIsLast ==
    ASSUME TypeOK, NEW s \in CronSchedules
    PROVE  /\ LastTick(s) \in Int /\ LastTick(s) <= now
           /\ IsTick(s, LastTick(s))
<1> DEFINE L == Second * Period
           T == {d \in 0 .. (L - 1) : IsTick(s, now - d)}
<1>0. L \in Nat /\ now \in Nat
  BY ScheduleAssumption DEF TypeOK
<1> HIDE DEF L
<1>1. PICK n \in (now - L + 1) .. (now - L + L) : IsTick(s, n)
  <2>1. now - L \in Int
    BY <1>0
  <2>2. QED
    BY <2>1, TickWithinPeriod DEF L
<1>2. now - n \in T
  <2>1. now - n \in 0 .. (L - 1) /\ now - (now - n) = n
    BY <1>0, <1>1
  <2>2. QED
    BY <1>1, <2>1
<1>3. T \in SUBSET Nat /\ T # {}
  <2>1. \A d \in T : d \in Nat
    BY <1>0
  <2>2. QED
    BY <1>2, <2>1
<1>4. PICK d \in T : \A e \in T : d <= e
  <2> HIDE DEF T
  <2> QED BY <1>3, LeastNatural
<1>5. \E t \in (now - L + 1) .. now :
        IsTick(s, t) /\ \A u \in (t + 1) .. now : ~ IsTick(s, u)
  <2>1. now - d \in (now - L + 1) .. now /\ IsTick(s, now - d)
    BY <1>0, <1>4
  <2>2. ASSUME NEW u \in (now - d + 1) .. now, IsTick(s, u)
        PROVE  FALSE
    <3>1. now - u \in 0 .. (L - 1) /\ now - (now - u) = u /\ now - u < d
      BY <1>0, <1>4
    <3>2. now - u \in T
      BY <2>2, <3>1
    <3>3. QED
      BY <1>0, <1>4, <3>1, <3>2
  <2>3. QED
    BY <2>1, <2>2
<1>6. /\ LastTick(s) \in (now - L + 1) .. now
      /\ IsTick(s, LastTick(s))
  BY <1>5 DEF LastTick, L
<1>7. QED
  BY <1>0, <1>6

\* Once a tick is settled the loop still answers for it, and its deadline has
\* passed.
LastTickAnswers(s) ==
    /\ LastTick(s) \in Int /\ IsTick(s, LastTick(s)) /\ Answers(LastTick(s))
    /\ ~ DueBy(LastTick(s))

\* It follows from what Settled says of the manager and of the other ticks.
LEMMA SettledAnswers ==
    ASSUME TypeOK, ClockInv, Prompt, NEW s \in CronSchedules, Settled(s)
    PROVE  LastTickAnswers(s)
<1> DEFINE t == LastTick(s)
<1>1. t \in Int /\ t <= now /\ IsTick(s, t) /\ now \in Nat
  BY LastTickIsLast DEF TypeOK
<1>2. /\ upAtTick /\ t + ScheduleDelta <= now
      /\ \A u \in (t + 1) .. (now + ScheduleDelta) :
           ~ IsTick(SleepAt \cup WakeUpAt, u)
  BY DEF Settled
<1> HIDE DEF t
<1>3. ScheduleDelta \in Nat
  BY ScheduleAssumption DEF ScheduleDelta
<1>4. Answers(t)
  BY <1>1, <1>2, <1>3 DEF Answers, UpFor, Quiet
<1>5. ~ DueBy(t)
  BY <1>1, <1>2, <1>3, DueByDeadline
<1>6. QED
  BY <1>1, <1>4, <1>5 DEF LastTickAnswers, t

\* The data of a reconcile without wakeUpAt, and with it.
LEMMA DataIs ==
    ASSUME TypeOK, ClockInv
    PROVE  /\ Data.LastSchedule = secret.scheduledAt
           /\ secret.scheduledAt = ZeroTime \/ secret.scheduledAt <= now
           /\ WakeUpAt = NoSchedule
              => /\ Data.CurrentOperationType = "SLEEP"
                 /\ Data.CurrentOperationSchedule = SleepAt
                 /\ Data.NextOperationSchedule = SleepAt
           /\ WakeUpAt # NoSchedule /\ secret.operationType = "SLEEP"
              => /\ Data.CurrentOperationType = "WAKE_UP"
                 /\ Data.CurrentOperationSchedule = WakeUpAt
                 /\ Data.NextOperationSchedule = SleepAt
           /\ WakeUpAt # NoSchedule /\ secret.operationType # "SLEEP"
              => /\ Data.CurrentOperationType = "SLEEP"
                 /\ Data.CurrentOperationSchedule = SleepAt
                 /\ Data.NextOperationSchedule = WakeUpAt
<1>1. CASE secret.exists
  BY <1>1 DEF ClockInv, Data, GetSleepInfoData, NewSleepInfoData, CurrentOperation
<1>2. CASE ~ secret.exists
  <2>1. secret = NoSecret
    BY <1>2 DEF ClockInv
  <2>2. secret.scheduledAt = ZeroTime /\ secret.operationType # "SLEEP"
    BY <2>1 DEF NoSecret, NoOperation
  <2>3. QED
    BY <1>2, <2>2 DEF Data, GetSleepInfoData, NewSleepInfoData, CurrentOperation
<1>3. QED
  BY <1>1, <1>2

(***************************************************************************)
(* A reconcile that has nothing to execute: every tick of the current      *)
(* operation less than the delta ago has its timer, or is not after the    *)
(* last operation.                                                         *)
(***************************************************************************)
LEMMA NotDueInTime ==
    ASSUME TypeOK, ClockInv, Prompt, ReconcileNotDue,
           NEW t \in Int, IsTick(Data.CurrentOperationSchedule, t),
           now < t + ScheduleDelta
    PROVE  \/ now < t /\ DueBy(t)'
           \/ t <= now /\ secret.scheduledAt # ZeroTime /\ t <= secret.scheduledAt
<1>1. /\ Data \in SleepInfoDatas /\ now \in Nat /\ ScheduleDelta \in Nat
      /\ Decision.nextSchedule \in Int
      /\ Decision.requeueAfter = Decision.nextSchedule - now
      /\ Decision.requeueAfter > ScheduleDelta
  BY DecisionType, ScheduleAssumption DEF TypeOK, ScheduleDelta
<1>2. /\ ~ Decision.isToExecute /\ AddAfter(Decision.requeueAfter)
      /\ errors' = errors
  BY DEF ReconcileNotDue
<1>3. \/ Decision.nextSchedule <= t
      \/ Data.LastSchedule # ZeroTime /\ t <= Data.LastSchedule
  <2>1. now - ScheduleDelta < t
    BY <1>1
  <2>2. QED
    BY <1>1, <1>2, <2>1, NotDueTick DEF Decision
<1>4. Decision.requeueAfter \in Nat \ {0}
  BY <1>1
<1>5. CASE Decision.nextSchedule <= t
  <2>1. now < t /\ now + Decision.requeueAfter <= t
    BY <1>1, <1>5
  <2>2. QED
    BY <1>2, <1>4, <2>1, TimerInTime
<1>6. CASE Data.LastSchedule # ZeroTime /\ t <= Data.LastSchedule
  <2>1. secret.scheduledAt \in Int
    BY DEF TypeOK
  <2>2. QED
    BY <1>1, <1>6, <2>1, DataIs
<1>7. QED
  BY <1>3, <1>5, <1>6

(***************************************************************************)
(* A reconcile that has something to execute: a tick of the current        *)
(* operation is within the delta, and every tick of the next operation     *)
(* beyond it has its timer, when that is set for the next operation.       *)
(***************************************************************************)
LEMMA DueInTime ==
    ASSUME TypeOK, ClockInv, Prompt, Decision.isToExecute, errors' = errors
    PROVE  /\ \E v \in Int : /\ IsTick(Data.CurrentOperationSchedule, v)
                             /\ now - ScheduleDelta <= v
                             /\ v <= now + ScheduleDelta
           /\ AddAfter(Decision.requeueAfter)
              => \A t \in Int : /\ IsTick(Data.NextOperationSchedule, t)
                                /\ now + ScheduleDelta < t
                                => DueBy(t)'
<1>1. /\ Data \in SleepInfoDatas /\ now \in Nat /\ ScheduleDelta \in Nat
      /\ Decision.nextSchedule \in Int
      /\ Decision.requeueAfter = Decision.nextSchedule - now
      /\ Decision.requeueAfter > ScheduleDelta
  BY DecisionType, ScheduleAssumption DEF TypeOK, ScheduleDelta
<1>2. /\ \E v \in Int : /\ IsTick(Data.CurrentOperationSchedule, v)
                        /\ now - ScheduleDelta <= v /\ v <= now + ScheduleDelta
      /\ \A t \in Int : /\ IsTick(Data.NextOperationSchedule, t)
                        /\ now + ScheduleDelta < t
           => Decision.nextSchedule <= t
  BY <1>1, DueTick DEF Decision
<1>3. ASSUME AddAfter(Decision.requeueAfter), NEW t \in Int,
             IsTick(Data.NextOperationSchedule, t), now + ScheduleDelta < t
      PROVE  DueBy(t)'
  <2>1. /\ Decision.requeueAfter \in Nat \ {0}
        /\ now + Decision.requeueAfter <= t
    BY <1>1, <1>2, <1>3
  <2>2. QED
    BY <1>3, <2>1, TimerInTime
<1>4. QED
  BY <1>2, <1>3

\* A reconcile is recorded no earlier than its second: a tick at most the delta
\* ahead is within the delta of the record.
LEMMA RecordedWithinDelta ==
    ASSUME TypeOK, NEW operation, UpsertSecret(operation),
           NEW s, NEW t \in Int, IsTick(s, t), t <= now + ScheduleDelta
    PROVE  secret'.scheduledAt >= t - ScheduleDelta
<1> DEFINE k == t - ScheduleDelta
<1>1. now \in Int /\ ScheduleDelta \in Nat
  BY ScheduleAssumption DEF TypeOK, ScheduleDelta
<1>2. k \in Int /\ k <= now
  BY <1>1
<1>3. k % Second = 0
  <2> DEFINE q == t \div Second
  <2>1. q \in Int /\ t = Second * q
    BY ScheduleAssumption DEF IsTick
  <2> HIDE DEF q
  <2>2. k = Second * (q - SleepDelta) + 0 /\ q - SleepDelta \in Int
    <3>1. k = Second * q - SleepDelta * Second
      BY <2>1 DEF ScheduleDelta
    <3> HIDE DEF k
    <3>2. QED
      BY <2>1, <3>1, ScheduleAssumption
  <2> DEFINE j == q - SleepDelta
  <2>3. j \in Int /\ k = Second * j + 0
    BY <2>2
  <2> HIDE DEF k, j
  <2>4. Second \in Nat \ {0} /\ 0 \in 0 .. (Second - 1)
    BY ScheduleAssumption
  <2>5. (Second * j + 0) % Second = 0
    BY <2>3, <2>4, DivMod
  <2>6. QED
    BY <2>3, <2>5
<1> HIDE DEF k
<1>4. IsTick({(k \div Second) % Period}, k)
  BY <1>3 DEF IsTick
<1>5. k <= FormatRFC3339(now) /\ FormatRFC3339(now) \in Int
  BY <1>1, <1>2, <1>4, FormatKeepsSecond
<1>6. secret'.scheduledAt = FormatRFC3339(now)
  BY DEF UpsertSecret
<1>7. QED
  BY <1>1, <1>2, <1>5, <1>6 DEF k

\* A step is one of the other steps, a reconcile or an execution.
LEMMA StepCases ==
    ASSUME [Next]_vars
    PROVE  \/ OtherStep
           \/ ReconcileNotDue \/ ReconcileOperation \/ ReconcileNoResource
           \/ UpsertAnswerLost
           \/ \E operation \in Operations : Execution(operation)
BY DEF Next, OtherStep

\* A reconcile reads the clock once, and the manager is up.
LEMMA ReconcileAnswers ==
    ASSUME ReconcileNotDue \/ ReconcileOperation \/ ReconcileNoResource
    PROVE  /\ UNCHANGED <<now, running, hasResource, errors, upAtTick, resourcesAtTick>>
           /\ \A t \in Int : Answers(t)' = Answers(t) /\ UpFor(t)' = UpFor(t)
BY DEF ReconcileNotDue, ReconcileOperation, ReconcileNoResource, Answers, UpFor, Quiet

-----------------------------------------------------------------------------
(***************************************************************************)
(* Without wakeUpAt: each sleep tick is recorded as served or due.  What a *)
(* Secret says is SLEEP, so that an execution finds nothing to do once     *)
(* there is one.                                                           *)
(***************************************************************************)

\* The Secret records a sleep in the window of t or later.
NightServed(t) ==
    secret.operationType = "SLEEP" /\ secret.scheduledAt >= t - ScheduleDelta

\* The inductive invariant behind SleepsEachNight.
NightInv ==
    WakeUpAt = NoSchedule =>
        /\ hasResource
        /\ secret.exists => secret.operationType = "SLEEP"
        /\ \A t \in Int : IsTick(SleepAt, t) /\ Answers(t)
                          => NightServed(t) \/ DueBy(t)

\* Every step keeps each tick served or due.
LEMMA NightInvNext ==
    ASSUME Prompt, ResourcesVary = FALSE, TypeOK, ClockInv, NightInv, [Next]_vars
    PROVE  NightInv'
<1> SUFFICES ASSUME WakeUpAt = NoSchedule PROVE NightInv'
  BY DEF NightInv
<1>0. /\ hasResource
      /\ secret.exists => secret.operationType = "SLEEP"
      /\ \A t \in Int : IsTick(SleepAt, t) /\ Answers(t)
                        => NightServed(t) \/ DueBy(t)
  BY DEF NightInv
<1>1. hasResource'
  <2>1. hasResource' = hasResource \/ ResourcesChange
    BY DEF Next, vars, Advance, SleepInfoEvent, ReconcileNotDue,
           ReconcileOperation, ReconcileNoResource, ReconcileError,
         UpsertAnswerLost, Execution,
           ManagerStops, ManagerStarts
  <2>2. ~ ResourcesChange
    BY DEF ResourcesChange
  <2>3. QED
    BY <1>0, <2>1, <2>2
<1>2. CASE OtherStep
  <2>1. ASSUME NEW t \in Int, IsTick(SleepAt, t), Answers(t)'
        PROVE  (NightServed(t) \/ DueBy(t))'
    <3>1. IsTick(SleepAt \cup WakeUpAt, t)
      BY <2>1, EitherTick
    <3>2. secret' = secret /\ (DueBy(t)' \/ (Answers(t) /\ ~ DueBy(t)))
      BY <1>2, <2>1, <3>1, OtherSteps
    <3>3. QED
      BY <1>0, <2>1, <3>2 DEF NightServed
  <2>2. secret' = secret
    BY <1>2 DEF OtherStep, Advance, SleepInfoEvent, ReconcileError, ManagerStops,
                ManagerStarts, ResourcesChange, vars
  <2>3. QED
    BY <1>0, <1>1, <2>1, <2>2 DEF NightInv
<1>3. CASE ReconcileNotDue
  <2>1. secret' = secret
    BY <1>3 DEF ReconcileNotDue
  <2>2. ASSUME NEW t \in Int, IsTick(SleepAt, t), Answers(t)'
        PROVE  (NightServed(t) \/ DueBy(t))'
    <3>1. NightServed(t) \/ DueBy(t)
      BY <1>0, <1>3, <2>2, ReconcileAnswers
    <3>2. CASE NightServed(t)
      BY <2>1, <3>2 DEF NightServed
    <3>3. CASE DueBy(t)
      <4>1. now < t + ScheduleDelta
        BY <3>3, DueByDeadline
      <4>2. \/ DueBy(t)'
            \/ secret.scheduledAt # ZeroTime /\ t <= secret.scheduledAt
        BY <1>3, <2>2, <4>1, DataIs, NotDueInTime
      <4>3. ASSUME secret.scheduledAt # ZeroTime, t <= secret.scheduledAt
            PROVE  NightServed(t)
        <5>1. secret.exists
          <6>1. NoSecret.scheduledAt = ZeroTime
            BY DEF NoSecret
          <6>2. QED
            BY <4>3, <6>1 DEF ClockInv
        <5>2. secret.scheduledAt >= t - ScheduleDelta
          BY <4>3, ScheduleAssumption DEF TypeOK, ScheduleDelta
        <5>3. QED
          BY <1>0, <5>1, <5>2 DEF NightServed
      <4>4. QED
        BY <2>1, <4>2, <4>3 DEF NightServed
    <3>4. QED
      BY <3>1, <3>2, <3>3
  <2>3. QED
    BY <1>0, <1>1, <2>1, <2>2 DEF NightInv
<1>4. CASE ReconcileOperation
  <2>1. /\ Decision.isToExecute /\ UpsertSecret("SLEEP")
        /\ AddAfter(Decision.requeueAfter) /\ errors' = errors
    BY <1>4, DataIs DEF ReconcileOperation
  <2>2. secret'.operationType = "SLEEP"
    BY <2>1, RecordedInTime
  <2>3. ASSUME NEW t \in Int, IsTick(SleepAt, t)
        PROVE  (NightServed(t) \/ DueBy(t))'
    <3>1. CASE t <= now + ScheduleDelta
      BY <2>1, <2>2, <2>3, <3>1, RecordedWithinDelta DEF NightServed
    <3>2. CASE now + ScheduleDelta < t
      BY <2>1, <2>3, <3>2, DataIs, DueInTime
    <3>3. now + ScheduleDelta \in Int
      BY ScheduleAssumption DEF TypeOK, ScheduleDelta
    <3>4. QED
      BY <3>1, <3>2, <3>3
  <2>4. QED
    BY <1>1, <2>2, <2>3 DEF NightInv
<1>5. ~ ReconcileNoResource
  BY <1>0 DEF ReconcileNoResource
<1>6. CASE \E operation \in Operations : Execution(operation)
  <2>1. PICK operation \in Operations : Execution(operation)
    BY <1>6
  <2>2. operation = "SLEEP" /\ secret.operationType # "SLEEP" /\ UpsertSecret("SLEEP")
    BY <2>1 DEF Execution, Operations
  <2>3. secret'.operationType = "SLEEP"
    BY <2>2, RecordedInTime
  <2>4. ASSUME NEW t \in Int, IsTick(SleepAt, t), Answers(t)'
        PROVE  DueBy(t)'
    <3>1. Answers(t)
      BY <2>1, <2>4 DEF Execution, Answers, UpFor, Quiet
    <3>2. DueBy(t)
      BY <1>0, <2>2, <2>4, <3>1 DEF NightServed
    <3>3. QED
      BY <2>1, <3>2 DEF Execution, DueBy
  <2>5. QED
    BY <1>1, <2>3, <2>4 DEF NightInv
<1>7. CASE UpsertAnswerLost
  <2>1. UpsertSecret("SLEEP")
    BY <1>0, <1>7, DataIs DEF UpsertAnswerLost
  <2>2. secret'.operationType = "SLEEP"
    BY <2>1, RecordedInTime
  <2>3. ASSUME NEW t \in Int, IsTick(SleepAt, t)
        PROVE  (NightServed(t) \/ DueBy(t))'
    <3>1. CASE t <= now + ScheduleDelta
      BY <2>1, <2>2, <2>3, <3>1, RecordedWithinDelta DEF NightServed
    <3>2. CASE now < t
      BY <1>7, <3>2, RetryAhead
    <3>3. now \in Nat /\ ScheduleDelta \in Nat
      BY ScheduleAssumption DEF TypeOK, ScheduleDelta
    <3>4. QED
      BY <3>1, <3>2, <3>3
  <2>4. QED
    BY <1>1, <2>2, <2>3 DEF NightInv
<1>8. QED
  BY <1>2, <1>3, <1>4, <1>5, <1>6, <1>7, StepCases

(***************************************************************************)
(* Without wakeUpAt every sleep tick with the manager up is served within  *)
(* the delta, for every schedule, delta and order of events, executions,   *)
(* failed reconciles and restarts, if the queue is prompt and the          *)
(* namespace always has resources (skipWakeUpIfSleepNotPerformed skips a   *)
(* night otherwise).                                                       *)
(***************************************************************************)
THEOREM SleepsEachNight ==
    ASSUME Prompt, ResourcesVary = FALSE
    PROVE  Spec => []SleepsEveryNight
<1> DEFINE Inv == LoopInv /\ ClockInv /\ NightInv
<1>1. Init => Inv
  <2> SUFFICES ASSUME Init PROVE Inv
    OBVIOUS
  <2>1. LoopInv /\ ClockInv
    BY LoopInvInit, ClockInvInit
  <2>2. hasResource /\ ~ secret.exists
    BY DEF Init, NoSecret
  <2>3. \A t \in Int : Answers(t) => DueBy(t)
    BY <2>1, StartInTime DEF LoopInv
  <2>4. QED
    BY <2>1, <2>2, <2>3 DEF NightInv
<1>2. Inv /\ [Next]_vars => Inv'
  BY LoopInvNext, ClockInvNext, NightInvNext DEF LoopInv
<1>3. Inv => SleepsEveryNight
  <2> SUFFICES ASSUME Inv, WakeUpAt = NoSchedule, Settled(SleepAt)
               PROVE  NightServed(LastTick(SleepAt))
    BY DEF SleepsEveryNight, NightServed
  <2>1. LastTickAnswers(SleepAt)
    BY LoopAssumption, SettledAnswers DEF LoopInv
  <2>2. QED
    BY <2>1 DEF NightInv, LastTickAnswers
<1>4. QED
  BY <1>1, <1>2, <1>3, PTL DEF Spec

-----------------------------------------------------------------------------
(***************************************************************************)
(* With wakeUpAt: what is asleep since before the window of a wake-up tick *)
(* has a reconcile due for it.                                             *)
(***************************************************************************)

\* The namespace is awake, or was put to sleep in the window of t or later.
WakeServed(t) ==
    secret.operationType # "SLEEP" \/ secret.scheduledAt >= t - ScheduleDelta

\* The inductive invariant behind WakesInTime.
WakeInv ==
    WakeUpAt # NoSchedule =>
        \A t \in Int : IsTick(WakeUpAt, t) /\ Answers(t)
                       => WakeServed(t) \/ DueBy(t)

\* Every step keeps it: a sleep sets the timer for the next wake up.
LEMMA WakeInvNext ==
    ASSUME Prompt, OnDemand = FALSE, TypeOK, ClockInv, WakeInv, [Next]_vars
    PROVE  WakeInv'
<1> SUFFICES ASSUME WakeUpAt # NoSchedule, NEW t \in Int, IsTick(WakeUpAt, t),
                    Answers(t)'
             PROVE  (WakeServed(t) \/ DueBy(t))'
  BY DEF WakeInv
<1>1. Answers(t) => WakeServed(t) \/ DueBy(t)
  BY DEF WakeInv
<1>2. CASE OtherStep
  <2>1. IsTick(SleepAt \cup WakeUpAt, t)
    BY EitherTick
  <2>2. secret' = secret /\ (DueBy(t)' \/ (Answers(t) /\ ~ DueBy(t)))
    BY <1>2, <2>1, OtherSteps
  <2>3. QED
    BY <1>1, <2>2 DEF WakeServed
<1>3. CASE ReconcileNotDue
  <2>1. secret' = secret
    BY <1>3 DEF ReconcileNotDue
  <2>2. CASE WakeServed(t)
    BY <2>1, <2>2 DEF WakeServed
  <2>3. CASE ~ WakeServed(t)
    <3>1. DueBy(t)
      BY <1>1, <1>3, <2>3, ReconcileAnswers
    <3>2. /\ secret.operationType = "SLEEP" /\ secret.scheduledAt < t
          /\ secret.scheduledAt \in Int
      BY <2>3, ScheduleAssumption DEF WakeServed, TypeOK, ScheduleDelta
    <3>3. now < t + ScheduleDelta
      BY <3>1, DueByDeadline
    <3>4. DueBy(t)' \/ t <= secret.scheduledAt
      BY <1>3, <3>2, <3>3, DataIs, NotDueInTime
    <3>5. QED
      BY <3>2, <3>4
  <2>4. QED
    BY <2>2, <2>3
<1>4. CASE ReconcileOperation
  <2>1. /\ Decision.isToExecute /\ UpsertSecret(Data.CurrentOperationType)
        /\ AddAfter(Decision.requeueAfter) /\ errors' = errors
    BY <1>4 DEF ReconcileOperation
  <2>2. CASE secret.operationType = "SLEEP"
    <3>1. secret'.operationType = "WAKE_UP"
      BY <2>1, <2>2, DataIs, RecordedInTime
    <3>2. QED
      BY <3>1 DEF WakeServed
  <2>3. CASE secret.operationType # "SLEEP"
    <3>1. CASE t <= now + ScheduleDelta
      BY <2>1, <3>1, RecordedWithinDelta DEF WakeServed
    <3>2. CASE now + ScheduleDelta < t
      BY <2>1, <2>3, <3>2, DataIs, DueInTime
    <3>3. now + ScheduleDelta \in Int
      BY ScheduleAssumption DEF TypeOK, ScheduleDelta
    <3>4. QED
      BY <3>1, <3>2, <3>3
  <2>4. QED
    BY <2>2, <2>3
<1>5. CASE ReconcileNoResource
  <2>1. secret'.operationType = NoOperation
    BY <1>5, RecordedInTime DEF ReconcileNoResource
  <2>2. QED
    BY <2>1 DEF WakeServed, NoOperation
<1>6. ~ \E operation \in Operations : Execution(operation)
  BY DEF Execution
<1>7. CASE UpsertAnswerLost
  <2>1. CASE now < t
    BY <1>7, <2>1, RetryAhead
  <2>2. CASE t <= now
    <3>1. t <= now + ScheduleDelta
      BY <2>2, ScheduleAssumption DEF TypeOK, ScheduleDelta
    <3>2. secret'.scheduledAt >= t - ScheduleDelta
      BY <1>7, <3>1, RecordedWithinDelta DEF UpsertAnswerLost
    <3>3. QED
      BY <3>2 DEF WakeServed
  <2>3. QED
    BY <2>1, <2>2 DEF TypeOK
<1>8. QED
  BY <1>2, <1>3, <1>4, <1>5, <1>6, <1>7, StepCases

(***************************************************************************)
(* With wakeUpAt, and without executions, what sleeps since before the     *)
(* window of a wake-up tick is woken up within the delta, for every pair   *)
(* of schedules, however close, every delta, and every order of events,    *)
(* failed reconciles, restarts and nights without resources, if the queue  *)
(* is prompt.                                                              *)
(***************************************************************************)
THEOREM WakesInTime ==
    ASSUME Prompt, OnDemand = FALSE
    PROVE  Spec => []AwakeWhenDue
<1> DEFINE Inv == LoopInv /\ ClockInv /\ WakeInv
<1>1. Init => Inv
  <2> SUFFICES ASSUME Init PROVE Inv
    OBVIOUS
  <2>1. LoopInv /\ ClockInv
    BY LoopInvInit, ClockInvInit
  <2>2. \A t \in Int : Answers(t) => DueBy(t)
    BY <2>1, StartInTime DEF LoopInv
  <2>3. QED
    BY <2>1, <2>2 DEF WakeInv
<1>2. Inv /\ [Next]_vars => Inv'
  BY LoopInvNext, ClockInvNext, WakeInvNext DEF LoopInv
<1>3. Inv => AwakeWhenDue
  <2> SUFFICES ASSUME Inv, WakeUpAt # NoSchedule, Settled(WakeUpAt),
                      secret.scheduledAt < LastTick(WakeUpAt) - ScheduleDelta
               PROVE  secret.operationType # "SLEEP"
    BY DEF AwakeWhenDue
  <2>1. LastTickAnswers(WakeUpAt)
    BY LoopAssumption, SettledAnswers DEF LoopInv
  <2>2. WakeServed(LastTick(WakeUpAt))
    BY <2>1 DEF WakeInv, LastTickAnswers
  <2>3. /\ LastTick(WakeUpAt) \in Int /\ secret.scheduledAt \in Int
        /\ ScheduleDelta \in Nat
    BY <2>1, ScheduleAssumption DEF LoopInv, TypeOK, ScheduleDelta, LastTickAnswers
  <2>4. QED
    BY <2>2, <2>3 DEF WakeServed
<1>4. QED
  BY <1>1, <1>2, <1>3, PTL DEF Spec

-----------------------------------------------------------------------------
(***************************************************************************)
(* With wakeUpAt, and ticks that alternate and are more than twice the     *)
(* delta apart: an open sleep tick is one with resources since its window  *)
(* opened, if it has, and no other tick since then.                        *)
(***************************************************************************)

\* A sleep and a wake up are never within twice the delta of each other.
TicksApart ==
    \A t, u \in Int : IsTick(SleepAt, t) /\ IsTick(WakeUpAt, u)
        => u + 2 * ScheduleDelta < t \/ t + 2 * ScheduleDelta < u

\* There is a wake up between any two sleeps.
TicksAlternate ==
    \A t, u \in Int : IsTick(SleepAt, t) /\ IsTick(SleepAt, u) /\ t < u
        => \E v \in Int : t < v /\ v < u /\ IsTick(WakeUpAt, v)

\* The sleep tick t is, or will be, the last one with resources in time.
Open(t) ==
    /\ IsTick(SleepAt, t)
    /\ Quiet(t, now + ScheduleDelta)
    /\ t - ScheduleDelta <= now => resourcesAtTick

(***************************************************************************)
(* The namespace is asleep or has a reconcile due for an open tick.  The   *)
(* reconcile finds the tick due because what the Secret records is earlier *)
(* than the tick, unless it is the sleep.                                  *)
(***************************************************************************)
SleepInv ==
    WakeUpAt # NoSchedule =>
        \A t \in Int : Open(t) =>
            /\ UpFor(t) => secret.operationType = "SLEEP" \/ DueBy(t)
            /\ t - ScheduleDelta <= now /\ secret.exists
               => secret.operationType = "SLEEP" \/ secret.scheduledAt < t

\* No step but the clock opens a tick, and the clock only the next one.
LEMMA OpenBefore ==
    ASSUME TypeOK, [Next]_vars, NEW t \in Int, Open(t)'
    PROVE  Open(t)
<1>0. now \in Nat /\ ScheduleDelta \in Nat
  BY ScheduleAssumption DEF TypeOK, ScheduleDelta
<1>1. /\ IsTick(SleepAt, t)
      /\ \A u \in Int : t < u /\ u <= now' + ScheduleDelta
                        => ~ IsTick(SleepAt \cup WakeUpAt, u)
      /\ t - ScheduleDelta <= now' => resourcesAtTick'
  BY DEF Open, Quiet
<1>2. CASE Advance
  <2>1. /\ now' = now + 1
        /\ resourcesAtTick' = IF IsTick(SleepAt, now' + ScheduleDelta)
                              THEN hasResource ELSE resourcesAtTick
    BY <1>2 DEF Advance
  <2>2. Quiet(t, now + ScheduleDelta)
    <3>1. ASSUME NEW u \in Int, u <= now + ScheduleDelta
          PROVE  u <= now' + ScheduleDelta
      BY <1>0, <2>1, <3>1
    <3>2. QED
      BY <1>1, <3>1 DEF Quiet
  <2>3. ASSUME t - ScheduleDelta <= now
        PROVE  resourcesAtTick
    <3>1. /\ now' + ScheduleDelta \in Int /\ t < now' + ScheduleDelta
          /\ now' + ScheduleDelta <= now' + ScheduleDelta
      BY <1>0, <2>1, <2>3
    <3>2. ~ IsTick(SleepAt, now' + ScheduleDelta)
      BY <1>1, <3>1, EitherTick
    <3>3. t - ScheduleDelta <= now'
      BY <1>0, <2>1, <2>3
    <3>4. QED
      BY <1>1, <2>1, <3>2, <3>3
  <2>4. QED
    BY <1>1, <2>2, <2>3 DEF Open
<1>3. CASE ~ Advance
  <2>1. now' = now /\ (resourcesAtTick' = resourcesAtTick \/ ~ resourcesAtTick')
    BY <1>3 DEF Next, vars, SleepInfoEvent, ReconcileNotDue,
                ReconcileOperation, ReconcileNoResource, ReconcileError,
         UpsertAnswerLost, Execution,
                ManagerStops, ManagerStarts, ResourcesChange
  <2>2. Quiet(t, now + ScheduleDelta)
    BY <1>1, <2>1 DEF Quiet
  <2>3. t - ScheduleDelta <= now => resourcesAtTick
    BY <1>1, <2>1
  <2>4. QED
    BY <1>1, <2>2, <2>3 DEF Open
<1>4. QED
  BY <1>2, <1>3

\* An instant is not later than a later one.
LEMMA Later ==
    ASSUME NEW u \in Int, NEW t \in Nat, NEW d \in Nat, u <= t
    PROVE  u <= t + d
OBVIOUS

\* The loop answers for an open tick if the manager is up.
LEMMA OpenAnswers ==
    ASSUME TypeOK, NEW t \in Int, Open(t)
    PROVE  Answers(t) <=> UpFor(t)
<1>1. now \in Nat /\ ScheduleDelta \in Nat
  BY ScheduleAssumption DEF TypeOK, ScheduleDelta
<1>2. Quiet(t, now)
  BY <1>1 DEF Open, Quiet
<1>3. QED
  BY <1>2 DEF Answers

\* A wake up that is due keeps the loop from no open tick: its own tick is
\* more than twice the delta before that.
LEMMA WakeUpIsBefore ==
    ASSUME TypeOK, TicksApart, NEW v \in Int, IsTick(WakeUpAt, v),
           now - ScheduleDelta <= v, v <= now + ScheduleDelta,
           NEW t \in Int, Open(t)
    PROVE  now + ScheduleDelta < t
<1>1. now \in Nat /\ ScheduleDelta \in Nat
  BY ScheduleAssumption DEF TypeOK, ScheduleDelta
<1>2. ~ (t < v)
  BY EitherTick DEF Open, Quiet
<1>3. v + 2 * ScheduleDelta < t \/ t + 2 * ScheduleDelta < v
  BY DEF TicksApart, Open
<1>4. QED
  BY <1>1, <1>2, <1>3

(***************************************************************************)
(* A night without resources: the timer that skips the wake up is in time  *)
(* for the next sleep tick, since the wake up comes between the two.       *)
(***************************************************************************)
LEMMA SkipInTime ==
    ASSUME TypeOK, ClockInv, Prompt, TicksApart, TicksAlternate,
           WakeUpAt # NoSchedule, secret.operationType # "SLEEP",
           ReconcileNoResource,
           NEW t \in Int, IsTick(SleepAt, t), now + ScheduleDelta < t
    PROVE  DueBy(t)'
<1> DEFINE next == Decision.nextSchedule
           r == SkipWakeUpIfSleepNotPerformed(SleepAt, next, now)
<1>1. /\ Data \in SleepInfoDatas /\ now \in Nat /\ ScheduleDelta \in Nat
      /\ next \in Int /\ next > now
  BY DecisionType, ScheduleAssumption DEF TypeOK, ScheduleDelta
<1>2. /\ Data.CurrentOperationType = "SLEEP"
      /\ Data.CurrentOperationSchedule = SleepAt
      /\ Data.NextOperationSchedule = WakeUpAt
  BY DataIs
<1>3. Decision.isToExecute /\ AddAfter(r) /\ errors' = errors
  BY <1>2 DEF ReconcileNoResource
<1>4. /\ \E v \in Int : /\ IsTick(SleepAt, v)
                        /\ now - ScheduleDelta <= v /\ v <= now + ScheduleDelta
      /\ \A u \in Int : IsTick(WakeUpAt, u) /\ now + ScheduleDelta < u
                        => next <= u
  BY <1>1, <1>2, <1>3, DueTick DEF Decision
<1> HIDE DEF next
<1>5. PICK v \in Int : /\ IsTick(SleepAt, v)
                       /\ now - ScheduleDelta <= v /\ v <= now + ScheduleDelta
  BY <1>4
<1>6. v < t
  BY <1>1, <1>5
<1>7. PICK u \in Int : v < u /\ u < t /\ IsTick(WakeUpAt, u)
  BY <1>5, <1>6 DEF TicksAlternate
<1>8. now + ScheduleDelta < u
  <2>1. u + 2 * ScheduleDelta < v \/ v + 2 * ScheduleDelta < u
    BY <1>5, <1>7 DEF TicksApart
  <2>2. QED
    BY <1>1, <1>5, <1>7, <2>1
<1>9. next < t
  BY <1>1, <1>4, <1>7, <1>8
<1>10. r \in Nat \ {0} /\ now + r <= t
  <2>1. CronNext(SleepAt, next) <= t /\ CronNext(SleepAt, next) \in Int
    BY <1>1, <1>9, CronNextLeast, CronNextIsFirst, LoopAssumption
  <2>2. r \in Nat \ {0}
    BY <1>1, LoopAssumption, SkipWakeUpIsLater
  <2>3. r = CronNext(SleepAt, next) - now
    BY DEF SkipWakeUpIfSleepNotPerformed, GetRequeueAfter
  <2>4. QED
    BY <1>1, <2>1, <2>2, <2>3
<1> HIDE DEF r
<1>11. QED
  BY <1>3, <1>10, TimerInTime

\* Every step keeps it.
LEMMA SleepInvNext ==
    ASSUME Prompt, OnDemand = FALSE, TicksApart, TicksAlternate,
           TypeOK, TypeOK', ClockInv, SleepInv, [Next]_vars
    PROVE  SleepInv'
<1> SUFFICES ASSUME WakeUpAt # NoSchedule, NEW t \in Int, Open(t)'
             PROVE  /\ UpFor(t)' => secret'.operationType = "SLEEP" \/ DueBy(t)'
                    /\ t - ScheduleDelta <= now' /\ secret'.exists
                       => secret'.operationType = "SLEEP" \/ secret'.scheduledAt < t
  BY DEF SleepInv
<1>0. now \in Nat /\ ScheduleDelta \in Nat /\ secret.scheduledAt \in Int
  BY ScheduleAssumption DEF TypeOK, ScheduleDelta
<1>1. Open(t) /\ IsTick(SleepAt, t) /\ IsTick(SleepAt \cup WakeUpAt, t)
  BY OpenBefore, EitherTick DEF Open
<1>2. /\ UpFor(t) => secret.operationType = "SLEEP" \/ DueBy(t)
      /\ t - ScheduleDelta <= now /\ secret.exists
         => secret.operationType = "SLEEP" \/ secret.scheduledAt < t
  BY <1>1 DEF SleepInv
<1>3. CASE OtherStep
  <2>1. secret' = secret
    BY <1>3 DEF OtherStep, Advance, SleepInfoEvent, ReconcileError, ManagerStops,
                ManagerStarts, ResourcesChange, vars
  <2>2. ASSUME UpFor(t)' PROVE secret'.operationType = "SLEEP" \/ DueBy(t)'
    <3>1. Answers(t)'
      <4>1. \A u \in Int : t < u /\ u <= now' + ScheduleDelta
                           => ~ IsTick(SleepAt \cup WakeUpAt, u)
        BY DEF Open, Quiet
      <4>2. ASSUME NEW u \in Int, u <= now' PROVE u <= now' + ScheduleDelta
        <5>1. now' \in Nat
          BY DEF TypeOK
        <5>2. QED
          BY <1>0, <4>2, <5>1, Later
      <4>3. QED
        BY <2>2, <4>1, <4>2 DEF Answers, Quiet
    <3>2. DueBy(t)' \/ (UpFor(t) /\ ~ DueBy(t))
      BY <1>1, <1>3, <3>1, OtherSteps DEF Answers
    <3>3. QED
      BY <1>2, <2>1, <3>2
  <2>3. ASSUME t - ScheduleDelta <= now', secret'.exists
        PROVE  secret'.operationType = "SLEEP" \/ secret'.scheduledAt < t
    <3>1. CASE t - ScheduleDelta <= now
      BY <1>2, <2>1, <2>3, <3>1
    <3>2. CASE now < t - ScheduleDelta
      <4>1. secret.scheduledAt <= now
        BY <2>1, <2>3 DEF ClockInv
      <4>2. secret.scheduledAt < t
        BY <1>0, <3>2, <4>1
      <4>3. QED
        BY <2>1, <4>2
    <3>3. QED
      BY <1>0, <3>1, <3>2
  <2>4. QED
    BY <2>2, <2>3
<1>4. CASE ReconcileNotDue
  <2>1. secret' = secret /\ now' = now
    BY <1>4 DEF ReconcileNotDue
  <2>2. ASSUME UpFor(t)', secret.operationType # "SLEEP" PROVE DueBy(t)'
    <3>1. DueBy(t)
      BY <1>2, <1>4, <2>2, ReconcileAnswers
    <3>2. now < t + ScheduleDelta
      BY <3>1, DueByDeadline
    <3>3. \/ DueBy(t)'
          \/ t <= now /\ secret.scheduledAt # ZeroTime /\ t <= secret.scheduledAt
      BY <1>1, <1>4, <2>2, <3>2, DataIs, NotDueInTime
    <3>4. ASSUME t <= now, secret.scheduledAt # ZeroTime, t <= secret.scheduledAt
          PROVE  FALSE
      <4>1. secret.exists
        <5>1. NoSecret.scheduledAt = ZeroTime
          BY DEF NoSecret
        <5>2. QED
          BY <3>4, <5>1 DEF ClockInv
      <4>2. t - ScheduleDelta <= now
        BY <1>0, <3>4
      <4>3. QED
        BY <1>0, <1>2, <2>2, <3>4, <4>1, <4>2
    <3>5. QED
      BY <3>3, <3>4
  <2>3. QED
    BY <1>2, <2>1, <2>2
<1>5. ASSUME ReconcileOperation \/ ReconcileNoResource, secret.operationType = "SLEEP"
      PROVE  DueBy(t)' /\ now' = now /\ now + ScheduleDelta < t
  <2>1. /\ Decision.isToExecute /\ AddAfter(Decision.requeueAfter)
        /\ errors' = errors /\ now' = now
    BY <1>5, DataIs DEF ReconcileOperation, ReconcileNoResource
  <2>2. PICK v \in Int : /\ IsTick(WakeUpAt, v)
                         /\ now - ScheduleDelta <= v /\ v <= now + ScheduleDelta
    BY <1>5, <2>1, DataIs, DueInTime
  <2>3. now + ScheduleDelta < t
    BY <1>1, <2>2, WakeUpIsBefore
  <2>4. QED
    BY <1>1, <1>5, <2>1, <2>3, DataIs, DueInTime
<1>6. CASE ReconcileOperation
  <2>1. CASE secret.operationType = "SLEEP"
    BY <1>0, <1>5, <1>6, <2>1
  <2>2. CASE secret.operationType # "SLEEP"
    BY <1>6, <2>2, DataIs, RecordedInTime DEF ReconcileOperation
  <2>3. QED
    BY <2>1, <2>2
<1>7. CASE ReconcileNoResource
  <2>1. CASE secret.operationType = "SLEEP"
    BY <1>0, <1>5, <1>7, <2>1
  <2>2. CASE secret.operationType # "SLEEP"
    <3>1. ~ resourcesAtTick /\ now' = now
      BY <1>7 DEF ReconcileNoResource, ClockInv
    <3>2. now + ScheduleDelta < t
      BY <1>0, <1>1, <3>1 DEF Open
    <3>3. DueBy(t)'
      BY <1>1, <1>7, <2>2, <3>2, SkipInTime
    <3>4. QED
      BY <1>0, <3>1, <3>2, <3>3
  <2>3. QED
    BY <2>1, <2>2
<1>8. ~ \E operation \in Operations : Execution(operation)
  BY DEF Execution
<1>9. CASE UpsertAnswerLost
  <2>1. ASSUME now + ScheduleDelta < t
        PROVE  DueBy(t)' /\ secret'.scheduledAt < t
    <3>1. now < t
      BY <1>0, <2>1
    <3>2. secret'.scheduledAt <= now /\ secret'.scheduledAt \in Int
      BY <1>9, RecordedInTime DEF UpsertAnswerLost, TypeOK
    <3>3. QED
      BY <1>0, <1>9, <3>1, <3>2, RetryAhead
  <2>2. CASE secret.operationType = "SLEEP"
    <3>1. PICK v \in Int : /\ IsTick(WakeUpAt, v)
                           /\ now - ScheduleDelta <= v /\ v <= now + ScheduleDelta
      <4>1. Data \in SleepInfoDatas /\ Decision.isToExecute
        BY <1>9, DecisionType DEF UpsertAnswerLost
      <4>2. QED
        BY <1>0, <2>2, <4>1, DataIs, DueTick DEF Decision
    <3>2. now + ScheduleDelta < t
      BY <1>1, <3>1, WakeUpIsBefore
    <3>3. QED
      BY <2>1, <3>2
  <2>3. CASE secret.operationType # "SLEEP" /\ hasResource
    <3>1. UpsertSecret("SLEEP")
      BY <1>9, <2>3, DataIs DEF UpsertAnswerLost
    <3>2. QED
      BY <3>1, RecordedInTime
  <2>4. CASE ~ hasResource
    <3>1. ~ resourcesAtTick
      BY <2>4 DEF ClockInv
    <3>2. now + ScheduleDelta < t
      BY <1>0, <1>1, <3>1 DEF Open
    <3>3. QED
      BY <2>1, <3>2
  <2>5. QED
    BY <2>2, <2>3, <2>4
<1>10. QED
  BY <1>3, <1>4, <1>6, <1>7, <1>8, <1>9, StepCases

(***************************************************************************)
(* With wakeUpAt, and without executions, a sleep tick with the manager up *)
(* and resources since before its window is served within the delta,       *)
(* for every delta, every pair of schedules whose ticks alternate and are  *)
(* more than twice the delta apart, and every order of events, failed      *)
(* reconciles, restarts and nights without resources, if the queue is      *)
(* prompt.                                                                 *)
(***************************************************************************)
THEOREM SleepsInTime ==
    ASSUME Prompt, OnDemand = FALSE, TicksApart, TicksAlternate
    PROVE  Spec => []AsleepWhenDue
<1> DEFINE Inv == LoopInv /\ ClockInv /\ SleepInv
<1>1. Init => Inv
  <2> SUFFICES ASSUME Init PROVE Inv
    OBVIOUS
  <2>1. LoopInv /\ ClockInv
    BY LoopInvInit, ClockInvInit
  <2>2. \A t \in Int : Open(t) /\ UpFor(t) => DueBy(t)
    BY <2>1, OpenAnswers, StartInTime DEF LoopInv
  <2>3. ~ secret.exists
    BY DEF Init, NoSecret
  <2>4. QED
    BY <2>1, <2>2, <2>3 DEF SleepInv
<1>2. Inv /\ [Next]_vars => Inv'
  BY LoopInvNext, ClockInvNext, SleepInvNext DEF LoopInv
<1>3. Inv => AsleepWhenDue
  <2> SUFFICES ASSUME Inv, WakeUpAt # NoSchedule, Settled(SleepAt), resourcesAtTick
               PROVE  secret.operationType = "SLEEP"
    BY DEF AsleepWhenDue
  <2>1. LastTickAnswers(SleepAt)
    BY LoopAssumption, SettledAnswers DEF LoopInv
  <2>2. Open(LastTick(SleepAt))
    <3> DEFINE t == LastTick(SleepAt)
    <3>1. \A u \in (t + 1) .. (now + ScheduleDelta) :
            ~ IsTick(SleepAt \cup WakeUpAt, u)
      BY DEF Settled
    <3>2. t \in Int /\ IsTick(SleepAt, t) /\ now \in Nat /\ ScheduleDelta \in Nat
      BY <2>1, ScheduleAssumption DEF LastTickAnswers, LoopInv, TypeOK, ScheduleDelta
    <3> HIDE DEF t
    <3>3. Quiet(t, now + ScheduleDelta)
      <4>1. ASSUME NEW u \in Int, t < u, u <= now + ScheduleDelta
            PROVE  u \in (t + 1) .. (now + ScheduleDelta)
        BY <3>2, <4>1
      <4>2. QED
        BY <3>1, <4>1 DEF Quiet
    <3>4. QED
      BY <3>2, <3>3 DEF Open, t
  <2>3. QED
    BY <2>1, <2>2 DEF SleepInv, LastTickAnswers, Answers
<1>4. QED
  BY <1>1, <1>2, <1>3, PTL DEF Spec

=============================================================================
