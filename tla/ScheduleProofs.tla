--------------------------- MODULE ScheduleProofs ---------------------------
(***************************************************************************)
(* What getNextSchedule guarantees, for every delta and every pair of cron *)
(* schedules.                                                              *)
(***************************************************************************)
EXTENDS Schedule, WellFoundedInduction, TLAPS

(***************************************************************************)
(* Arithmetic behind the model of a cron schedule.                         *)
(***************************************************************************)

\* Two quotients of the same number by d are the same.
LEMMA QuotientUnique ==
    ASSUME NEW d \in Nat \ {0}, NEW j \in Int, NEW k \in Int,
           NEW q \in 0 .. (d - 1), NEW r \in 0 .. (d - 1),
           d * j + q = d * k + r
    PROVE  j = k /\ q = r
<1>1. d * (j - k) = r - q
  OBVIOUS
<1>2. ~ (j - k >= 1)
  <2>1. SUFFICES ASSUME j - k >= 1 PROVE FALSE
    OBVIOUS
  <2>2. d * (j - k) >= d
    BY <2>1
  <2>3. QED
    BY <1>1, <2>2
<1>3. ~ (j - k <= -1)
  <2>1. SUFFICES ASSUME j - k <= -1 PROVE FALSE
    OBVIOUS
  <2>2. d * (j - k) <= - d
    BY <2>1
  <2>3. QED
    BY <1>1, <2>2
<1>4. QED
  BY <1>1, <1>2, <1>3

\* The quotient and the remainder of a number written as d * k + r.
LEMMA DivMod ==
    ASSUME NEW d \in Nat \ {0}, NEW k \in Int, NEW r \in 0 .. (d - 1)
    PROVE  (d * k + r) \div d = k /\ (d * k + r) % d = r
<1> DEFINE a == d * k + r
<1>1. a \in Int
  OBVIOUS
<1>2. /\ a \div d \in Int
      /\ a % d \in 0 .. (d - 1)
      /\ a = d * (a \div d) + (a % d)
  BY <1>1
<1> HIDE DEF a
<1>3. d * (a \div d) + (a % d) = d * k + r
  BY <1>2 DEF a
<1>4. a \div d = k /\ a % d = r
  BY <1>2, <1>3, QuotientUnique
<1>5. QED
  BY <1>4 DEF a

\* A non-empty set of natural numbers has a least element.
LEMMA LeastNatural ==
    ASSUME NEW T \in SUBSET Nat, T # {}
    PROVE  \E x \in T : \A y \in T : x <= y
<1>1. PICK x \in T : \A y \in T : ~ (<<y, x>> \in OpToRel(<, Nat))
  BY NatLessThanWellFounded, WFMin
<1>2. \A y \in T : ~ (y < x)
  BY <1>1 DEF OpToRel
<1>3. QED
  BY <1>2

\* Every schedule fires at least once in any stretch of a period.
LEMMA TickWithinPeriod ==
    ASSUME NEW s \in CronSchedules, NEW t \in Int
    PROVE  \E n \in (t + 1) .. (t + Second * Period) : IsTick(s, n)
<1> USE ScheduleAssumption
<1>1. PICK p \in s : p \in 0 .. (Period - 1)
  BY DEF CronSchedules, NoSchedule
<1> DEFINE L == Second * Period
           x == Second * p - (t + 1)
           q == x \div L
           n == t + 1 + (x % L)
           k == p - Period * q
<1>2. L \in Nat \ {0} /\ x \in Int
  BY <1>1
<1>3. x % L \in 0 .. (L - 1) /\ q \in Int /\ x = L * q + (x % L)
  <2> HIDE DEF L, x
  <2> QED BY <1>2
<1>4. n \in (t + 1) .. (t + L) /\ k \in Int
  <2> HIDE DEF L, x, q
  <2> QED BY <1>1, <1>2, <1>3
<1>5. n = Second * k + 0
  <2>1. n = Second * p - L * q
    <3> HIDE DEF L, q
    <3> QED BY <1>1, <1>2, <1>3
  <2>2. L * q = Second * (Period * q)
    <3> HIDE DEF q
    <3> QED BY <1>3
  <2>3. Second * p - Second * (Period * q) = Second * k
    <3> HIDE DEF q
    <3> QED BY <1>1, <1>3
  <2>4. n = Second * k
    <3> HIDE DEF L, q, n, k
    <3> QED BY <2>1, <2>2, <2>3
  <2>5. Second * k \in Int
    <3> HIDE DEF k
    <3> QED BY <1>4
  <2>6. QED
    <3> HIDE DEF n, k
    <3> QED BY <2>4, <2>5
<1>6. n % Second = 0 /\ n \div Second = k
  <2> HIDE DEF n, k
  <2> QED BY <1>4, <1>5, DivMod
<1>7. k % Period = p
  <2>1. k = Period * (- q) + p /\ - q \in Int
    <3> HIDE DEF q
    <3> QED BY <1>1, <1>3
  <2> HIDE DEF k, q
  <2>2. QED
    BY <1>1, <2>1, DivMod
<1>8. IsTick(s, n)
  <2> HIDE DEF n, k
  <2> QED BY <1>1, <1>6, <1>7 DEF IsTick
<1>9. QED
  BY <1>4, <1>8

\* Schedule.Next returns the first tick strictly after its argument.
LEMMA CronNextIsFirst ==
    ASSUME NEW s \in CronSchedules, NEW t \in Int
    PROVE  /\ CronNext(s, t) \in Int
           /\ CronNext(s, t) > t
           /\ IsTick(s, CronNext(s, t))
           /\ \A m \in Int : t < m /\ m < CronNext(s, t) => ~ IsTick(s, m)
<1> DEFINE L == Second * Period
           T == {d \in 1 .. L : IsTick(s, t + d)}
<1>0. L \in Nat
  BY ScheduleAssumption
<1> HIDE DEF L
<1>1. PICK n \in (t + 1) .. (t + L) : IsTick(s, n)
  BY TickWithinPeriod DEF L
<1>2. n - t \in T
  <2>1. n - t \in 1 .. L /\ t + (n - t) = n
    BY <1>0, <1>1
  <2>2. QED
    BY <1>1, <2>1
<1>3. T \in SUBSET Nat /\ T # {}
  <2>1. \A d \in T : d \in Nat
    BY <1>0
  <2>2. QED
    BY <1>2, <2>1
<1>4. PICK d \in T : \A e \in T : d <= e
  <2> HIDE DEF T
  <2> QED BY <1>3, LeastNatural
<1>5. \E f \in (t + 1) .. (t + L) :
        /\ IsTick(s, f)
        /\ \A m \in (t + 1) .. (f - 1) : ~ IsTick(s, m)
  <2>1. t + d \in (t + 1) .. (t + L) /\ IsTick(s, t + d)
    BY <1>0, <1>4
  <2>2. ASSUME NEW m \in (t + 1) .. (t + d - 1), IsTick(s, m)
        PROVE  FALSE
    <3>1. m - t \in 1 .. L /\ t + (m - t) = m /\ m - t < d
      BY <1>0, <1>4
    <3>2. m - t \in T
      BY <2>2, <3>1
    <3>3. QED
      BY <1>0, <1>4, <3>1, <3>2
  <2>3. QED
    BY <2>1, <2>2
<1>6. /\ CronNext(s, t) \in (t + 1) .. (t + L)
      /\ IsTick(s, CronNext(s, t))
      /\ \A m \in (t + 1) .. (CronNext(s, t) - 1) : ~ IsTick(s, m)
  BY <1>5 DEF CronNext, L
<1>7. QED
  BY <1>0, <1>6

\* The Secret holds the second of the operation, never a later one, and a tick
\* that is not after the operation is not after what the Secret holds.
LEMMA FormatKeepsSecond ==
    ASSUME NEW t \in Int
    PROVE  /\ FormatRFC3339(t) \in Int
           /\ FormatRFC3339(t) <= t
           /\ \A s, k : k \in Int /\ IsTick(s, k) /\ k <= t
                          => k <= FormatRFC3339(t)
<1> USE ScheduleAssumption
<1>1. /\ t % Second \in 0 .. (Second - 1) /\ t \div Second \in Int
      /\ t = Second * (t \div Second) + (t % Second)
  OBVIOUS
<1>2. FormatRFC3339(t) \in Int /\ FormatRFC3339(t) <= t
  BY <1>1 DEF FormatRFC3339
<1>3. ASSUME NEW s, NEW k \in Int, IsTick(s, k), k <= t
      PROVE  k <= FormatRFC3339(t)
  <2> DEFINE a == k \div Second
             b == t \div Second
  <2>1. a \in Int /\ b \in Int /\ k = Second * a /\ FormatRFC3339(t) = Second * b
    BY <1>1, <1>3 DEF IsTick, FormatRFC3339
  <2>2. Second * b + Second > t
    BY <1>1
  <2> HIDE DEF a, b
  <2>3. a <= b
    <3>1. SUFFICES ASSUME a >= b + 1 PROVE FALSE
      BY <2>1
    <3>2. Second * a >= Second * b + Second
      BY <2>1, <3>1
    <3>3. QED
      BY <1>3, <2>1, <2>2, <3>2
  <2>4. Second * a <= Second * b
    BY <2>1, <2>3
  <2>5. QED
    BY <2>1, <2>4
<1>4. QED
  BY <1>2, <1>3

-----------------------------------------------------------------------------
SleepInfoDatas ==
    [LastSchedule : Int, CurrentOperationType : Operations,
     CurrentOperationSchedule : CronSchedules,
     NextOperationSchedule : CronSchedules]

\* getSleepInfoData never leaves a schedule empty, with or without a wakeUpAt.
LEMMA SleepInfoDataType ==
    ASSUME NEW sleepSchedule \in CronSchedules,
           NEW wakeUpSchedule \in CronSchedules \cup {NoSchedule},
           NEW secret \in [exists : BOOLEAN, scheduledAt : Int,
                           operationType : Operations \cup {NoOperation}]
    PROVE  GetSleepInfoData(secret, sleepSchedule, wakeUpSchedule)
             \in SleepInfoDatas
<1>1. ZeroTime \in Int
  BY ScheduleAssumption DEF ZeroTime, ScheduleDelta
<1>2. QED
  BY <1>1 DEF GetSleepInfoData, NewSleepInfoData, CurrentOperation,
              SleepInfoDatas, Operations, NoOperation

(***************************************************************************)
(* The tick getNextSchedule weighs is a tick of the current operation, is  *)
(* after the last operation, and is not farther in the past than the delta. *)
(***************************************************************************)
LEMMA CandidateTickIsFresh ==
    ASSUME NEW data \in SleepInfoDatas, NEW now \in Nat
    PROVE  LET tick == CandidateTick(data, now)
           IN  /\ tick \in Int
               /\ IsTick(data.CurrentOperationSchedule, tick)
               /\ tick >= now - ScheduleDelta
               /\ data.LastSchedule # ZeroTime => tick > data.LastSchedule
<1> DEFINE last == data.LastSchedule
           sched == data.CurrentOperationSchedule
           d == ScheduleDelta
           fromNow == CronNext(sched, now - d)
           fromLast == CronNext(sched, last)
<1>1. last \in Int /\ sched \in CronSchedules
  BY DEF SleepInfoDatas
<1>2. d \in Nat
  BY ScheduleAssumption DEF ScheduleDelta
<1>3. fromNow \in Int /\ fromNow > now - d /\ IsTick(sched, fromNow)
  <2> HIDE DEF sched, d
  <2> QED BY <1>1, <1>2, CronNextIsFirst
<1>4. fromLast \in Int /\ fromLast > last /\ IsTick(sched, fromLast)
  <2> HIDE DEF sched, last
  <2> QED BY <1>1, CronNextIsFirst
<1>5. CASE last = ZeroTime
  <2>1. now - d # ZeroTime
    BY <1>2 DEF ZeroTime
  <2>2. CandidateTick(data, now) = fromNow
    BY <1>5, <2>1 DEF CandidateTick
  <2> HIDE DEF fromNow, sched, last, d
  <2>3. QED
    BY <1>2, <1>3, <1>5, <2>2 DEF d, sched, last
<1>6. CASE last # ZeroTime
  <2>1. CandidateTick(data, now) =
          IF fromLast < now /\ ~ IsTimeInDelta(fromLast, now, d)
          THEN fromNow ELSE fromLast
    BY <1>6 DEF CandidateTick
  <2> HIDE DEF fromNow, fromLast
  <2>2. CASE fromLast < now /\ ~ IsTimeInDelta(fromLast, now, d)
    <3>1. fromLast < now - d
      <4> HIDE DEF d
      <4> QED BY <1>2, <1>4, <2>2 DEF IsTimeInDelta
    <3>2. fromNow > last
      <4> HIDE DEF d, last
      <4> QED BY <1>1, <1>2, <1>3, <1>4, <3>1
    <3>3. CandidateTick(data, now) = fromNow
      BY <2>1, <2>2
    <3> HIDE DEF sched, last, d
    <3>4. QED
      BY <1>2, <1>3, <3>2, <3>3 DEF d, sched, last
  <2>3. CASE ~ (fromLast < now /\ ~ IsTimeInDelta(fromLast, now, d))
    <3>1. fromLast >= now - d
      <4> HIDE DEF d
      <4> QED BY <1>2, <1>4, <2>3 DEF IsTimeInDelta
    <3>2. CandidateTick(data, now) = fromLast
      BY <2>1, <2>3
    <3> HIDE DEF sched, last, d
    <3>3. QED
      BY <1>4, <3>1, <3>2 DEF d, sched, last
  <2>4. QED
    BY <2>2, <2>3
<1>7. QED
  BY <1>5, <1>6

(***************************************************************************)
(* getNextSchedule always asks to be called again later than the delta,    *)
(* whether it executes or not: RequeueAfter is positive for every delta    *)
(* (0 included) and every schedule, so that the work queue sets a timer,   *)
(* and the timer is outside the window of the tick just served.            *)
(***************************************************************************)
THEOREM RequeueBeyondDelta ==
    ASSUME NEW data \in SleepInfoDatas, NEW now \in Nat
    PROVE  LET next == GetNextSchedule(data, now)
           IN  /\ next.nextSchedule \in Int
               /\ next.requeueAfter = next.nextSchedule - now
               /\ next.requeueAfter > ScheduleDelta
<1> DEFINE tick == CandidateTick(data, now)
           d == ScheduleDelta
           nextOp == CronNext(data.NextOperationSchedule, now + d)
<1>1. d \in Nat
  BY ScheduleAssumption DEF ScheduleDelta
<1>2. tick \in Int /\ tick >= now - d
  BY CandidateTickIsFresh
<1>3. nextOp \in Int /\ nextOp > now + d
  <2>1. data.NextOperationSchedule \in CronSchedules
    BY DEF SleepInfoDatas
  <2> HIDE DEF d
  <2>2. QED
    BY <1>1, <2>1, CronNextIsFirst
<1> HIDE DEF tick, nextOp
<1>4. CASE IsTimeInDelta(now, tick, d)
  <2>1. /\ GetNextSchedule(data, now).nextSchedule = nextOp
        /\ GetNextSchedule(data, now).requeueAfter = nextOp - now
    BY <1>4 DEF GetNextSchedule, GetRequeueAfter, tick, nextOp
  <2> HIDE DEF d
  <2>2. QED
    BY <1>1, <1>3, <2>1 DEF d
<1>5. CASE ~ IsTimeInDelta(now, tick, d)
  <2>1. /\ GetNextSchedule(data, now).nextSchedule = tick
        /\ GetNextSchedule(data, now).requeueAfter = tick - now
    BY <1>5 DEF GetNextSchedule, GetRequeueAfter, tick
  <2> HIDE DEF d
  <2>2. tick > now + d
    BY <1>1, <1>2, <1>5 DEF IsTimeInDelta
  <2>3. QED
    BY <1>1, <1>2, <2>1, <2>2 DEF d
<1>6. QED
  BY <1>4, <1>5

-----------------------------------------------------------------------------
\* Schedule.Next returns nothing later than a tick that is to come.
LEMMA CronNextLeast ==
    ASSUME NEW s \in CronSchedules, NEW t \in Int, NEW m \in Int,
           IsTick(s, m), t < m
    PROVE  CronNext(s, t) <= m
BY CronNextIsFirst

(***************************************************************************)
(* When getNextSchedule has nothing to execute, its next schedule is the   *)
(* first tick of the current operation that is not farther in the past     *)
(* than the delta and not before the last operation.                       *)
(***************************************************************************)
LEMMA NotDueTick ==
    ASSUME NEW data \in SleepInfoDatas, NEW now \in Nat,
           ~ GetNextSchedule(data, now).isToExecute,
           NEW t \in Int, IsTick(data.CurrentOperationSchedule, t),
           now - ScheduleDelta < t
    PROVE  \/ GetNextSchedule(data, now).nextSchedule <= t
           \/ data.LastSchedule # ZeroTime /\ t <= data.LastSchedule
<1> DEFINE last == data.LastSchedule
           sched == data.CurrentOperationSchedule
           fromNow == CronNext(sched, now - ScheduleDelta)
           fromLast == CronNext(sched, last)
           next == GetNextSchedule(data, now).nextSchedule
<1>1. last \in Int /\ sched \in CronSchedules /\ now - ScheduleDelta \in Int
  BY ScheduleAssumption DEF SleepInfoDatas, ScheduleDelta
<1>2. fromNow <= t
  <2> HIDE DEF sched
  <2> QED BY <1>1, CronNextLeast DEF sched
<1>3. last < t => fromLast <= t
  <2> HIDE DEF sched, last
  <2> QED BY <1>1, CronNextLeast DEF sched
<1>4. next = CandidateTick(data, now)
  BY DEF GetNextSchedule
<1>5. \/ CandidateTick(data, now) = fromNow
      \/ CandidateTick(data, now) = fromLast /\ last # ZeroTime
  BY DEF CandidateTick
<1> HIDE DEF fromNow, fromLast, next, last
<1>6. next <= t \/ (last # ZeroTime /\ t <= last)
  BY <1>1, <1>2, <1>3, <1>4, <1>5
<1>7. QED
  BY <1>6 DEF next, last

(***************************************************************************)
(* When getNextSchedule has something to execute, a tick of the current    *)
(* operation is within the delta, and the next schedule is no later than   *)
(* any tick of the next operation beyond the delta.                        *)
(***************************************************************************)
LEMMA DueTick ==
    ASSUME NEW data \in SleepInfoDatas, NEW now \in Nat,
           GetNextSchedule(data, now).isToExecute
    PROVE  /\ \E v \in Int : /\ IsTick(data.CurrentOperationSchedule, v)
                             /\ now - ScheduleDelta <= v /\ v <= now + ScheduleDelta
           /\ \A t \in Int : /\ IsTick(data.NextOperationSchedule, t)
                             /\ now + ScheduleDelta < t
                => GetNextSchedule(data, now).nextSchedule <= t
<1> DEFINE tick == CandidateTick(data, now)
           sched == data.NextOperationSchedule
           next == CronNext(sched, now + ScheduleDelta)
<1>1. /\ ScheduleDelta \in Nat /\ now + ScheduleDelta \in Int
      /\ sched \in CronSchedules
  BY ScheduleAssumption DEF SleepInfoDatas, ScheduleDelta
<1>2. tick \in Int /\ IsTick(data.CurrentOperationSchedule, tick)
  BY CandidateTickIsFresh
<1>3. /\ IsTimeInDelta(now, tick, ScheduleDelta)
      /\ GetNextSchedule(data, now).nextSchedule = next
  BY DEF GetNextSchedule
<1>4. ASSUME NEW t \in Int, IsTick(sched, t), now + ScheduleDelta < t
      PROVE  next <= t
  <2> HIDE DEF sched
  <2> QED BY <1>1, <1>4, CronNextLeast DEF sched
<1> HIDE DEF tick, next
<1>5. now - ScheduleDelta <= tick /\ tick <= now + ScheduleDelta
  BY <1>1, <1>2, <1>3 DEF IsTimeInDelta
<1>6. QED
  BY <1>2, <1>3, <1>4, <1>5

=============================================================================
