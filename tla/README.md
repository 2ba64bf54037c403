# A TLA+ specification of kube-green

kube-green is a Kubernetes operator that puts the workloads of a namespace to
sleep and wakes them up again, at the times of a `SleepInfo` or on demand of a
`SleepInfoExecution`. This directory holds a specification of its two
controllers, the configurations with which TLC checks it and proofs that TLAPS
checks. Paths below are relative to `src/`.

## The system

| Part | Source | State | Operations |
|------|--------|-------|------------|
| Schedule arithmetic | `internal/controller/sleepinfo/schedule.go`, `sleepinfodata.go` | none | when is the current operation due, when to come back |
| SleepInfo controller | `sleepinfo_controller.go` | work queue and timers, in memory | `Reconcile` |
| SleepInfoExecution controller | `sleepinfoexecution_controller.go` | work queue, phase of the execution | `Reconcile` |
| Resources | `jsonpatch/jsonpatch.go`, `resource/resource.go` | the list and the restore patches of one reconcile | `NewResources`, `Sleep`, `WakeUp`, `GetOriginalInfoToSave` |
| Resource selection | `jsonpatch/genericresources.go` | none | list of a target with include and exclude filters |
| Secret | `secrets.go`, `sleepinfodata.go` | `scheduled-at`, `operation-type`, `original-resource-info` | `getSecret`, `upsertSecret` |
| API types | `api/v1alpha1` | spec and status of SleepInfo and execution | schedules, patches, `Validate`, `IsProcessed` |
| Patcher | `internal/patcher` | none | JSON patch of a document |
| Old Secrets | `deployments/`, `cronjobs/` | none | conversion of two legacy keys |
| Webhook | `internal/webhook/v1alpha1` | none | validation |
| Metrics | `metrics/` | one gauge | set and delete |
| Manager | `cmd/main.go` | none | wiring |

The Secret is the only memory kube-green has between two operations: the last
operation, when it was performed, and one restore patch per workload. Both
controllers run in one process, each with a queue of its own, and both do the
same with the namespace: read the SleepInfo from the informer cache, read the
Secret from the API server, list the resources, patch them one by one, replace
the Secret, update statuses. Nothing excludes one from the other, the workloads
are patched without a resourceVersion, and the original state of a workload is
only in memory from the moment it is scaled down until the Secret is written.

What is hard to test in it, and what the properties are about:

- the two controllers, users, the garbage collector and the watches interleave
  between any two API calls;
- an API call fails, its answer is lost, or the process ends, in the middle;
- the SleepInfo and the executions are read from a cache that lags behind;
- users edit the documents that a patch and its restore patch are made for, and
  the SleepInfo with its filters and patches, while workloads sleep;
- the requeue loop has no other clock than the `RequeueAfter` it computes, from
  an instant that was truncated to a second;
- the operation to perform next is derived from what the Secret says was last.

## Modules

| Module | Models |
|--------|--------|
| `SleepInfoData` | which operation is current; which execution cannot be performed |
| `Schedule` | `getSleepInfoData`, `getNextSchedule`, `isTimeInDelta`, `skipWakeUpIfSleepNotPerformed` as operators on integers |
| `ScheduleLoop` | the SleepInfo controller in time: clock, queue, timers, Secret |
| `Cluster` | the objects in the API server, users, garbage collector, watch |
| `ManagedResources` | what both controllers do to resources, Secret and status, one step per API call |
| `SleepInfoReconciler` | `SleepInfoReconciler.Reconcile` split at its API calls |
| `ExecutionReconciler` | `SleepInfoExecutionReconciler.Reconcile` split at its API calls, its queue and cache |
| `KubeGreen` | both controllers, users, faults and restarts together; the properties |
| `SleepCycle` | abstract: what a workload goes through, without Secret, lists or reconciles |
| `JSONDocuments` | JSON patch, merge patch and Server Side Apply as operators on documents; `patcher.Exec`, `IsResourceChanged` |
| `ResourceSelection` | filters, selectors, the limited list, `filterByName`; what the filters are documented to mean |
| `ResourceCycle` | one resource with its document through sleeps and wake ups; webhook, `GetPatches`, old Secrets |
| `ScheduleProofs`, `ScheduleLoopProofs`, `KubeGreenProofs`, `SleepCycleProofs`, `StatusProofs`, `JSONDocumentsProofs`, `ResourceSelectionProofs`, `ResourceCycleProofs` | theorems |
| `MCScheduleLoop`, `MCKubeGreen`, `MCResourceCycle` | the instances TLC checks |

Three views of the same `Reconcile` divide the work. `ScheduleLoop` has the clock
and makes a reconcile one step; `KubeGreen` has every API call as a step and no
clock: there a tick may be due at any time; `ResourceCycle` has the contents of
one resource, a list and an operation as steps, and of the failures only a patch
that the API server refuses.

### Schedule and ScheduleLoop

Time is an integer. `Second` is the number of units in a second (1000 in the
program, since `isTimeInDelta` compares milliseconds). A cron schedule is the
set of seconds of a `Period` at which it fires; `CronNext` stands for
`cron.Schedule.Next`. Weekdays, time zones and the parser are inside this
abstraction. The zero `time.Time` is an instant that no clock shows.

`now` is the clock, `queuedAt` and `due` are the queue entry and the pending
timer of the key, `secret` what the Secret holds. `ReconcileNotDue`,
`ReconcileOperation` and `ReconcileNoResource` are the three ways `Reconcile`
returns without an error, `ReconcileError` the ways it fails before anything is
recorded, `UpsertAnswerLost` the one in which the Secret is written and
`upsertSecret` still returns an error.
`AddAfter` is controller-runtime's: it keeps the earlier of two timers and does
nothing for a value that is not positive. `Execution` is what the loop can see
of the other controller. `ManagerStops` drops queue and timers.

### Cluster, ManagedResources and the reconcilers

A workload is reduced to the value of the fields its patch sets. `SleepValue`
is the value at which the patch changes nothing, so `Sleep` skips a workload at
that value ("an empty patch means that the resource is not changed") and
`WakeUp` skips one that is not at it. A restore patch is the value to go back to.

`job[p]` holds the local variables of the reconcile of controller `p`: where it
is (`step`), the list (`data`), the restore patches, what is left to patch.
`sleepInfo.holders` is the set of copies that have the current
resourceVersion: an update of the status from any other copy is refused. The
cached copy changes only when the watch delivers (`SyncSleepInfo`).
`before[w]` is a history variable: the value kube-green replaced by
`SleepValue`, until it wakes `w` up or a user changes `w`. A workload that a
user changed after it was listed has no such value: the change is overwritten
unseen, and the properties say nothing of it.

The order of the lists, and of the patches, is left open. The code goes through
targets in the order of a Go map and through the items of a list in order, so
the model has more interleavings than the code for two workloads of one target.

Of a workload that was deleted after the list, `WakeUp` ignores the `NotFound`.
`Sleep` does not get one: Server Side Apply creates what is not there. The sparse
object has only the identifiers and the patched fields, so a workload is created
from them when they make a valid object (`Creatable`), and otherwise the apply is
refused as invalid (`PatchRefused`), which ends `Sleep` and the reconcile with an
error (`SleepRefused`, `ExecCallRefused`). This is no fault: a user's deletion at
the wrong moment is enough.

A sleep that ends with an error, or with its process, takes the restore patches of
what it had patched with it: `Unsaved`. The history variable `lost` collects these
workloads, until they are patched again.

Faults are counted up to `MaxFaults`. `FaultKinds` says which may happen: a list
fails (`"list"`, which `NewResources` only logs), another call fails (`"call"`),
a write is performed and its answer lost (`"answer"`), the manager ends and a new
one starts (`"restart"`).

### SleepCycle

The promise to a workload: `Sleep` remembers its value, `WakeUp` gives that very
value back, and besides these only two things make kube-green forget it: a user's
change of the workload, and the failure of the very sleep that patched it
(`SleepFails`, `SleepFailsAt`; `pending` is what the sleep in progress has patched).
A failure never touches what an earlier sleep remembered. `KubeGreen` implements it
with `value <- workload`, `remembered <- Remembered` (`before`, without what is
`lost`), `pending <- Pending` and `progress <- job` (`ImplementsSleepCycle`):
whatever Secret, lists and restore patches do in between are stuttering steps.
`progress` tells who acts: a user's `Edit` leaves it alone, so a patch with a wrong
value cannot pass for one. `Overwrite` is what a user has to accept: neither patch
carries a resourceVersion, so a change made after the list is overwritten and a
workload deleted after it is created again, and a workload of which nothing is
remembered, but an older restore patch is still in the Secret, is given that value.

### JSONDocuments, ResourceSelection and ResourceCycle

A document maps every path it has to a leaf or to `Object`; `Above[p]` are the
paths that lead to `p`. A merge patch is a document in which `Null` removes. This
form needs no recursion over documents; `Exec` is a recursive function on the
operations of a patch. Both keep the operators within the prover's reach.
json-patch and the API server are external and modelled from how the code uses
them: `add` with `EnsurePathExistsOnAdd` creates parents, `replace` fails for a
path that is not there, Server Side Apply with `ForceOwnership` merges what it is
sent and removes what its manager owned and does not send any more.

`ResourceSelection` has one operator per function of `genericresources.go`, and
below them `Wanted`: what the comments on `ExcludeRef` and `IncludeRef` say. The
rules of `ExcludeRef` "are evaluated in AND condition"; `getLabelsToExclude` makes a
requirement of each label, so that a resource with any one of them is left out.

In `ResourceCycle` a reconcile is `ListResources` (`getSleepInfoData`, the old
keys, `NewResources`) followed by `Sleep`, `WakeUp` or `NoResource`, each with its
`upsertSecret`, or by `OperationFails` (a patch that is empty or does not parse) or
`SleepRefused` (the API server does not accept the patch of the resource, or that of
a neighbour, before or after the resource was patched), which leave the Secret as it
is. Users edit the document, its labels, its neighbours and the SleepInfo between any
two of them; an edit of the SleepInfo has to pass `Validate`. The execution controller performs the same
operations under guards that choose the same one, so it needs no actions of its
own. `shadow` is the document as users alone would have made it, `slept` the patch
that put it to sleep. `disturbed` marks the cases in which the code gives no
guarantee, until the next wake up:

- a user changed a path that the patch sets, or something below an object that
  the patch created: `WakeUp` leaves such a resource alone or removes the object;
- a second sleep changed the resource once more, after an edit of the patch or of
  a patched field: its restore patch replaces the first one;
- a sleep sends fewer fields than kube-green owns, and Server Side Apply removes
  the others. It takes a patch of two fields, one of them edited while asleep and
  not restored, and another sleep: then only the edited field changes, only it is
  sent, and the other one, `spec.replicas` say, is removed.

`slept.lost` marks a resource whose restore patch was never saved, its sleep having
failed, or was dropped by a wake up that did not list it or by an operation that
listed nothing.

## Runs

| Run | Shows |
|-----|-------|
| `schedule_pair` | `NeverStalls`, `AsleepWhenDue`, `AwakeWhenDue`: sleep and wake-up ticks are served within the delta |
| `schedule_sleep_only` | `SleepsEveryNight` without `wakeUpAt`; `TickNotRepeated` although executions rewrite the Secret at any time |
| `cron` | the SleepInfo controller alone, with users who change, delete and create workloads, failed calls, lost answers and restarts: `RestoreDataKept`, `AsleepIsRecorded`, `RecordedIsNamed`, `ScheduledFromCurrentSpec`, `ImplementsSleepCycle` |
| `exec` | the execution controller alone, with the same users and failures: `RestoreDataKept`, `AsleepIsRecorded`, `ImplementsSleepCycle` |
| `faults` | both, with every kind of fault: `OriginalsNotAsleep`, `PhaseIsFinal` |
| `live` | the execution controller with a fault and deletion: `ExecutionsEnd`, `SecretIsCollected` |
| `resources` | the document of one resource: `Transparent`, `WakesWhatSlept`, `SelectedAsDocumented` |

`AwakeWhenDue` is checked without executions. With `OnDemand` it does not hold:
after a SLEEP on demand the SleepInfo controller still waits for `sleepAt`, and the
next `wakeUpAt` passes. `AsleepWhenDue` is, too: a WAKE_UP on demand ends the night,
as the user asked.

`RestoreDataKept` and `AsleepIsRecorded` speak of `Remembered`: they leave out what a
sleep patched before it failed, which is lost (`sleep_fails`), and say that a failure,
wherever it strikes, costs nothing more. `RecordedIsNamed` says the same of status and
Secret: a failure between the two writes sets them apart, and the retry never records
an operation under the status of another.

`SelectedAsDocumented` makes three exceptions. A filter never matches by name a
resource of the core group: `matchPatchTargetAndFilterRef` looks for the group and
a slash in front of the apiVersion, and `v1` has none. A reference of `excludeRef`
with several labels excludes what has any of them. And a list is cut at its limit,
before `filterByName`. Without one of them TLC finds the property violated.

Five runs show a disagreement between the code and what a document, a comment or
a test says of it:

| Run | What happens |
|-----|--------------|
| `schedule_night_skipped` | Without `wakeUpAt`, after a night without resources the timer is set two nights ahead. `skipWakeUpIfSleepNotPerformed` skips a tick that is not a wake up. |
| `race` | A scheduled and a forced sleep overlap. The one that lists second finds the workloads scaled down and has nothing to save; its Secret is the one that stays. |
| `sleep_fails` | A call fails after the first patch of a sleep. The retry skips the workloads already patched and records the sleep without their original state. A refused patch of a deleted workload does the same. |
| `wakeup_list_fails` | The list of one of two targets fails at wake up. WAKE_UP is recorded and the Secret emptied with the workload of that target asleep. |
| `performed_skipped` | The SleepInfo status update of an execution is refused, its cached copy being stale, after the operation was performed. The retry ends as Skipped. |

Several definitions are preceded by a *variant*: the definition with a plausible
mistake in it. Put in the place of the definition, each one makes TLC find a
violation of a property of a run above (`mutants` in `PROJECT.json`), which
shows that the property depends on the code it is about. No specification uses
them.

### Bounds

- `ScheduleLoop`: a period of 12 seconds of two units, delta 2 seconds, sleep at
  3 and wake up at 8. Ticks are more than twice the delta apart, as they are with
  the default delta of 60 seconds unless sleepAt and wakeUpAt are within two
  minutes of each other, and they alternate. `AsleepWhenDue` needs both, see
  `SleepsInTime` below. Two units in a second make truncation visible. 70
  units are almost three periods: a night without resources, the night after it
  and one more. The start times are on, between and just before ticks.
- `KubeGreen`: one or two targets with one workload each. `cron` has two, so that a
  sleep can fail between two patches; one can be created by an apply, the other
  cannot. It has two faults, the second one in the retry after the first, and two
  values: it confuses a value with `None` or with `SleepValue`, not with another one
  awake. With three values and one fault it was checked as well, in four minutes.
  `exec` has one workload with three values, one asleep and two awake, one execution
  of each operation and one fault. Values are copied, never computed. Workloads that
  another controller owns or to which the patch does not apply, which `Sleep` skips,
  are among those of `resources`; the theorems have any number of either.
- `ResourceCycle`: a Deployment, a Pod of the core group and a Pod that a
  controller owns, named 3, with up to two neighbours before it in a list limited
  to two items; a field that the default patch sets and a map with two keys, one of
  which patches set, present or not. Six values of `patches` and eleven of the
  filters, among them one and several names, one and several labels, names with
  labels, an exclude of an included name, another group with the same kind, and a
  core resource. Two edits at any time, any number of operations; three edits were checked as well and take
  six minutes. Leaves have two values: values are copied, never computed.
- Deadlock is not checked in `ScheduleLoop` and `KubeGreen`: the clock stops at its bound, and without users and
  faults there is nothing left to do once the executions have ended.

### Fairness

`FairSpec` assumes weak fairness of the worker of the execution controller (a key
whose handler failed comes back through the rate limiter), of the watches, one for
each kind, and of the garbage collector. No user, fault or tick is assumed to happen. `live` runs the execution controller without the
SleepInfo controller: a scheduled operation that changes the status between
every read and update of an execution would keep it from ending, and only the
clock, which this view does not have, excludes that.

## Proofs

`ScheduleProofs` proves facts about the operators, for every schedule, delta and
unit of time: `CronNext` returns the first tick after an instant and one exists
within a period; truncation keeps the second; the tick that `getNextSchedule`
compares with the clock is later than the last schedule; and
`RequeueBeyondDelta`: `getNextSchedule` always returns a positive
`RequeueAfter`, beyond the delta after an operation.

`ScheduleLoopProofs` proves of the loop, for every value of its constants,

- `LoopTypeCorrect`: `Spec => []TypeOK`;
- `LoopNeverStalls`: `Spec => []NeverStalls`, by `RequeueBeyondDelta` and the
  fact that the timer `AddAfter` sets for a positive value is pending;
- `LoopTickNotRepeated`: `Spec => TickNotRepeated`. The inductive invariant adds
  to the types that the recorded instant of an existing Secret is a real one and
  not the zero time, without which `getNextSchedule` would take the recorded
  instant for a missing one;

and, under hypotheses that the theorems name, that ticks are served in time:

- `SleepsEachNight`: `Spec => []SleepsEveryNight`, with executions, restarts and
  failures;
- `WakesInTime`: `Spec => []AwakeWhenDue`, for every pair of schedules;
- `SleepsInTime`: `Spec => []AsleepWhenDue`, nights without resources included.

All three assume `Prompt`: the failed reconciles, each with its delay in the rate
limiter and in the queue, and the lag of the last one take less than the delta. A
reconcile that comes later finds the window of its tick closed. In the runs it is 3
units of 4. The other hypotheses exclude what the code does not do; TLC
finds the property violated without each of them:

- `ResourcesVary = FALSE` in `SleepsEachNight`: without `wakeUpAt` a night without
  resources costs the next one too (`schedule_night_skipped`).
- `OnDemand = FALSE` in the other two: see above.
- `TicksApart` in `SleepsInTime`: a sleep and a wake up are more than twice the delta
  apart. With an operation `getNextSchedule` returns the first tick more than the
  delta after the clock. When a wake up at 0 is served a second late or more, with
  a delta of 2 seconds and a sleep at 3, that is the sleep of the next period.
- `TicksAlternate` in `SleepsInTime`: there is a wake up between any two sleeps. With
  two sleeps before the wake up, and no resources at the first,
  `skipWakeUpIfSleepNotPerformed` sets the timer for the first sleep after the wake
  up, and the second sleep passes.

None of the three properties is inductive: they speak of a tick that is past and
settled, and whether it was served depends on what queue and timer held before.
`DueBy(t)` says that the queue or the timer brings a reconcile before the window of
`t` closes, even if every failure that is left happens (`Budget`). `NightInv`,
`WakeInv` and `SleepInv` say of every tick, past or to come, that the loop answers
for, that it is served or `DueBy`: an operation sets the timer for the next tick, a
failure spends some of the budget, the clock cannot pass a timer by more than the
lag, and a restart queues the key. `SleepInv` also says that the Secret records
nothing later than an open tick but its sleep, so that the reconcile finds the tick
due. `ClockInv` relates queue, timer and Secret to the clock. `NotDueTick` and
`DueTick` of `ScheduleProofs` say which ticks `getNextSchedule` passes over: without
an operation those whose window is closed or that are not later than the recorded
instant, with one those up to the delta after the clock. The invariants were
checked with TLC on the states of `schedule_pair` and `schedule_sleep_only` first.

`KubeGreenProofs` proves of both controllers together, with any number of
workloads, targets and executions, all edits and all faults,

- `TypeCorrect`: `Spec => []TypeOK`. `TypeOK` alone is not inductive: a failed
  call puts `Current` back in the queue, so `TypeInv` adds `ExecutionHeld`: an
  execution reconcile in progress has read an execution, and one without a phase.
- `OriginalsCorrect`: `Spec => []OriginalsNotAsleep`. What `Sleep` records next
  comes from its list, not from the cluster, so `OriginalsInv` adds that the
  workloads a sleep has left to patch were listed awake. `ToSleep` establishes
  it, `Patch` uses it, and everything else returns, or copies restore patches
  from the Secret or to it.
- `PhaseFinal`: `Spec => PhaseIsFinal`. A phase is written only from a current
  copy, and by `ExecutionHeld` that copy had none.

`SleepCycleProofs` proves, for any number of workloads, targets and executions,
under the assumption `Alone` (one of the two controllers runs, no list fails, and
nobody edits the targets or deletes the SleepInfo; users do what they like to the
workloads and edit `wakeUpAt`, calls fail, answers are lost and the manager restarts
at any time),

- `RestoreDataSafe`: `Spec => []RestoreDataKept`;
- `AsleepRecorded`: `Spec => []AsleepIsRecorded`;
- `SleepCycleImplemented`: `Spec => ImplementsSleepCycle`.

`Alone` is needed: the runs `race` and `wakeup_list_fails` show what happens without
it, and a target that is no longer listed drops its restore patches. All three
follow from one inductive invariant, `CycleInv`, which says for each step of the
worker where the remembered value of a workload is. A workload with one is at
`SleepValue` (`AsleepInv`). Outside `Sleep` and `WakeUp` the Secret has the value and
says SLEEP (`SecretInv`). While the targets are listed the restore patches still are
those of the Secret, and what sleeps is listed as asleep (`ListInv`). In a sleep the
value is among the restore patches, what is left to patch was listed awake, and the
Secret still has the value of whatever this sleep did not patch (`SleepInv`): that is
why a failure, which throws the restore patches away, costs no more than what is in
`Unsaved`. In a wake up what is remembered is what is left to patch, with that value
both in the Secret and as its restore patch (`WakeUpInv`), so a wake up that fails
costs nothing. Without edits of workloads and without faults nothing is lost
(`LostInv`) and the restore patches are exact (`Exact`), which is what the refinement
needs of `WakeUp` then. `CycleStep` is the refinement step, with one lemma for each
kind of step: `PatchStep`, `PatchLostStep` (the answer is lost), `SaveStep`,
`FailStep` (any error, and a restart) and `StutterStep`. `CycleInv` was checked with
TLC on the instances of `cron` and `exec`, with and without faults, before
it was proved.

`StatusProofs` proves of the status, which `Reconcile` writes before the operation,

- `OperationFromCurrentSpec`: `Spec => ScheduledFromCurrentSpec`, with both
  controllers, all edits and all faults. The invariant `CopiesInv` says what a
  reconcile took from the SleepInfo it read: while the copy in hand is current, the
  `wakeUpAt` and the targets of the list are those of the SleepInfo. A stale copy
  may say anything, and it does not get past the update of the status.
- `StatusNamesOperation`: `Spec => RecordedIsNamed` when there are no executions
  (`Workers = {"cron"}`), with all edits, deletions and faults, failing lists included.
  The execution controller writes the Secret first and the status after it, so the
  theorem is not about it. `StatusInv` says that from the update of the status on,
  until the Secret is written, the status names what the Secret will.
  TLC checked `CopiesInv` with both controllers and all faults before it was proved.

`JSONDocumentsProofs` proves of all documents

- `RestoreExact`: the restore patch merged into the patched document is the
  original;
- `RestoreKeepsEdits`: if a user set or removed a path that is neither one of those
  that Sleep changed nor above or below one, the merge gives the original with that
  path set or removed;
- `ExecTwice`: a patch whose operations are `Separate`, each on a path apart from
  those of the others, leaves its own result as it is.

The first two rest on `MissingIsChanged`: whatever the original lacks, the restore
patch removes, or it replaces something above. What `Exec` computes is proved by
induction on the number of operations applied, as a set of numbers that holds 0 and
with each number the next one (`NaturalsAll`). They are what `Cluster` takes
for granted when it reduces a restore patch to a value to go back to.

`ResourceSelectionProofs` proves `ListsWhatFiltersSay`: for all items, targets and
filters `GetListByNamespace` is `Wanted`, unless a reference names a resource of the
core group, a reference of `excludeRef` has several labels or more items match the
selectors than `Limit`. The step that takes an argument is `NamesIncluded`: one name goes into a field selector, several names go
into `filterByName`, and a name that comes twice counts as several.

`ResourceCycleProofs` proves of the document of one resource, for all documents,
patches, filters and orders of edits and operations,

- `DocumentsStayDocuments`: `Spec => []TypeOK`;
- `CycleIsTransparent`: `Spec => []Transparent`;
- `ListsAsDocumented`: `Spec => SelectedAsDocumented`, from `ListsWhatFiltersSay`;
- `SleepersWake`: `Spec => WakesWhatSlept` under `PatchesSeparate`: the operations of
  each patch are `Separate`. `WakeUp` recognises a sleeping resource by applying the
  patch once more. With a patch that adds `/notes/a` and then replaces `/notes` as a
  whole the second application fails, and the resource is skipped; TLC
  shows this when such a patch is among `PatchLists`, and that the invariant holds
  all the same. The patches of the run are separate.

They follow from one inductive invariant, `CycleInv` (of this module).
`Transparent` is not inductive: what a wake up makes of the document depends on the
restore patch. `PatchedInv` therefore adds to it that document and `shadow` differ
within the paths of the sleep only, and that the restore patch, in the Secret or
converted from an old key, makes `shadow` of the document and touches nothing outside
these paths (`Restores`), so that an edit elsewhere does not matter to it. `PendingInv` says the
same of the patches that a reconcile makes of the copy it listed, while users go on
to edit the document. `RestoreInv` says that a restore patch is kept exactly
for what sleeps or was dropped, and `JobInv` that a reconcile in progress still has
the restore patch of the Secret and a patch that parses. Every conjunct was checked
with TLC on the states of `resources` first.

The assumptions are `ScheduleAssumption`, `LoopAssumption`, `ClusterAssumption`
and `WorkersAssumption`: types and ranges of the constants, and `None` is not a
value of a workload; `PathsAssumption`: the paths above a path are a chain without
infinite descent, and `Object` and `Null` are not leaves; `FailedAssumption`,
`CycleAssumption` and `SelectionAssumption`: `Failed` and `None` are not documents,
patches and setups are well formed, names are numbers, the neighbours are finitely
many, and an old Secret has an entry only for a resource that the default patch of an
old key put to sleep. TLC evaluates all of them on the instances.

Model-checked only: the liveness properties `ExecutionsEnd` and
`SecretIsCollected`, since fairness and ENABLED are out of the prover's reach. Every
other property of a passing run is stated by a theorem.

## Not modelled

- The JSON patch operations `remove`, `move`, `copy` and `test`: what Server Side
  Apply does with the null that a removed field becomes is up to the API server and
  the schema. Lists are leaves; a patch that appends to a list is not idempotent,
  and `IsResourceChanged` then holds at every wake up.
- Schema defaults: a field that is removed may come back with a default value.
- The gauge `current_sleepinfo`, set at each reconcile and deleted when the
  SleepInfo is gone: nothing reads it, and one worker has the key.
- Two SleepInfos over the same workloads; two managers without leader election;
  a SleepInfo created again under the name of a deleted one.
- A Secret that a user edited so that it cannot be parsed.
- Flags, TLS, certificates, probes, generated code, charts: no state.
