-------------------------- MODULE SleepCycleProofs --------------------------
(***************************************************************************)
(* A controller that runs alone, over a SleepInfo whose targets do not     *)
(* change, keeps the restore data of what it puts to sleep and implements  *)
(* SleepCycle: whatever users do to the workloads meanwhile, and whatever  *)
(* calls and processes fail, as long as no list does.                      *)
(***************************************************************************)
EXTENDS KubeGreenProofs

Alone ==
    /\ \E p \in {"cron", "exec"} : Workers = {p}
    /\ "list" \notin FaultKinds
    /\ UserEdits \subseteq {"workload", "wakeUpAt"}

Undisturbed == ~ SleepsFail

\* What sleeps, but for what a Sleep patched before it failed.
Known(w) == before[w] # None /\ w \notin lost

\* The Secret has its value, and says that it sleeps.
Saved(w) == secret.original[w] = before[w] /\ secret.operationType = "SLEEP"

\* The restore patches have the value of everything that sleeps.
Remembers(patches) ==
    \A w \in Workloads : Known(w) => patches[w] = before[w]

\* They have nothing else.
Exact(patches) ==
    \A w \in Workloads : patches[w] # None => before[w] = patches[w]

-----------------------------------------------------------------------------
(***************************************************************************)
(* The inductive invariant: where the restore data is at each step of a    *)
(* reconcile.                                                              *)
(***************************************************************************)
SpecInv ==
    /\ sleepInfo.spec.exists
    /\ sleepInfo.spec.targets = Targets
    /\ sleepInfo.cached.targets = Targets

AsleepInv ==
    \A w \in Workloads :
        before[w] # None => /\ workload[w] = SleepValue
                            /\ w \notin Controlled \cup Unpatchable

LostInv == Undisturbed => lost = {}

\* Outside Sleep and WakeUp the Secret has it.
SecretInv ==
    /\ \A w \in Workloads : Known(w) => Saved(w)
    /\ Undisturbed => Exact(secret.original)

\* What sleeps is among the items listed so far as asleep.
ListInv(p) ==
    /\ job[p].operation \in {"SLEEP", "WAKE_UP"}
    /\ job[p].hadSecret = secret.exists
    /\ job[p].restorePatches = secret.original
    /\ \A w \in Workloads : TargetOf[w] \notin job[p].toList =>
         /\ before[w] # None => job[p].data[w] = SleepValue
         /\ Undisturbed => job[p].data[w] = workload[w]

\* During Sleep the restore patches have it, the Secret still has what this
\* Sleep did not patch, and what is still to be patched is awake.
SleepInv(p) ==
    /\ job[p].hadSecret = secret.exists
    /\ Remembers(job[p].restorePatches)
    /\ Undisturbed => Exact(job[p].restorePatches)
    /\ \A w \in Workloads :
         /\ before[w] # None => job[p].data[w] # None
         /\ Known(w) /\ w \notin ToSleep(p) \ job[p].toPatch => Saved(w)
    /\ \A w \in job[p].toPatch :
         /\ w \notin Controlled \cup Unpatchable
         /\ job[p].data[w] \notin {None, SleepValue}
         /\ before[w] = None
         /\ Undisturbed => workload[w] = job[p].data[w]

\* During WakeUp Secret and restore patches have what is still to be patched.
WakeUpInv(p) ==
    /\ job[p].operation = "WAKE_UP"
    /\ job[p].hadSecret = secret.exists
    /\ \A w \in Workloads :
         Known(w) => /\ Saved(w)
                     /\ w \in job[p].toPatch
                     /\ job[p].restorePatches[w] = before[w]
    /\ \A w \in job[p].toPatch :
         /\ job[p].restorePatches[w] # None
         /\ Undisturbed => before[w] # None

WorkerInv(p) ==
    /\ p = "exec" /\ job[p].step # "idle" => job[p].operation \in {"SLEEP", "WAKE_UP"}
    /\ job[p].step \in {"owner", "secret"} => job[p].toList = Targets
    /\ job[p].step = "list" => ListInv(p)
    /\ job[p].step # "apply" => SecretInv
    /\ job[p].step = "apply" => IF job[p].operation = "SLEEP" THEN SleepInv(p)
                                                              ELSE WakeUpInv(p)

CycleInv == SpecInv /\ AsleepInv /\ LostInv /\ \A p \in Workers : WorkerInv(p)

-----------------------------------------------------------------------------
(***************************************************************************)
(* What SleepCycle sees.                                                   *)
(***************************************************************************)

\* What is remembered is the value of what is known to sleep.
LEMMA RememberedValue ==
    /\ \A w \in Workloads :
         Remembered[w] = IF w \in lost THEN None ELSE before[w]
    /\ \A w \in Workloads :
         Remembered'[w] = IF w \in lost' THEN None ELSE before'[w]
    /\ Remembered = [w \in Workloads |-> Remembered[w]]
    /\ Remembered' = [w \in Workloads |-> Remembered'[w]]
BY DEF Remembered

\* What is pending is what the only worker has patched.
LEMMA PendingIs ==
    ASSUME NEW p, Workers = {p}
    PROVE  /\ Pending = Unsaved(p, job[p].toPatch)
           /\ Pending' = Unsaved(p, job[p].toPatch)'
<1>1. Pending = UNION {Unsaved(p, job[p].toPatch)}
  BY DEF Pending
<1>2. Pending' = UNION {Unsaved(p, job[p].toPatch)'}
  BY DEF Pending
<1>3. QED
  BY <1>1, <1>2

\* Outside Sleep nothing is pending.
LEMMA NothingPending ==
    ASSUME NEW p, Workers = {p}
    PROVE  /\ job[p].step # "apply" \/ job[p].operation # "SLEEP" => Pending = {}
           /\ job'[p].step # "apply" \/ job'[p].operation # "SLEEP" => Pending' = {}
BY PendingIs DEF Unsaved, At

\* A step that leaves what is known of the workloads alone.
LEMMA SameRemembered ==
    ASSUME \A w \in Workloads : Remembered'[w] = Remembered[w]
    PROVE  Remembered' = Remembered
BY RememberedValue

\* A step that changes it for one workload.
LEMMA OneRemembered ==
    ASSUME NEW w \in Workloads, NEW x, Remembered'[w] = x,
           \A v \in Workloads \ {w} : Remembered'[v] = Remembered[v]
    PROVE  Remembered' = [Remembered EXCEPT ![w] = x]
BY RememberedValue

\* A step that forgets some.
LEMMA SomeForgotten ==
    ASSUME NEW forgotten,
           \A w \in Workloads :
             Remembered'[w] = IF w \in forgotten THEN None ELSE Remembered[w]
    PROVE  Cycle!Forget(forgotten)
BY RememberedValue DEF Cycle!Forget

\* A step of SleepCycle, or none.
Refines == Cycle!Next \/ UNCHANGED <<workload, Remembered, Pending>>

\* A step before or after Sleep and WakeUp.
LEMMA QuietRefines ==
    ASSUME NEW p, Workers = {p}, UNCHANGED <<workload, before, lost>>,
           job[p].step # "apply" \/ job[p].operation # "SLEEP",
           job'[p].step # "apply" \/ job'[p].operation # "SLEEP"
    PROVE  Refines
<1>1. Remembered' = Remembered
  BY RememberedValue, SameRemembered
<1>2. QED
  BY <1>1, NothingPending DEF Refines

\* Sleep or WakeUp comes to its end.
LEMMA EndRefines ==
    ASSUME UNCHANGED <<workload, before, lost>>, Pending' = {}
    PROVE  Refines
<1>1. Remembered' = Remembered
  BY RememberedValue, SameRemembered
<1>2. Cycle!SleepEnds
  BY <1>1 DEF Cycle!SleepEnds
<1>3. QED
  BY <1>2 DEF Refines, Cycle!Next

\* It ends with an error.
LEMMA FailRefines ==
    ASSUME UNCHANGED <<workload, before>>, lost' = lost \cup Pending,
           Pending' = {}, Pending # {} => SleepsFail
    PROVE  Refines
<1>1. CASE Pending = {}
  BY <1>1, EndRefines
<1>2. CASE Pending # {}
  <2>1. \A w \in Workloads :
          Remembered'[w] = IF w \in Pending THEN None ELSE Remembered[w]
    BY RememberedValue
  <2>2. Cycle!SleepFails
    BY <1>2, <2>1, SomeForgotten DEF Cycle!SleepFails
  <2>3. QED
    BY <2>2 DEF Refines, Cycle!Next
<1>3. QED
  BY <1>1, <1>2

-----------------------------------------------------------------------------
(***************************************************************************)
(* The steps that the actions of both controllers are made of.             *)
(***************************************************************************)

\* A step outside Sleep and WakeUp that leaves workloads and Secret alone.
LEMMA QuietStep ==
    ASSUME NEW p \in Workers, WorkerInv(p),
           UNCHANGED <<workload, secret, before, lost>>,
           job[p].step # "apply",
           job'[p].step \notin {"list", "apply"},
           p = "exec" /\ job'[p].step # "idle"
             => job'[p].operation \in {"SLEEP", "WAKE_UP"},
           job'[p].step \in {"owner", "secret"} => job'[p].toList = Targets
    PROVE  WorkerInv(p)'
BY DEF WorkerInv, SecretInv, Known, Saved, Exact

\* An error ends the reconcile: what the Secret has is still there, and what
\* only this Sleep had patched is lost.
LEMMA FailCycle ==
    ASSUME NEW p \in Workers, WorkerInv(p), job'[p].step = "idle",
           UNCHANGED <<workload, secret, before>>,
           lost' = lost \cup Unsaved(p, job[p].toPatch),
           job[p].step = "apply" => SleepsFail
    PROVE  WorkerInv(p)'
<1>1. CASE job[p].step # "apply"
  <2>1. lost' = lost
    BY <1>1 DEF Unsaved, At
  <2>2. QED
    BY <1>1, <2>1, QuietStep
<1>2. CASE job[p].step = "apply" /\ job[p].operation = "SLEEP"
  <2>1. lost' = lost \cup (ToSleep(p) \ job[p].toPatch)
    BY <1>2 DEF Unsaved, At
  <2>2. \A w \in Workloads : Known(w)' => Saved(w)'
    BY <1>2, <2>1 DEF WorkerInv, SleepInv, Known, Saved
  <2>3. QED
    BY <1>2, <2>2 DEF WorkerInv, SecretInv, Undisturbed
<1>3. CASE job[p].step = "apply" /\ job[p].operation # "SLEEP"
  <2>1. lost' = lost
    BY <1>3 DEF Unsaved, At
  <2>2. \A w \in Workloads : Known(w)' => Saved(w)'
    BY <1>3, <2>1 DEF WorkerInv, WakeUpInv, Known, Saved
  <2>3. QED
    BY <1>3, <2>2 DEF WorkerInv, SecretInv, Undisturbed
<1>4. QED
  BY <1>1, <1>2, <1>3

\* A list copies workloads that sleep as asleep.
LEMMA ListCycle ==
    ASSUME TypeOK, AsleepInv, NEW p \in Workers, NEW t \in Targets,
           WorkerInv(p), ListTarget(p, t)
    PROVE  WorkerInv(p)' /\ job[p].step = "list" /\ job'[p].step = "list"
<1>1. /\ job \in [Workers -> Jobs] /\ job[p] \in Jobs /\ job[p].step = "list"
      /\ UNCHANGED <<workload, secret, before, lost>>
  BY DEF TypeOK, ListTarget, At, clusterVars
<1> DEFINE data == [w \in Workloads |-> IF TargetOf[w] = t THEN workload[w]
                                       ELSE job[p].data[w]]
           j == [job[p] EXCEPT !.toList = @ \ {t}, !.data = data]
<1>2. job' = [job EXCEPT ![p] = j]
  BY <1>1 DEF ListTarget
<1>3. \A w \in Workloads : data[w] = IF TargetOf[w] = t THEN workload[w]
                                                        ELSE job[p].data[w]
  OBVIOUS
<1> HIDE DEF data
<1>4. /\ j.step = "list" /\ j.operation = job[p].operation
      /\ j.hadSecret = job[p].hadSecret
      /\ j.restorePatches = job[p].restorePatches
      /\ j.toList = job[p].toList \ {t} /\ j.data = data
  BY <1>1 DEF Jobs
<1> HIDE DEF j
<1>5. job'[p] = j
  BY <1>1, <1>2
<1>6. ListInv(p) /\ SecretInv
  BY <1>1 DEF WorkerInv
<1>7. SecretInv'
  BY <1>1, <1>6 DEF SecretInv, Known, Saved, Exact
<1>8. ListInv(p)'
  BY <1>1, <1>3, <1>4, <1>5, <1>6 DEF ListInv, AsleepInv
<1>9. QED
  BY <1>1, <1>4, <1>5, <1>7, <1>8 DEF WorkerInv

\* What an operation starts with: nothing that sleeps is put to sleep again,
\* and everything that sleeps is woken up.
LEMMA ApplyCycle ==
    ASSUME TypeOK, AsleepInv, NEW p \in Workers, Workers = {p}, WorkerInv(p),
           Listed(p), job' = [job EXCEPT ![p] = Applying(p)],
           UNCHANGED <<workload, secret, before, lost>>
    PROVE  WorkerInv(p)' /\ Refines
<1>1. /\ job \in [Workers -> Jobs] /\ job[p] \in Jobs
      /\ job[p].step = "list" /\ job[p].toList = {}
  BY DEF TypeOK, Listed, At
<1>2. ListInv(p) /\ SecretInv
  BY <1>1 DEF WorkerInv
<1> DEFINE kept == [w \in Workloads |-> IF Mapped(p, TargetOf[w])
                                        THEN job[p].restorePatches[w] ELSE None]
           toPatch == IF job[p].operation = "SLEEP" THEN ToSleep(p) ELSE ToWakeUp(p)
<1>3. \A w \in Workloads :
        /\ job[p].data[w] # None => kept[w] = secret.original[w]
        /\ kept[w] # None => kept[w] = secret.original[w]
  BY <1>2 DEF Mapped, ListInv
<1>4. /\ Applying(p).step = "apply" /\ Applying(p).operation = job[p].operation
      /\ Applying(p).hadSecret = job[p].hadSecret
      /\ Applying(p).data = job[p].data
      /\ Applying(p).restorePatches = kept
      /\ Applying(p).toPatch = toPatch
  BY <1>1 DEF Applying, Jobs
<1>5. job'[p] = Applying(p)
  BY <1>1
<1> HIDE DEF kept
<1>6. \A w \in Workloads : /\ before[w] # None => job[p].data[w] = SleepValue
                           /\ Undisturbed => job[p].data[w] = workload[w]
  BY <1>1, <1>2 DEF ListInv
<1>7. SleepValue # None
  BY ClusterAssumption
<1>8. CASE job[p].operation = "SLEEP"
  <2>1. toPatch = ToSleep(p) /\ ToSleep(p)' = ToSleep(p)
    BY <1>4, <1>5, <1>8 DEF ToSleep
  <2> HIDE DEF toPatch
  <2>2. \A w \in Workloads :
          /\ before[w] # None => job[p].data[w] # None
          /\ Known(w) => kept[w] = before[w] /\ Saved(w)
          /\ Undisturbed /\ kept[w] # None => before[w] = kept[w]
    BY <1>2, <1>3, <1>6, <1>7 DEF SecretInv, Known, Saved, Exact
  <2>3. \A w \in toPatch : /\ w \notin Controlled \cup Unpatchable
                           /\ job[p].data[w] \notin {None, SleepValue}
                           /\ before[w] = None
                           /\ Undisturbed => workload[w] = job[p].data[w]
    BY <1>6, <2>1 DEF ToSleep
  <2>4. SleepInv(p)'
    <3>1. job'[p].hadSecret = secret'.exists
      BY <1>2, <1>4, <1>5 DEF ListInv
    <3>2. /\ Remembers(job[p].restorePatches)'
          /\ Undisturbed => Exact(job[p].restorePatches)'
      BY <1>4, <1>5, <2>2 DEF Remembers, Exact, Known
    <3>3. QED
      BY <1>4, <1>5, <2>2, <2>3, <3>1, <3>2 DEF SleepInv, Known, Saved
  <2>5. Pending = {} /\ Pending' = {}
    <3>1. Unsaved(p, job[p].toPatch)' = {}
      BY <1>4, <1>5, <1>8, <2>1 DEF Unsaved, At
    <3>2. QED
      BY <1>1, <3>1, PendingIs, NothingPending
  <2>6. QED
    BY <1>4, <1>5, <1>8, <2>4, <2>5, EndRefines DEF WorkerInv
<1>9. CASE job[p].operation # "SLEEP"
  <2>1. toPatch = ToWakeUp(p) /\ job[p].operation = "WAKE_UP"
    BY <1>2, <1>9 DEF ListInv
  <2> HIDE DEF toPatch
  <2>2. \A w \in Workloads :
          Known(w) => Saved(w) /\ w \in toPatch /\ kept[w] = before[w]
    BY <1>2, <1>3, <1>6, <1>7, <2>1
    DEF ListInv, SecretInv, Known, Saved, ToWakeUp, AsleepInv
  <2>3. \A w \in toPatch : /\ kept[w] # None
                           /\ Undisturbed => before[w] # None
    BY <1>2, <1>3, <1>6, <1>7, <2>1 DEF ListInv, SecretInv, Exact, ToWakeUp
  <2>4. WakeUpInv(p)'
    BY <1>2, <1>4, <1>5, <2>1, <2>2, <2>3 DEF ListInv, WakeUpInv, Known, Saved
  <2>5. Refines
    BY <1>1, <1>4, <1>5, <1>9, QuietRefines
  <2>6. QED
    BY <1>4, <1>5, <1>9, <2>1, <2>4, <2>5 DEF WorkerInv
<1>10. QED
  BY <1>8, <1>9

\* What a patch of Sleep or WakeUp does to its workload.
LEMMA PatchFacts ==
    ASSUME TypeOK, NEW p \in Workers, NEW w \in Workloads, WorkerInv(p),
           PatchWrite(p, w)
    PROVE  /\ job[p].step = "apply" /\ w \in job[p].toPatch
           /\ UNCHANGED <<sleepInfo, secret>>
           /\ \A v \in Workloads \ {w} :
                workload'[v] = workload[v] /\ before'[v] = before[v]
           /\ job[p].operation = "SLEEP"
              => /\ workload' = [workload EXCEPT ![w] = SleepValue]
                 /\ workload'[w] = SleepValue
                 /\ w \in ToSleep(p) /\ before[w] = None
                 /\ \/ /\ workload[w] = job[p].data[w]
                       /\ before'[w] = job[p].data[w]
                    \/ before'[w] = None /\ ~ Undisturbed
           /\ job[p].operation # "SLEEP"
              => /\ workload' = [workload EXCEPT ![w] =
                                   IF @ = None THEN None
                                   ELSE job[p].restorePatches[w]]
                 /\ before'[w] = None
<1>1. /\ workload \in ValueMap /\ before \in ValueMap /\ SleepValue # None
      /\ job[p].step = "apply" /\ w \in job[p].toPatch
  BY ClusterAssumption DEF TypeOK, ClusterTypeOK, PatchWrite, At
<1>2. /\ UNCHANGED <<sleepInfo, secret>>
      /\ \A v \in Workloads \ {w} :
           workload'[v] = workload[v] /\ before'[v] = before[v]
  BY <1>1 DEF PatchWrite, ValueMap
<1>3. ASSUME job[p].operation = "SLEEP"
      PROVE  /\ workload' = [workload EXCEPT ![w] = SleepValue]
             /\ workload'[w] = SleepValue
             /\ w \in ToSleep(p) /\ before[w] = None
             /\ \/ workload[w] = job[p].data[w] /\ before'[w] = job[p].data[w]
                \/ before'[w] = None /\ ~ Undisturbed
  <2>1. /\ job[p].data[w] \notin {None, SleepValue} /\ before[w] = None
        /\ w \notin Controlled \cup Unpatchable
        /\ Undisturbed => workload[w] = job[p].data[w]
    BY <1>1, <1>3 DEF WorkerInv, SleepInv
  <2>2. before'[w] = IF workload[w] = job[p].data[w] THEN workload[w] ELSE None
    BY <1>1, <1>3, <2>1 DEF PatchWrite, ValueMap
  <2>3. /\ workload' = [workload EXCEPT ![w] = SleepValue]
        /\ workload'[w] = SleepValue
    BY <1>1, <1>3 DEF PatchWrite, ValueMap
  <2>4. QED
    BY <2>1, <2>2, <2>3 DEF ToSleep
<1>4. ASSUME job[p].operation # "SLEEP"
      PROVE  /\ workload' = [workload EXCEPT ![w] =
                               IF @ = None THEN None ELSE job[p].restorePatches[w]]
             /\ before'[w] = None
  <2>1. job[p].operation = "WAKE_UP"
    BY <1>1, <1>4 DEF WorkerInv, WakeUpInv
  <2>2. QED
    BY <1>1, <2>1 DEF PatchWrite, ValueMap
<1>5. QED
  BY <1>1, <1>2, <1>3, <1>4

\* A patch of Sleep puts to sleep, or overwrites what a user changed.
LEMMA SleepRefines ==
    ASSUME TypeOK, NEW p \in Workers, NEW w \in Workloads, WorkerInv(p),
           PatchWrite(p, w), job[p].operation = "SLEEP",
           lost' = lost \ {w}, Pending' = Pending \cup {w}
    PROVE  Refines
<1>1. /\ workload' = [workload EXCEPT ![w] = SleepValue]
      /\ w \in ToSleep(p) /\ before[w] = None
      /\ \/ workload[w] = job[p].data[w] /\ before'[w] = job[p].data[w]
         \/ before'[w] = None /\ ~ Undisturbed
      /\ \A v \in Workloads \ {w} : before'[v] = before[v]
  BY PatchFacts
<1>2. /\ Remembered[w] = None /\ Remembered'[w] = before'[w]
      /\ \A v \in Workloads \ {w} : Remembered'[v] = Remembered[v]
  BY <1>1, RememberedValue
<1>3. CASE workload[w] = job[p].data[w] /\ before'[w] = job[p].data[w]
  <2>1. workload[w] \notin {None, SleepValue}
    BY <1>1, <1>3 DEF ToSleep
  <2>2. Remembered' = [Remembered EXCEPT ![w] = workload[w]]
    BY <1>2, <1>3, OneRemembered
  <2>3. Cycle!Sleep(w)
    BY <1>1, <2>1, <2>2 DEF Cycle!Sleep
  <2>4. QED
    BY <2>3 DEF Refines, Cycle!Next
<1>4. CASE before'[w] = None /\ ~ Undisturbed
  <2>1. Remembered' = Remembered
    BY <1>2, <1>4, SameRemembered
  <2>2. \E v \in Values : workload' = [workload EXCEPT ![w] = v]
    BY <1>1, ClusterAssumption
  <2>3. Cycle!Overwrite(w)
    BY <1>2, <1>4, <2>1, <2>2 DEF Cycle!Overwrite, Undisturbed
  <2>4. QED
    BY <2>3 DEF Refines, Cycle!Next
<1>5. QED
  BY <1>1, <1>3, <1>4

\* The same, and the answer is lost.
LEMMA SleepLostRefines ==
    ASSUME TypeOK, NEW p \in Workers, NEW w \in Workloads, WorkerInv(p),
           PatchWrite(p, w), job[p].operation = "SLEEP", SleepsFail,
           lost' = lost \cup Pending \cup {w}, Pending' = {}
    PROVE  Refines
<1>1. /\ workload' = [workload EXCEPT ![w] = SleepValue] /\ before[w] = None
      /\ \A v \in Workloads \ {w} : before'[v] = before[v]
  BY PatchFacts
<1>2. /\ Remembered[w] = None
      /\ \A v \in Workloads :
           Remembered'[v] = IF v \in Pending THEN None ELSE Remembered[v]
  BY <1>1, RememberedValue
<1>3. Cycle!SleepFailsAt(w)
  BY <1>1, <1>2, SomeForgotten DEF Cycle!SleepFailsAt
<1>4. QED
  BY <1>3 DEF Refines, Cycle!Next

\* A patch of WakeUp wakes up what is known to sleep, or overwrites the value
\* of a workload of which that is not known.
LEMMA WakeUpRefines ==
    ASSUME TypeOK, AsleepInv, LostInv, NEW p \in Workers, NEW w \in Workloads,
           WorkerInv(p), PatchWrite(p, w), job[p].operation # "SLEEP",
           lost' \in {lost, lost \ {w}}, Pending = {}, Pending' = {}
    PROVE  Refines
<1>1. /\ workload' = [workload EXCEPT ![w] = IF @ = None THEN None
                                             ELSE job[p].restorePatches[w]]
      /\ before'[w] = None
      /\ \A v \in Workloads \ {w} : before'[v] = before[v]
      /\ job[p].step = "apply" /\ w \in job[p].toPatch
  BY PatchFacts
<1>2. /\ Remembered'[w] = None
      /\ \A v \in Workloads \ {w} : Remembered'[v] = Remembered[v]
  BY <1>1, RememberedValue
<1>3. /\ job[p].restorePatches[w] # None
      /\ Undisturbed => before[w] # None
      /\ Known(w) => job[p].restorePatches[w] = before[w]
  BY <1>1 DEF WorkerInv, WakeUpInv
<1>4. workload \in ValueMap /\ job[p].restorePatches[w] \in Values
  <2>1. job[p].restorePatches \in ValueMap /\ workload \in ValueMap
    BY DEF TypeOK, ClusterTypeOK, Jobs
  <2>2. QED
    BY <1>3, <2>1 DEF ValueMap
<1>5. CASE Known(w)
  <2>1. workload[w] = SleepValue /\ SleepValue # None
    BY <1>5, ClusterAssumption DEF AsleepInv, Known
  <2>2. Remembered[w] = before[w] /\ before[w] # None
    BY <1>5, RememberedValue DEF Known
  <2>3. Remembered' = [Remembered EXCEPT ![w] = None]
    BY <1>2, OneRemembered
  <2>4. workload' = [workload EXCEPT ![w] = Remembered[w]]
    BY <1>1, <1>3, <1>5, <2>1, <2>2
  <2>5. Cycle!WakeUp(w)
    BY <2>1, <2>2, <2>3, <2>4 DEF Cycle!WakeUp
  <2>6. QED
    BY <2>5 DEF Refines, Cycle!Next
<1>6. CASE ~ Known(w)
  <2>1. Remembered[w] = None /\ SleepsFail
    <3>1. Remembered[w] = None
      BY <1>6, RememberedValue DEF Known
    <3>2. ~ Undisturbed
      BY <1>3, <1>6 DEF Known, LostInv
    <3>3. QED
      BY <3>1, <3>2 DEF Undisturbed
  <2>2. Remembered' = Remembered
    BY <1>2, <2>1, SameRemembered
  <2>3. CASE workload[w] = None
    <3>1. workload' = workload
      BY <1>1, <1>4, <2>3 DEF ValueMap
    <3>2. QED
      BY <2>2, <3>1 DEF Refines
  <2>4. CASE workload[w] # None
    <3>1. workload' = [workload EXCEPT ![w] = job[p].restorePatches[w]]
      BY <1>1, <2>4
    <3>2. Cycle!Overwrite(w)
      BY <1>4, <2>1, <2>2, <3>1 DEF Cycle!Overwrite
    <3>3. QED
      BY <3>2 DEF Refines, Cycle!Next
  <2>5. QED
    BY <2>3, <2>4
<1>7. QED
  BY <1>5, <1>6

\* The job after a patch.
LEMMA PatchedJob ==
    ASSUME TypeOK, NEW p \in Workers, NEW w \in Workloads, Patch(p, w)
    PROVE  /\ job'[p].step = job[p].step
           /\ job'[p].operation = job[p].operation
           /\ job'[p].hadSecret = job[p].hadSecret
           /\ job'[p].data = job[p].data
           /\ job'[p].toPatch = job[p].toPatch \ {w}
           /\ job'[p].restorePatches[w] =
                IF job[p].operation = "SLEEP" THEN job[p].data[w]
                                              ELSE job[p].restorePatches[w]
           /\ \A v \in Workloads \ {w} :
                job'[p].restorePatches[v] = job[p].restorePatches[v]
<1>1. /\ job \in [Workers -> Jobs] /\ job[p] \in Jobs
      /\ job[p].restorePatches \in ValueMap
  BY DEF TypeOK, Jobs
<1> DEFINE patches == [job[p].restorePatches EXCEPT ![w] =
                         IF job[p].operation = "SLEEP" THEN job[p].data[w] ELSE @]
           j == [job[p] EXCEPT !.toPatch = @ \ {w}, !.restorePatches = patches]
<1>2. job' = [job EXCEPT ![p] = j]
  BY <1>1 DEF Patch, Jobs
<1>3. /\ patches[w] = IF job[p].operation = "SLEEP" THEN job[p].data[w]
                      ELSE job[p].restorePatches[w]
      /\ \A v \in Workloads \ {w} : patches[v] = job[p].restorePatches[v]
  BY <1>1 DEF ValueMap
<1> HIDE DEF patches
<1>4. /\ j.step = job[p].step /\ j.operation = job[p].operation
      /\ j.hadSecret = job[p].hadSecret /\ j.data = job[p].data
      /\ j.restorePatches = patches /\ j.toPatch = job[p].toPatch \ {w}
  BY <1>1 DEF Jobs
<1> HIDE DEF j
<1>5. job'[p] = j
  BY <1>1, <1>2
<1>6. QED
  BY <1>3, <1>4, <1>5

\* A patch keeps the restore data where the invariant says it is.
LEMMA PatchCycle ==
    ASSUME TypeOK, AsleepInv, LostInv, NEW p \in Workers, NEW w \in Workloads,
           WorkerInv(p), Patch(p, w)
    PROVE  AsleepInv' /\ LostInv' /\ WorkerInv(p)'
<1>1. PatchWrite(p, w) /\ lost' = lost \ {w} /\ job[p].toPatch \subseteq Workloads
  BY DEF Patch, TypeOK, Jobs
<1>2. /\ job[p].step = "apply" /\ w \in job[p].toPatch /\ UNCHANGED secret
      /\ \A v \in Workloads \ {w} :
           workload'[v] = workload[v] /\ before'[v] = before[v]
  BY <1>1, PatchFacts
<1>3. LostInv'
  BY <1>1 DEF LostInv
<1>4. CASE job[p].operation = "SLEEP"
  <2>1. SleepInv(p)
    BY <1>2, <1>4 DEF WorkerInv
  <2>2. /\ workload'[w] = SleepValue /\ w \in ToSleep(p) /\ before[w] = None
        /\ \/ before'[w] = job[p].data[w]
           \/ before'[w] = None /\ ~ Undisturbed
    BY <1>1, <1>4, PatchFacts
  <2>3. AsleepInv'
    BY <1>2, <2>1, <2>2 DEF AsleepInv, SleepInv
  <2>4. ToSleep(p)' = ToSleep(p)
    BY PatchedJob DEF ToSleep
  <2>5. job'[p].hadSecret = secret'.exists
    BY <1>2, <2>1, PatchedJob DEF SleepInv
  <2>6. Remembers(job[p].restorePatches)'
    BY <1>1, <1>2, <1>4, <2>1, <2>2, PatchedJob DEF SleepInv, Remembers, Known
  <2>7. Undisturbed => Exact(job[p].restorePatches)'
    BY <1>2, <1>4, <2>1, <2>2, PatchedJob DEF SleepInv, Exact
  <2>8. \A v \in Workloads :
          /\ before'[v] # None => job'[p].data[v] # None
          /\ Known(v)' /\ v \notin ToSleep(p)' \ job'[p].toPatch => Saved(v)'
    <3>1. ASSUME NEW v \in Workloads \ {w}
          PROVE  /\ before'[v] # None => job'[p].data[v] # None
                 /\ Known(v)' /\ v \notin ToSleep(p)' \ job'[p].toPatch => Saved(v)'
      BY <1>1, <1>2, <2>1, <2>4, <3>1, PatchedJob DEF SleepInv, Known, Saved
    <3>2. /\ before'[w] # None => job'[p].data[w] # None
          /\ w \in ToSleep(p)' \ job'[p].toPatch
      BY <2>2, <2>4, PatchedJob DEF ToSleep
    <3>3. QED
      BY <3>1, <3>2
  <2>9. \A v \in job'[p].toPatch :
          /\ v \notin Controlled \cup Unpatchable
          /\ job'[p].data[v] \notin {None, SleepValue}
          /\ before'[v] = None
          /\ Undisturbed => workload'[v] = job'[p].data[v]
    BY <1>1, <1>2, <2>1, PatchedJob DEF SleepInv
  <2>10. SleepInv(p)'
    BY <2>5, <2>6, <2>7, <2>8, <2>9 DEF SleepInv
  <2>11. QED
    BY <1>2, <1>3, <1>4, <2>3, <2>10, PatchedJob DEF WorkerInv
<1>5. CASE job[p].operation # "SLEEP"
  <2>1. WakeUpInv(p) /\ before'[w] = None
    BY <1>1, <1>2, <1>5, PatchFacts DEF WorkerInv
  <2>2. AsleepInv'
    BY <1>2, <2>1 DEF AsleepInv
  <2>3. \A v \in Workloads : Known(v)' => v # w /\ Known(v) /\ before'[v] = before[v]
    BY <1>1, <1>2, <2>1 DEF Known
  <2>4. \A v \in Workloads :
          Known(v)' => /\ Saved(v)' /\ v \in job'[p].toPatch
                       /\ job'[p].restorePatches[v] = before'[v]
    BY <1>2, <2>1, <2>3, PatchedJob DEF WakeUpInv, Saved
  <2>5. \A v \in job'[p].toPatch :
          /\ job'[p].restorePatches[v] # None
          /\ Undisturbed => before'[v] # None
    BY <1>1, <1>2, <2>1, PatchedJob DEF WakeUpInv
  <2>6. WakeUpInv(p)'
    BY <1>2, <2>1, <2>4, <2>5, PatchedJob DEF WakeUpInv
  <2>7. QED
    BY <1>2, <1>3, <1>5, <2>1, <2>2, <2>6, PatchedJob DEF WorkerInv, WakeUpInv
<1>6. QED
  BY <1>4, <1>5

\* upsertSecret finds the Secret as it was read, and saves what sleeps.
LEMMA SaveCycle ==
    ASSUME TypeOK, NEW p \in Workers, WorkerInv(p), ReadyToSave(p), UNCHANGED lost
    PROVE  /\ ~ SecretRefused(p)
           /\ SecretWrite(p) => SecretInv'
<1>1. job[p].step = "apply" /\ job[p].toPatch = {}
  BY DEF ReadyToSave, At
<1>2. ASSUME SecretWrite(p), job[p].operation = "SLEEP"
      PROVE  SecretInv'
  <2>1. SleepInv(p)
    BY <1>1, <1>2 DEF WorkerInv
  <2>2. UNCHANGED before
    BY <1>2 DEF SecretWrite
  <2>3. CASE HasResource(p)
    <3>1. secret'.original = job[p].restorePatches /\ secret'.operationType = "SLEEP"
      BY <1>2, <2>3 DEF SecretWrite, NewSecret
    <3>2. QED
      BY <2>1, <2>2, <3>1 DEF SleepInv, SecretInv, Remembers, Known, Saved, Exact
  <2>4. CASE ~ HasResource(p)
    <3>1. secret'.original = NoValues
      BY <1>2, <2>4 DEF SecretWrite, NewSecret
    <3>2. \A w \in Workloads : before[w] = None
      BY <2>1, <2>4 DEF SleepInv, HasResource
    <3>3. QED
      BY <2>2, <3>1, <3>2 DEF SecretInv, Known, Exact, NoValues
  <2>5. QED
    BY <2>3, <2>4
<1>3. ASSUME SecretWrite(p), job[p].operation # "SLEEP"
      PROVE  SecretInv'
  <2>1. \A w \in Workloads : ~ Known(w)
    BY <1>1, <1>3 DEF WorkerInv, WakeUpInv
  <2>2. UNCHANGED before /\ secret'.original = NoValues
    BY <1>3 DEF SecretWrite, NewSecret
  <2>3. QED
    BY <2>1, <2>2 DEF SecretInv, Known, Exact, NoValues
<1>4. job[p].hadSecret = secret.exists
  BY <1>1 DEF WorkerInv, SleepInv, WakeUpInv
<1>5. QED
  BY <1>2, <1>3, <1>4 DEF SecretRefused

-----------------------------------------------------------------------------
(***************************************************************************)
(* The steps of the two controllers and of the environment.                *)
(***************************************************************************)

\* What every step has to do.
CycleStep == CycleInv' /\ Refines

\* No list fails, and the worker that takes a step is the only one.
LEMMA AloneFacts ==
    ASSUME Alone
    PROVE  /\ ~ Fault("list")
           /\ \A kind : Fault(kind) => SleepsFail
           /\ \A p \in Workers : Workers = {p}
           /\ "targets" \notin UserEdits /\ "delete" \notin UserEdits
BY DEF Alone, Fault, SleepsFail

\* A step that changes no workload.
LEMMA StutterStep ==
    ASSUME CycleInv, NEW p \in Workers, Workers = {p},
           UNCHANGED <<workload, before, lost>>,
           job[p].step # "apply" \/ job[p].operation # "SLEEP",
           job'[p].step # "apply" \/ job'[p].operation # "SLEEP",
           SpecInv', WorkerInv(p)'
    PROVE  CycleStep
<1>1. Refines
  BY QuietRefines
<1>2. QED
  BY <1>1 DEF CycleInv, CycleStep, AsleepInv, LostInv

\* A reconcile ends, with an error or before Sleep and WakeUp.
LEMMA FailStep ==
    ASSUME CycleInv, NEW p \in Workers, Workers = {p}, job'[p].step = "idle",
           UNCHANGED <<workload, secret, before>>,
           lost' = lost \cup Unsaved(p, job[p].toPatch),
           job[p].step = "apply" => SleepsFail, SpecInv'
    PROVE  CycleStep
<1>1. WorkerInv(p)'
  BY FailCycle DEF CycleInv
<1>2. Pending = Unsaved(p, job[p].toPatch) /\ Pending' = {}
  BY PendingIs, NothingPending
<1>3. Pending # {} => SleepsFail
  BY NothingPending
<1>4. LostInv'
  BY <1>2, <1>3 DEF CycleInv, LostInv, Undisturbed
<1>5. Refines
  BY <1>2, <1>3, FailRefines
<1>6. QED
  BY <1>1, <1>4, <1>5 DEF CycleInv, CycleStep, AsleepInv

\* The handler returns an error, with nothing performed.
LEMMA ErrorStep ==
    ASSUME TypeOK, CycleInv, NEW p \in Workers, Workers = {p}, Fail(p),
           UNCHANGED <<workload, secret, before>>,
           job[p].step = "apply" => SleepsFail, SpecInv'
    PROVE  CycleStep
<1>1. job'[p].step = "idle" /\ lost' = lost \cup Unsaved(p, job[p].toPatch)
  BY ReturnType, IdleType DEF TypeOK, Fail, ReturnError
<1>2. QED
  BY <1>1, FailStep

\* Server Side Apply refuses a workload only when a user deleted it.
LEMMA RefusedFails ==
    ASSUME TypeOK, NEW p \in Workers, WorkerInv(p), NEW w \in Workloads,
           PatchRefused(p, w)
    PROVE  SleepsFail
<1>1. /\ job[p].step = "apply" /\ job[p].operation = "SLEEP"
      /\ w \in job[p].toPatch /\ workload[w] = None
  BY DEF PatchRefused, At
<1>2. QED
  BY <1>1 DEF WorkerInv, SleepInv, Undisturbed

\* A patch that is performed.
LEMMA PatchStep ==
    ASSUME TypeOK, CycleInv, NEW p \in Workers, Workers = {p},
           NEW w \in Workloads, Patch(p, w)
    PROVE  CycleStep
<1>1. /\ PatchWrite(p, w) /\ lost' = lost \ {w} /\ SpecInv /\ AsleepInv /\ LostInv
      /\ WorkerInv(p)
  BY DEF Patch, CycleInv
<1>2. AsleepInv' /\ LostInv' /\ WorkerInv(p)'
  BY <1>1, PatchCycle
<1>3. SpecInv' /\ job[p].step = "apply" /\ w \in job[p].toPatch
  BY <1>1, PatchFacts DEF SpecInv
<1>4. CASE job[p].operation = "SLEEP"
  <2>1. w \in ToSleep(p) /\ ToSleep(p)' = ToSleep(p)
    BY <1>1, <1>4, PatchFacts, PatchedJob DEF ToSleep
  <2>2. /\ Unsaved(p, job[p].toPatch) = ToSleep(p) \ job[p].toPatch
        /\ Unsaved(p, job[p].toPatch)' = ToSleep(p) \ (job[p].toPatch \ {w})
    BY <1>3, <1>4, <2>1, PatchedJob DEF Unsaved, At
  <2>3. Pending' = Pending \cup {w}
    BY <2>1, <2>2, PendingIs
  <2>4. Refines
    BY <1>1, <1>4, <2>3, SleepRefines
  <2>5. QED
    BY <1>2, <1>3, <2>4 DEF CycleStep, CycleInv
<1>5. CASE job[p].operation # "SLEEP"
  <2>1. Pending = {} /\ Pending' = {}
    BY <1>5, NothingPending, PatchedJob
  <2>2. Refines
    BY <1>1, <1>5, <2>1, WakeUpRefines
  <2>3. QED
    BY <1>2, <1>3, <2>2 DEF CycleStep, CycleInv
<1>6. QED
  BY <1>4, <1>5

\* A patch that is performed and whose answer is lost.
LEMMA PatchLostStep ==
    ASSUME TypeOK, CycleInv, NEW p \in Workers, Workers = {p}, SleepsFail,
           NEW w \in Workloads, PatchWrite(p, w),
           ReturnError(p, job[p].toPatch \ {w})
    PROVE  CycleStep
<1>1. SpecInv /\ AsleepInv /\ LostInv /\ WorkerInv(p)
  BY DEF CycleInv
<1>2. /\ job[p].step = "apply" /\ UNCHANGED <<sleepInfo, secret>>
      /\ \A v \in Workloads \ {w} :
           workload'[v] = workload[v] /\ before'[v] = before[v]
  BY <1>1, PatchFacts
<1>3. /\ job'[p].step = "idle"
      /\ lost' = lost \cup Unsaved(p, job[p].toPatch \ {w})
  BY ReturnType, IdleType DEF TypeOK, ReturnError
<1>4. Pending' = {} /\ Pending = Unsaved(p, job[p].toPatch)
  BY <1>3, NothingPending, PendingIs
<1>5. SpecInv' /\ LostInv'
  BY <1>1, <1>2 DEF SpecInv, LostInv, Undisturbed
<1>6. CASE job[p].operation = "SLEEP"
  <2>1. /\ workload'[w] = SleepValue /\ w \in ToSleep(p)
        /\ w \notin Controlled \cup Unpatchable
    BY <1>1, <1>6, PatchFacts DEF ToSleep
  <2>2. /\ lost' = lost \cup (ToSleep(p) \ job[p].toPatch) \cup {w}
        /\ Pending = ToSleep(p) \ job[p].toPatch
    BY <1>2, <1>3, <1>4, <1>6, <2>1 DEF Unsaved, At
  <2>3. Refines
    BY <1>1, <1>4, <1>6, <2>2, SleepLostRefines
  <2>4. AsleepInv'
    BY <1>1, <1>2, <2>1 DEF AsleepInv
  <2>5. \A v \in Workloads : Known(v)' => Saved(v)'
    BY <1>1, <1>2, <1>6, <2>2 DEF WorkerInv, SleepInv, Known, Saved
  <2>6. WorkerInv(p)'
    BY <1>3, <2>5 DEF WorkerInv, SecretInv, Undisturbed
  <2>7. QED
    BY <1>5, <2>3, <2>4, <2>6 DEF CycleStep, CycleInv
<1>7. CASE job[p].operation # "SLEEP"
  <2>1. lost' = lost /\ Pending = {} /\ before'[w] = None
    BY <1>1, <1>3, <1>4, <1>7, PatchFacts DEF Unsaved, At
  <2>2. Refines
    BY <1>1, <1>4, <1>7, <2>1, WakeUpRefines
  <2>3. AsleepInv'
    BY <1>1, <1>2, <2>1 DEF AsleepInv
  <2>4. \A v \in Workloads : Known(v)' => Saved(v)'
    BY <1>1, <1>2, <1>7, <2>1 DEF WorkerInv, WakeUpInv, Known, Saved
  <2>5. WorkerInv(p)'
    BY <1>3, <2>4 DEF WorkerInv, SecretInv, Undisturbed
  <2>6. QED
    BY <1>5, <2>2, <2>3, <2>5 DEF CycleStep, CycleInv
<1>8. QED
  BY <1>6, <1>7

\* The Secret is written, whether or not the answer is lost.
LEMMA SaveStep ==
    ASSUME TypeOK, CycleInv, NEW p \in Workers, Workers = {p}, SecretWrite(p),
           UNCHANGED lost, job'[p].step \in {"idle", "status"},
           job'[p].step = "status" => job'[p].operation = job[p].operation
    PROVE  CycleStep
<1>1. /\ ReadyToSave(p) /\ job[p].step = "apply"
      /\ UNCHANGED <<workload, sleepInfo, before>>
  BY DEF SecretWrite, ReadyToSave, At
<1>2. SecretInv'
  BY <1>1, SaveCycle DEF CycleInv
<1>3. WorkerInv(p)'
  BY <1>1, <1>2 DEF WorkerInv, CycleInv
<1>4. Refines
  BY <1>1, NothingPending, EndRefines
<1>5. QED
  BY <1>1, <1>3, <1>4 DEF CycleStep, CycleInv, SpecInv, AsleepInv, LostInv

\* A step of the SleepInfo controller.
LEMMA CronCycle ==
    ASSUME Alone, TypeOK, CycleInv, CronStep
    PROVE  CycleStep
<1> DEFINE p == "cron"
<1>1. p \in Workers
  BY DEF CronStep, CronProgress, GetSleepInfo, GetSecret, GetSecretNotDue,
     ListTarget, UpdateStatus, UpdateStatusRefused, Patch, PatchWrite,
     UpsertSecret, SecretWrite, UpsertSecretRefused, SecretRefused, ReadyToSave,
     SleepRefused, PatchRefused, ListFails, CronCallFails, CronAnswerLost, Listed,
     At
<1>2. /\ Workers = {p} /\ job \in [Workers -> Jobs] /\ job[p] \in Jobs
      /\ ~ Fault("list") /\ \A kind : Fault(kind) => SleepsFail
  BY <1>1, AloneFacts DEF TypeOK
<1>3. SpecInv /\ AsleepInv /\ WorkerInv(p)
  BY <1>1 DEF CycleInv
<1>4. UNCHANGED sleepInfo => SpecInv'
  BY <1>3 DEF SpecInv
<1>5. CASE \E w \in Workloads : Patch(p, w)
  BY <1>1, <1>2, <1>5, PatchStep
<1>6. CASE GetSleepInfo
  <2> DEFINE j == [Idle EXCEPT !.step = "secret",
                               !.wakeUp = sleepInfo.cached.wakeUp,
                               !.toList = sleepInfo.cached.targets]
  <2>1. /\ job' = [job EXCEPT ![p] = j] /\ job[p].step = "idle"
        /\ UNCHANGED <<workload, secret, before, lost>>
    BY <1>6 DEF GetSleepInfo, At
  <2>2. j.step = "secret" /\ j.toList = Targets
    BY <1>3, IdleType DEF Jobs, SpecInv
  <2> HIDE DEF j
  <2>3. job'[p].step = "secret" /\ job'[p].toList = Targets
    BY <1>1, <1>2, <2>1, <2>2
  <2>4. WorkerInv(p)'
    BY <1>1, <1>3, <2>1, <2>3, QuietStep
  <2>5. SpecInv'
    BY <1>3, <1>6 DEF GetSleepInfo, SpecInv, TypeOK, ClusterTypeOK
  <2>6. QED
    BY <1>1, <1>2, <2>1, <2>3, <2>4, <2>5, StutterStep
<1>7. CASE GetSecret
  <2> DEFINE operation == CurrentOperation(secret.operationType, job[p].wakeUp)
             j == [job[p] EXCEPT !.step = "list", !.operation = operation,
                                 !.hadSecret = secret.exists,
                                 !.restorePatches = secret.original]
  <2>1. /\ job' = [job EXCEPT ![p] = j] /\ job[p].step = "secret"
        /\ UNCHANGED <<clusterVars, lost>>
    BY <1>7 DEF GetSecret, At
  <2>2. operation \in {"SLEEP", "WAKE_UP"}
    BY DEF CurrentOperation
  <2> HIDE DEF operation
  <2>3. /\ j.step = "list" /\ j.operation = operation
        /\ j.hadSecret = secret.exists /\ j.restorePatches = secret.original
        /\ j.toList = job[p].toList
    BY <1>2 DEF Jobs
  <2> HIDE DEF j
  <2>4. job'[p] = j
    BY <1>1, <1>2, <2>1
  <2>5. job[p].toList = Targets /\ SecretInv
    BY <1>3, <2>1 DEF WorkerInv
  <2>6. ListInv(p)'
    BY <2>1, <2>2, <2>3, <2>4, <2>5, ClusterAssumption DEF ListInv, clusterVars
  <2>7. SecretInv'
    BY <2>1, <2>5 DEF SecretInv, Known, Saved, Exact, clusterVars
  <2>8. WorkerInv(p)'
    BY <2>3, <2>4, <2>6, <2>7 DEF WorkerInv
  <2>9. QED
    BY <1>1, <1>2, <1>4, <2>1, <2>3, <2>4, <2>8, StutterStep DEF clusterVars
<1>8. CASE GetSecretNotDue
  <2>1. /\ UNCHANGED <<clusterVars, lost>> /\ Return(p) /\ job[p].step # "apply"
    BY <1>8 DEF GetSecretNotDue, At
  <2>2. job'[p].step = "idle"
    BY <1>1, <1>2, <2>1, ReturnType, IdleType
  <2>3. WorkerInv(p)'
    BY <1>1, <1>3, <2>1, <2>2, QuietStep DEF clusterVars
  <2>4. QED
    BY <1>1, <1>2, <1>4, <2>1, <2>2, <2>3, StutterStep DEF clusterVars
<1>9. CASE \E t \in Targets : ListTarget(p, t)
  <2>1. UNCHANGED <<clusterVars, lost>>
    BY <1>9 DEF ListTarget
  <2>2. WorkerInv(p)' /\ job[p].step = "list" /\ job'[p].step = "list"
    BY <1>1, <1>3, <1>9, ListCycle
  <2>3. QED
    BY <1>1, <1>2, <1>4, <2>1, <2>2, StutterStep DEF clusterVars
<1>10. CASE UpdateStatus
  <2>1. /\ Listed(p) /\ job' = [job EXCEPT ![p] = Applying(p)]
        /\ UNCHANGED <<workload, secret, before, lost>>
    BY <1>10 DEF UpdateStatus, StatusWrite
  <2>2. SpecInv'
    BY <1>3, <1>10 DEF UpdateStatus, StatusWrite, SpecInv, TypeOK, ClusterTypeOK
  <2>3. WorkerInv(p)' /\ Refines
    BY <1>1, <1>2, <1>3, <2>1, ApplyCycle
  <2>4. QED
    BY <1>2, <2>1, <2>2, <2>3 DEF CycleStep, CycleInv, AsleepInv, LostInv
<1>11. ASSUME Fail(p), UNCHANGED clusterVars, job[p].step = "apply" => SleepsFail
       PROVE  CycleStep
  BY <1>1, <1>2, <1>4, <1>11, ErrorStep DEF clusterVars
<1>12. CASE UpdateStatusRefused
  BY <1>11, <1>12 DEF UpdateStatusRefused, Listed, At
<1>13. CASE UpsertSecret
  <2>1. SecretWrite(p) /\ Return(p) /\ UNCHANGED lost
    BY <1>13 DEF UpsertSecret
  <2>2. job'[p].step = "idle"
    BY <1>1, <1>2, <2>1, ReturnType, IdleType
  <2>3. QED
    BY <1>1, <1>2, <2>1, <2>2, SaveStep
<1>14. CASE UpsertSecretRefused
  BY <1>1, <1>3, <1>14
  DEF UpsertSecretRefused, SecretRefused, ReadyToSave, At, WorkerInv, SleepInv,
      WakeUpInv
<1>15. CASE SleepRefused
  <2>1. SleepsFail
    BY <1>1, <1>3, <1>15, RefusedFails DEF SleepRefused
  <2>2. QED
    BY <1>11, <1>15, <2>1 DEF SleepRefused
<1>16. CASE CronCallFails
  BY <1>2, <1>11, <1>16 DEF CronCallFails
<1>17. CASE CronAnswerLost
  <2>1. SleepsFail
    BY <1>2, <1>17 DEF CronAnswerLost
  <2>2. CASE Listed(p) /\ StatusWrite(p) /\ Fail(p)
    <3>1. SpecInv'
      BY <1>3, <2>2 DEF StatusWrite, SpecInv, TypeOK, ClusterTypeOK
    <3>2. UNCHANGED <<workload, secret, before>>
      BY <2>2 DEF StatusWrite
    <3>3. QED
      BY <1>1, <1>2, <2>1, <2>2, <3>1, <3>2, ErrorStep
  <2>3. CASE \E w \in Workloads : /\ PatchWrite(p, w)
                                 /\ ReturnError(p, job[p].toPatch \ {w})
    BY <1>1, <1>2, <2>1, <2>3, PatchLostStep
  <2>4. CASE SecretWrite(p) /\ Return(p) /\ UNCHANGED lost
    <3>1. job'[p].step = "idle"
      BY <1>1, <1>2, <2>4, ReturnType, IdleType
    <3>2. QED
      BY <1>1, <1>2, <2>4, <3>1, SaveStep
  <2>5. QED
    BY <1>17, <2>2, <2>3, <2>4 DEF CronAnswerLost
<1>18. QED
  BY <1>2, <1>5, <1>6, <1>7, <1>8, <1>9, <1>10, <1>12, <1>13, <1>14, <1>15,
     <1>16, <1>17
  DEF CronStep, CronProgress, ListFails

\* A step of the SleepInfoExecution controller.
LEMMA ExecCycle ==
    ASSUME Alone, TypeOK, CycleInv, ExecStep
    PROVE  CycleStep
<1> DEFINE p == "exec"
<1>1. p \in Workers
  BY DEF ExecStep, ExecProgress, GetExecution, SetOwnerReference, OwnerWrite,
     GetSecretForExecution, ListTarget, StartOperation, Patch, PatchWrite,
     SaveSecret, SecretWrite, SaveStatus, UpdateExecutionStatus, PhaseWrite,
     ExecCallRefused, PatchRefused, SecretRefused, ReadyToSave, ListFails,
     ExecCallFails, ExecAnswerLost, Listed, At
<1>2. /\ Workers = {p} /\ job \in [Workers -> Jobs] /\ job[p] \in Jobs
      /\ ~ Fault("list") /\ \A kind : Fault(kind) => SleepsFail
  BY <1>1, AloneFacts DEF TypeOK
<1>3. SpecInv /\ AsleepInv /\ WorkerInv(p)
  BY <1>1 DEF CycleInv
<1>4. UNCHANGED sleepInfo => SpecInv'
  BY <1>3 DEF SpecInv
<1>5. ASSUME NEW j, job' = [job EXCEPT ![p] = j], job[p].step # "apply",
             j.step \notin {"list", "apply"},
             j.operation \in {"SLEEP", "WAKE_UP"},
             j.step \in {"owner", "secret"} => j.toList = Targets,
             UNCHANGED <<workload, secret, before, lost>>, SpecInv'
      PROVE  CycleStep
  <2>1. job'[p] = j
    BY <1>1, <1>2, <1>5
  <2>2. WorkerInv(p)'
    BY <1>1, <1>3, <1>5, <2>1, QuietStep
  <2>3. QED
    BY <1>1, <1>2, <1>5, <2>1, <2>2, StutterStep
<1>6. ASSUME Fail(p), UNCHANGED <<workload, secret, before>>, SpecInv',
             job[p].step = "apply" => SleepsFail
      PROVE  CycleStep
  BY <1>1, <1>2, <1>6, ErrorStep
<1>7. CASE \E e \in Executions : GetExecution(e)
  <2>1. PICK e \in Executions : GetExecution(e)
    BY <1>7
  <2>2. job[p].step = "idle" /\ UNCHANGED <<workload, secret, before, lost>>
    BY <2>1 DEF GetExecution, At
  <2>3. SpecInv'
    BY <1>3, <2>1 DEF GetExecution, SpecInv, TypeOK, ClusterTypeOK
  <2>4. CASE cache[e].exists /\ ~ IsProcessed(cache[e])
    <3> DEFINE step == IF ~ sleepInfo.cached.exists THEN "phase"
                       ELSE IF cache[e].owned THEN "secret" ELSE "owner"
               j == [Idle EXCEPT
                       !.step = step, !.execution = e, !.seen = cache[e],
                       !.operation = OperationOf[e],
                       !.wakeUp = sleepInfo.cached.wakeUp,
                       !.toList = sleepInfo.cached.targets,
                       !.phase = IF sleepInfo.cached.exists THEN ""
                                                            ELSE "Failed"]
    <3>1. job' = [job EXCEPT ![p] = j]
      BY <2>1, <2>4 DEF GetExecution
    <3>2. step \in {"owner", "secret", "phase"}
      OBVIOUS
    <3> HIDE DEF step
    <3>3. /\ j.step = step /\ j.operation = OperationOf[e]
          /\ j.toList = sleepInfo.cached.targets
      BY IdleType DEF Jobs
    <3> HIDE DEF j
    <3>4. j.toList = Targets /\ j.operation \in {"SLEEP", "WAKE_UP"}
      BY <1>3, <3>3, ClusterAssumption DEF SpecInv
    <3>5. QED
      BY <1>5, <2>2, <2>3, <3>1, <3>2, <3>3, <3>4
  <2>5. CASE ~ (cache[e].exists /\ ~ IsProcessed(cache[e]))
    <3>1. UNCHANGED job
      BY <2>1, <2>5 DEF GetExecution
    <3>2. WorkerInv(p)'
      BY <1>1, <1>3, <2>2, <3>1, QuietStep
    <3>3. QED
      BY <1>1, <1>2, <2>2, <2>3, <3>1, <3>2, StutterStep
  <2>6. QED
    BY <2>4, <2>5
<1>8. CASE SetOwnerReference
  <2> DEFINE j == [job[p] EXCEPT !.step = "secret", !.seen = execution'[Current]]
  <2>1. /\ job[p].step = "owner"
        /\ UNCHANGED <<workload, sleepInfo, secret, before, lost>>
    BY <1>8 DEF SetOwnerReference, OwnerWrite, At
  <2>2. job' = [job EXCEPT ![p] = j]
    BY <1>1, <1>2, <1>8 DEF SetOwnerReference
  <2>3. /\ j.step = "secret" /\ j.operation = job[p].operation
        /\ j.toList = job[p].toList
    BY <1>2 DEF Jobs
  <2> HIDE DEF j
  <2>4. job[p].toList = Targets /\ job[p].operation \in {"SLEEP", "WAKE_UP"}
    BY <1>3, <2>1 DEF WorkerInv
  <2>5. QED
    BY <1>4, <1>5, <2>1, <2>2, <2>3, <2>4
<1>9. CASE GetSecretForExecution
  <2>1. job[p].step = "secret" /\ UNCHANGED <<clusterVars, lost>>
    BY <1>9 DEF GetSecretForExecution, At
  <2>2. /\ job[p].toList = Targets /\ job[p].operation \in {"SLEEP", "WAKE_UP"}
        /\ SecretInv
    BY <1>3, <2>1 DEF WorkerInv
  <2> DEFINE isAsleep == secret.exists /\ secret.operationType = "SLEEP"
             phase == IF (job[p].operation = "SLEEP") = isAsleep
                      THEN "Skipped"
                      ELSE IF OverrideFails(job[p].operation, job[p].wakeUp)
                           THEN "Failed" ELSE ""
             step == IF phase = "" THEN "list" ELSE "phase"
             j == [job[p] EXCEPT !.step = step, !.phase = phase,
                                 !.hadSecret = secret.exists,
                                 !.restorePatches = secret.original]
  <2>3. step \in {"list", "phase"} /\ job' = [job EXCEPT ![p] = j]
    BY <1>9 DEF GetSecretForExecution
  <2> HIDE DEF phase, step
  <2>4. /\ j.step = step /\ j.operation = job[p].operation
        /\ j.hadSecret = secret.exists /\ j.restorePatches = secret.original
        /\ j.toList = job[p].toList
    BY <1>2 DEF Jobs
  <2> HIDE DEF j
  <2>5. CASE step = "phase"
    BY <1>4, <1>5, <2>1, <2>2, <2>3, <2>4, <2>5 DEF clusterVars
  <2>6. CASE step = "list"
    <3>1. job'[p] = j
      BY <1>1, <1>2, <2>3
    <3>2. ListInv(p)'
      BY <2>1, <2>2, <2>4, <3>1, ClusterAssumption DEF ListInv, clusterVars
    <3>3. SecretInv'
      BY <2>1, <2>2 DEF SecretInv, Known, Saved, Exact, clusterVars
    <3>4. WorkerInv(p)'
      BY <2>2, <2>4, <2>6, <3>1, <3>2, <3>3 DEF WorkerInv
    <3>5. QED
      BY <1>1, <1>2, <1>4, <2>1, <2>4, <2>6, <3>1, <3>4, StutterStep
      DEF clusterVars
  <2>7. QED
    BY <2>3, <2>5, <2>6
<1>10. CASE \E t \in Targets : ListTarget(p, t)
  <2>1. UNCHANGED <<clusterVars, lost>>
    BY <1>10 DEF ListTarget
  <2>2. WorkerInv(p)' /\ job[p].step = "list" /\ job'[p].step = "list"
    BY <1>1, <1>3, <1>10, ListCycle
  <2>3. QED
    BY <1>1, <1>2, <1>4, <2>1, <2>2, StutterStep DEF clusterVars
<1>11. CASE StartOperation
  <2>1. Listed(p) /\ job[p].step = "list" /\ UNCHANGED <<clusterVars, lost>>
    BY <1>11 DEF StartOperation, Listed, At
  <2>2. CASE job' = [job EXCEPT ![p] = Applying(p)]
    <3>1. WorkerInv(p)' /\ Refines
      BY <1>1, <1>2, <1>3, <2>1, <2>2, ApplyCycle DEF clusterVars
    <3>2. QED
      BY <1>2, <1>3, <1>4, <2>1, <3>1
      DEF CycleStep, CycleInv, AsleepInv, LostInv, clusterVars
  <2> DEFINE j == [job[p] EXCEPT !.step = "phase", !.phase = "Skipped"]
  <2>3. CASE job' = [job EXCEPT ![p] = j]
    <3>1. j.step = "phase" /\ j.operation = job[p].operation
      BY <1>2 DEF Jobs
    <3> HIDE DEF j
    <3>2. job[p].operation \in {"SLEEP", "WAKE_UP"}
      BY <1>3, <2>1 DEF WorkerInv
    <3>3. QED
      BY <1>4, <1>5, <2>1, <2>3, <3>1, <3>2 DEF clusterVars
  <2>4. QED
    BY <1>11, <2>2, <2>3 DEF StartOperation
<1>12. CASE \E w \in Workloads : Patch(p, w)
  BY <1>1, <1>2, <1>12, PatchStep
<1>13. CASE SaveSecret
  <2> DEFINE j == [job[p] EXCEPT !.step = "status"]
  <2>1. SecretWrite(p) /\ job' = [job EXCEPT ![p] = j] /\ UNCHANGED lost
    BY <1>13 DEF SaveSecret
  <2>2. j.step = "status" /\ j.operation = job[p].operation
    BY <1>2 DEF Jobs
  <2> HIDE DEF j
  <2>3. job'[p] = j
    BY <1>1, <1>2, <2>1
  <2>4. QED
    BY <1>1, <1>2, <2>1, <2>2, <2>3, SaveStep
<1>14. CASE SaveStatus
  <2> DEFINE j == [job[p] EXCEPT !.step = "phase", !.phase = "Succeeded"]
  <2>1. /\ job' = [job EXCEPT ![p] = j] /\ job[p].step = "status"
        /\ UNCHANGED <<workload, secret, before, lost>>
    BY <1>1, <1>2, <1>14 DEF SaveStatus, StatusWrite, At
  <2>2. SpecInv'
    BY <1>3, <1>14 DEF SaveStatus, StatusWrite, SpecInv, TypeOK, ClusterTypeOK
  <2>3. j.step = "phase" /\ j.operation = job[p].operation
    BY <1>2 DEF Jobs
  <2> HIDE DEF j
  <2>4. job[p].operation \in {"SLEEP", "WAKE_UP"}
    BY <1>3, <2>1 DEF WorkerInv
  <2>5. QED
    BY <1>5, <2>1, <2>2, <2>3, <2>4
<1>15. CASE UpdateExecutionStatus
  <2>1. /\ Return(p) /\ job[p].step = "phase"
        /\ UNCHANGED <<workload, sleepInfo, secret, before, lost>>
    BY <1>15 DEF UpdateExecutionStatus, PhaseWrite, At
  <2>2. job'[p].step = "idle"
    BY <1>1, <1>2, <2>1, ReturnType, IdleType
  <2>3. WorkerInv(p)'
    BY <1>1, <1>3, <2>1, <2>2, QuietStep
  <2>4. QED
    BY <1>1, <1>2, <1>4, <2>1, <2>2, <2>3, StutterStep
<1>16. CASE ExecCallRefused
  <2>1. Fail(p) /\ UNCHANGED clusterVars
    BY <1>16 DEF ExecCallRefused, Retry
  <2>2. job[p].step = "apply" => SleepsFail
    <3>1. CASE SecretRefused(p)
      BY <1>1, <1>3, <3>1 DEF SecretRefused, ReadyToSave, At, WorkerInv, SleepInv,
        WakeUpInv
    <3>2. QED
      BY <1>1, <1>3, <1>16, <3>1, RefusedFails DEF ExecCallRefused, At
  <2>3. QED
    BY <1>4, <1>6, <2>1, <2>2 DEF clusterVars
<1>17. CASE ExecCallFails
  <2>1. Fail(p) /\ UNCHANGED clusterVars /\ SleepsFail
    BY <1>2, <1>17 DEF ExecCallFails, Retry
  <2>2. QED
    BY <1>4, <1>6, <2>1 DEF clusterVars
<1>18. CASE ExecAnswerLost
  <2>1. SleepsFail
    BY <1>2, <1>18 DEF ExecAnswerLost
  <2>2. CASE (OwnerWrite \/ PhaseWrite) /\ Fail(p)
    BY <1>4, <1>6, <2>1, <2>2 DEF OwnerWrite, PhaseWrite
  <2>3. CASE StatusWrite(p) /\ Fail(p)
    <3>1. SpecInv'
      BY <1>3, <2>3 DEF StatusWrite, SpecInv, TypeOK, ClusterTypeOK
    <3>2. QED
      BY <1>6, <2>1, <2>3, <3>1 DEF StatusWrite
  <2>4. CASE \E w \in Workloads : /\ PatchWrite(p, w)
                                 /\ ReturnError(p, job[p].toPatch \ {w})
    BY <1>1, <1>2, <2>1, <2>4, PatchLostStep
  <2>5. CASE SecretWrite(p) /\ Return(p) /\ UNCHANGED lost
    <3>1. job'[p].step = "idle"
      BY <1>1, <1>2, <2>5, ReturnType, IdleType
    <3>2. QED
      BY <1>1, <1>2, <2>5, <3>1, SaveStep
  <2>6. QED
    BY <1>18, <2>2, <2>3, <2>4, <2>5 DEF ExecAnswerLost
<1>19. QED
  BY <1>2, <1>7, <1>8, <1>9, <1>10, <1>11, <1>12, <1>13, <1>14, <1>15, <1>16,
     <1>17, <1>18
  DEF ExecStep, ExecProgress, ListFails

\* A step of users, of the garbage collector or of a watch.
LEMMA EnvironmentCycle ==
    ASSUME Alone, TypeOK, CycleInv, Environment
    PROVE  CycleStep
<1>1. /\ workload \in ValueMap /\ before \in ValueMap
      /\ job \in [Workers -> Jobs]
  BY DEF TypeOK, ClusterTypeOK
<1>2. PICK p \in Workers : Workers = {p} /\ SpecInv /\ AsleepInv /\ WorkerInv(p)
  BY DEF Alone, CycleInv
<1>3. UNCHANGED <<job, lost>>
  BY DEF Environment, CreateExecution, SyncExecution
<1>4. Pending' = Pending
  BY <1>3 DEF Pending, Unsaved, At, ToSleep
<1>5. ASSUME UNCHANGED <<workload, secret, before>>, SpecInv'
      PROVE  CycleStep
  <2>1. AsleepInv' /\ LostInv' /\ (SecretInv => SecretInv')
    BY <1>2, <1>3, <1>5
    DEF CycleInv, AsleepInv, LostInv, SecretInv, Known, Saved, Exact
  <2>2. WorkerInv(p)'
    <3>1. ListInv(p) => ListInv(p)'
      BY <1>3, <1>5 DEF ListInv
    <3>2. SleepInv(p) => SleepInv(p)'
      BY <1>3, <1>5 DEF SleepInv, Remembers, Exact, Known, Saved, ToSleep
    <3>3. WakeUpInv(p) => WakeUpInv(p)'
      BY <1>3, <1>5 DEF WakeUpInv, Known, Saved
    <3>4. QED
      BY <1>2, <1>3, <2>1, <3>1, <3>2, <3>3 DEF WorkerInv
  <2>3. Remembered' = Remembered
    BY <1>3, <1>5, RememberedValue, SameRemembered
  <2>4. QED
    BY <1>2, <1>4, <1>5, <2>1, <2>2, <2>3 DEF CycleStep, CycleInv, Refines
<1>11. CASE \E w \in Workloads : EditWorkload(w)
  <2>1. PICK w \in Workloads : EditWorkload(w)
    BY <1>11
  <2>2. /\ "workload" \in UserEdits /\ UNCHANGED <<sleepInfo, secret>>
        /\ before'[w] = None
        /\ \A v \in Workloads \ {w} :
             before'[v] = before[v] /\ workload'[v] = workload[v]
    BY <1>1, <2>1 DEF EditWorkload, ValueMap
  <2>3. Cycle!Edit(w)
    <3>1. /\ Remembered'[w] = None
          /\ \A v \in Workloads \ {w} : Remembered'[v] = Remembered[v]
      BY <1>3, <2>2, RememberedValue
    <3>2. Remembered' = [Remembered EXCEPT ![w] = None]
      BY <3>1, OneRemembered
    <3>3. QED
      BY <1>3, <1>4, <2>1, <3>2 DEF EditWorkload, Cycle!Edit, UsersEdit
  <2>4. AsleepInv' /\ SpecInv' /\ LostInv'
    BY <1>2, <1>3, <2>2 DEF CycleInv, AsleepInv, SpecInv, LostInv
  <2>5. \A v \in Workloads : /\ before'[v] # None => before'[v] = before[v]
                             /\ before[v] = None => before'[v] = None
                             /\ Known(v)' => Known(v) /\ before'[v] = before[v]
    BY <1>3, <2>2 DEF Known
  <2>6. job[p].toPatch \subseteq Workloads
    BY <1>1, <1>2 DEF Jobs
  <2>7. ~ Undisturbed
    BY <2>2 DEF Undisturbed, SleepsFail, UsersEdit
  <2>8. SecretInv => SecretInv'
    BY <2>2, <2>5, <2>7 DEF SecretInv, Saved
  <2>9. ListInv(p) => ListInv(p)'
    BY <1>3, <2>2, <2>5, <2>7 DEF ListInv
  <2>10. SleepInv(p) => SleepInv(p)'
    <3>1. ToSleep(p)' = ToSleep(p)
      BY <1>3 DEF ToSleep
    <3>2. QED
      BY <1>3, <2>2, <2>5, <2>6, <2>7, <3>1 DEF SleepInv, Remembers, Saved
  <2>11. WakeUpInv(p) => WakeUpInv(p)'
    BY <1>3, <2>2, <2>5, <2>7 DEF WakeUpInv, Saved
  <2>12. WorkerInv(p)'
    BY <1>2, <1>3, <2>8, <2>9, <2>10, <2>11 DEF WorkerInv
  <2>13. QED
    BY <1>2, <2>3, <2>4, <2>12 DEF CycleStep, CycleInv, Refines, Cycle!Next
<1>6. CASE EditWakeUp \/ SyncSleepInfo
  <2>1. UNCHANGED <<workload, secret, before>>
    BY <1>6 DEF EditWakeUp, SyncSleepInfo
  <2>2. SpecInv'
    <3>1. sleepInfo \in [spec : SleepInfoSpecs, cached : SleepInfoSpecs,
                         operation : {"SLEEP", "WAKE_UP", ""},
                         holders : SUBSET Holders]
      BY DEF TypeOK, ClusterTypeOK
    <3>2. CASE EditWakeUp
      <4>1. sleepInfo' = [sleepInfo EXCEPT !.spec.wakeUp = ~ @, !.holders = {}]
        BY <3>2 DEF EditWakeUp
      <4>2. QED
        BY <1>2, <3>1, <4>1 DEF SpecInv, SleepInfoSpecs
    <3>3. CASE SyncSleepInfo
      <4>1. sleepInfo' = [sleepInfo EXCEPT !.cached = sleepInfo.spec,
                                           !.holders = @ \cup {"cache"}]
        BY <3>3 DEF SyncSleepInfo
      <4>2. QED
        BY <1>2, <3>1, <4>1 DEF SpecInv
    <3>4. QED
      BY <1>6, <3>2, <3>3
  <2>3. QED
    BY <1>5, <2>1, <2>2
<1>7. CASE EditTargets \/ DeleteSleepInfo
  BY <1>7, AloneFacts DEF EditTargets, DeleteSleepInfo
<1>8. CASE CollectSecret \/ \E e \in Executions : CollectExecution(e)
  BY <1>2, <1>8 DEF CollectSecret, CollectExecution, SpecInv
<1>9. CASE \E e \in Executions : CreateExecution(e) \/ SyncExecution(e)
  <2>1. UNCHANGED <<workload, sleepInfo, secret, before>>
    BY <1>9 DEF CreateExecution, SyncExecution, clusterVars
  <2>2. QED
    BY <1>2, <1>5, <2>1 DEF SpecInv
<1>10. QED
  BY <1>6, <1>7, <1>8, <1>9, <1>11 DEF Environment, UserStep

\* No workload sleeps, and no reconcile is in progress, at the start.
LEMMA CycleInvInit == Init => CycleInv
<1> SUFFICES ASSUME Init PROVE CycleInv
  OBVIOUS
<1>1. \A w \in Workloads : before[w] = None /\ secret.original[w] = None
  BY DEF Init, ClusterInit, NoSecret, NoValues
<1>2. \A p \in Workers : job[p].step = "idle"
  BY IdleType DEF Init
<1>3. SpecInv
  BY DEF Init, ClusterInit, InitialSpec, SpecInv
<1>4. SecretInv
  BY <1>1 DEF SecretInv, Known, Exact
<1>5. LostInv
  BY DEF Init, LostInv
<1>6. QED
  BY <1>1, <1>2, <1>3, <1>4, <1>5 DEF CycleInv, AsleepInv, WorkerInv

\* Every step keeps the invariant and is a step of SleepCycle or none.
LEMMA CycleInvNext ==
    ASSUME Alone, TypeOK, CycleInv, [Next]_vars
    PROVE  CycleStep
<1>1. CASE CronStep
  BY <1>1, CronCycle
<1>2. CASE ExecStep
  BY <1>2, ExecCycle
<1>3. CASE Environment
  BY <1>3, EnvironmentCycle
<1>4. CASE ManagerRestarts
  <2>1. PICK p \in Workers : Workers = {p}
    BY DEF Alone
  <2>2. job'[p].step = "idle" /\ UNCHANGED <<workload, secret, before>> /\ SleepsFail
    BY <1>4, IdleType, AloneFacts DEF ManagerRestarts
  <2>3. lost' = lost \cup Unsaved(p, job[p].toPatch)
    BY <1>4, <2>1, PendingIs DEF ManagerRestarts, Pending
  <2>4. SpecInv'
    BY <1>4 DEF ManagerRestarts, CycleInv, SpecInv, TypeOK, ClusterTypeOK
  <2>5. QED
    BY <2>1, <2>2, <2>3, <2>4, FailStep
<1>5. CASE UNCHANGED vars
  <2>1. UNCHANGED <<workload, sleepInfo, secret, before, job, lost>>
    BY <1>5 DEF vars, clusterVars
  <2>2. /\ SpecInv' /\ AsleepInv' /\ LostInv' /\ (SecretInv => SecretInv')
        /\ Pending' = Pending
    BY <2>1 DEF CycleInv, SpecInv, AsleepInv, LostInv, SecretInv, Known, Saved,
      Exact, Pending, Unsaved, At, ToSleep
  <2>3. ASSUME NEW p \in Workers
        PROVE  WorkerInv(p)'
    <3>1. ListInv(p) => ListInv(p)'
      BY <2>1 DEF ListInv
    <3>2. SleepInv(p) => SleepInv(p)'
      BY <2>1 DEF SleepInv, Remembers, Exact, Known, Saved, ToSleep
    <3>3. WakeUpInv(p) => WakeUpInv(p)'
      BY <2>1 DEF WakeUpInv, Known, Saved
    <3>4. QED
      BY <2>1, <2>2, <3>1, <3>2, <3>3 DEF CycleInv, WorkerInv
  <2>4. Remembered' = Remembered
    BY <2>1, RememberedValue, SameRemembered
  <2>5. QED
    BY <2>1, <2>2, <2>3, <2>4 DEF CycleStep, CycleInv, Refines
<1>6. QED
  BY <1>1, <1>2, <1>3, <1>4, <1>5 DEF Next

-----------------------------------------------------------------------------
\* The invariant holds.
LEMMA CycleInvariant == ASSUME Alone PROVE Spec => [](TypeInv /\ CycleInv)
<1>1. Init => TypeInv /\ CycleInv
  BY TypeInvInit, CycleInvInit
<1>2. TypeInv /\ CycleInv /\ [Next]_vars => (TypeInv /\ CycleInv)'
  BY TypeInvNext, CycleInvNext DEF TypeInv, CycleStep
<1>3. QED
  BY <1>1, <1>2, PTL DEF Spec

(***************************************************************************)
(* Whatever the workloads, their values, their targets and the executions, *)
(* whatever users do to the workloads, and whatever calls and processes    *)
(* fail: a controller that runs alone never loses the original value of a  *)
(* workload that it put to sleep, but for those that the failing Sleep     *)
(* itself had patched.  No list may fail, and the targets stay the same.   *)
(***************************************************************************)
THEOREM RestoreDataSafe == ASSUME Alone PROVE Spec => []RestoreDataKept
<1>1. CycleInv => RestoreDataKept
  <2> SUFFICES ASSUME CycleInv, NEW w \in Workloads, Remembered[w] # None
               PROVE  \/ secret.original[w] = before[w]
                      \/ \E p \in Workers : Saving(p, w)
    BY DEF RestoreDataKept
  <2>1. Known(w)
    BY RememberedValue DEF Known
  <2>2. PICK p \in Workers : WorkerInv(p)
    BY DEF Alone, CycleInv
  <2>3. QED
    BY <2>1, <2>2
    DEF WorkerInv, SecretInv, SleepInv, WakeUpInv, Remembers, Saved, Saving
<1>2. QED
  BY <1>1, CycleInvariant, PTL

(***************************************************************************)
(* Between its reconciles the Secret says SLEEP while a workload that it   *)
(* put to sleep still sleeps, so its next operation can wake it up; under  *)
(* the same conditions, and with the same exception.                       *)
(***************************************************************************)
THEOREM AsleepRecorded == ASSUME Alone PROVE Spec => []AsleepIsRecorded
<1>1. CycleInv => AsleepIsRecorded
  <2> SUFFICES ASSUME CycleInv, Quiet, NEW w \in Workloads, Remembered[w] # None
               PROVE  secret.operationType = "SLEEP"
    BY DEF AsleepIsRecorded
  <2>1. Known(w)
    BY RememberedValue DEF Known
  <2>2. PICK p \in Workers : WorkerInv(p) /\ job[p].step = "idle"
    BY DEF Alone, CycleInv, Quiet
  <2>3. QED
    BY <2>1, <2>2 DEF WorkerInv, SecretInv, Saved
<1>2. QED
  BY <1>1, CycleInvariant, PTL

(***************************************************************************)
(* Such a controller implements SleepCycle: every step of Reconcile, of    *)
(* the users, of the watches and of a failure is a step of it or leaves    *)
(* the workloads and what is remembered of them alone.                     *)
(***************************************************************************)
THEOREM SleepCycleImplemented == ASSUME Alone PROVE Spec => ImplementsSleepCycle
<1>1. Init => Cycle!Init
  <2> SUFFICES ASSUME Init PROVE Cycle!Init
    OBVIOUS
  <2>1. workload \in [Workloads -> Values \cup {None}]
    BY DEF Init, ClusterInit, ValueMap
  <2>2. Remembered = [w \in Workloads |-> None]
    BY DEF Init, ClusterInit, Remembered, NoValues
  <2>3. PICK p \in Workers : Workers = {p}
    BY DEF Alone
  <2>4. Pending = {}
    BY <2>3, NothingPending, IdleType DEF Init
  <2>5. QED
    BY <2>1, <2>2, <2>4 DEF Cycle!Init
<1>2. TypeInv /\ CycleInv /\ [Next]_vars => [Cycle!Next]_(Cycle!vars)
  BY CycleInvNext DEF TypeInv, CycleStep, Refines, Cycle!vars
<1>3. QED
  BY <1>1, <1>2, CycleInvariant, PTL DEF Spec, ImplementsSleepCycle, Cycle!Spec

=============================================================================
