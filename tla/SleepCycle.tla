----------------------------- MODULE SleepCycle -----------------------------
(***************************************************************************)
(* What kube-green promises of the workloads of a namespace: one that it   *)
(* put to sleep keeps its original value remembered until that very value  *)
(* is restored, unless a user changes the workload first or the sleep does *)
(* not come to its end.                                                    *)
(***************************************************************************)
CONSTANTS
    Workloads,   \* names of workloads
    Values,      \* values of the patched fields
    SleepValue,  \* their value when asleep
    None,        \* no workload, nothing remembered
    UsersEdit,   \* whether users change workloads
    SleepsFail   \* whether a sleep may end before its end

VARIABLES
    value,       \* the value of each workload
    remembered,  \* the value to restore, None for a workload that kube-green
                 \* did not put to sleep or that was changed since
    pending,     \* the workloads patched by the sleep in progress
    progress     \* where kube-green is in its work, whatever that may be

vars == <<value, remembered, pending>>

Init ==
    /\ value \in [Workloads -> Values \cup {None}]
    /\ remembered = [w \in Workloads |-> None]
    /\ pending = {}

Sleep(w) ==
    /\ value[w] \notin {None, SleepValue}
    /\ value' = [value EXCEPT ![w] = SleepValue]
    /\ remembered' = [remembered EXCEPT ![w] = value[w]]
    /\ pending' = pending \cup {w}

WakeUp(w) ==
    /\ value[w] = SleepValue
    /\ remembered[w] # None
    /\ value' = [value EXCEPT ![w] = remembered[w]]
    /\ remembered' = [remembered EXCEPT ![w] = None]
    /\ UNCHANGED pending

\* The sleep in progress comes to its end: what it remembers is remembered.
SleepEnds ==
    /\ UNCHANGED <<value, remembered>>
    /\ pending' = {}

Forget(forgotten) ==
    remembered' = [w \in Workloads |->
                     IF w \in forgotten THEN None ELSE remembered[w]]

\* It ends early and forgets what it patched, and nothing else: the originals
\* of earlier sleeps are kept.
SleepFails ==
    /\ SleepsFail
    /\ UNCHANGED value
    /\ Forget(pending)
    /\ pending' = {}

\* It ends with a patch of which it does not know that it was performed.
SleepFailsAt(w) ==
    /\ SleepsFail
    /\ remembered[w] = None
    /\ value' = [value EXCEPT ![w] = SleepValue]
    /\ Forget(pending)
    /\ pending' = {}

\* A user creates, changes or deletes a workload.  A step in which kube-green
\* makes progress is none of a user.
Edit(w) ==
    /\ UsersEdit
    /\ UNCHANGED <<progress, pending>>
    /\ \E v \in (Values \cup {None}) \ {value[w]} :
         value' = [value EXCEPT ![w] = v]
    /\ remembered' = [remembered EXCEPT ![w] = None]

\* An operation overwrites what a user changed after it listed the workload,
\* creates again what a user deleted after that, takes a workload that a user
\* scaled to SleepValue for one that sleeps, or restores the value of an
\* earlier sleep in the place of one that was forgotten.
Overwrite(w) ==
    /\ UsersEdit \/ SleepsFail
    /\ remembered[w] = None
    /\ \E v \in Values : value' = [value EXCEPT ![w] = v]
    /\ pending' \in {pending, pending \cup {w}}
    /\ UNCHANGED remembered

Next ==
    \/ SleepEnds
    \/ SleepFails
    \/ \E w \in Workloads :
         Sleep(w) \/ WakeUp(w) \/ Edit(w) \/ Overwrite(w) \/ SleepFailsAt(w)

Spec == Init /\ [][Next]_vars

=============================================================================
