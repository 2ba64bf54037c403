--------------------------- MODULE SleepInfoData ----------------------------
(***************************************************************************)
(* The operation a reconcile performs: sleepinfodata.go without the        *)
(* schedules, which module Schedule adds.                                  *)
(***************************************************************************)

Operations == {"SLEEP", "WAKE_UP"}

\* The operation-type key of a Secret written when no resource was found.
NoOperation == ""

\* Variant: a misspelt operation.
CurrentOperationMisspelt(lastOperation, hasWakeUp) ==
    IF lastOperation = "SLEEP" /\ hasWakeUp THEN "WAKEUP" ELSE "SLEEP"

(***************************************************************************)
(* getSleepInfoData: a SleepInfo wakes up what the last operation put to   *)
(* sleep, if it has a wakeUpAt; else it sleeps.                            *)
(***************************************************************************)
CurrentOperation(lastOperation, hasWakeUp) ==
    IF lastOperation = "SLEEP" /\ hasWakeUp THEN "WAKE_UP" ELSE "SLEEP"

\* applyExecutionOverride fails for a wake up without wakeUpAt.
OverrideFails(operation, hasWakeUp) == operation = "WAKE_UP" /\ ~ hasWakeUp

=============================================================================
