--------------------------- MODULE MCScheduleLoop ---------------------------
(***************************************************************************)
(* Instances of ScheduleLoop for TLC: a period of twelve seconds of two    *)
(* time units, a delta of two seconds, sleepAt at second 3 and wakeUpAt at *)
(* second 8, more than twice the delta apart in both directions.           *)
(***************************************************************************)
EXTENDS ScheduleLoop

MCSleepAt == {3}
MCWakeUpAt == {8}
MCNoWakeUpAt == {}
MCStartTimes == {0, 9, 12, 21}

=============================================================================
