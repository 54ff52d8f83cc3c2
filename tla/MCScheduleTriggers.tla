------------------------- MODULE MCScheduleTriggers -------------------------
(* Constants for checking ScheduleTriggers with TLC. *)
EXTENDS ScheduleTriggers

CONSTANTS report, cron, local

OneWorker == {report}
OneTrigger == {cron}
CronOfReport == [x \in OneTrigger |-> report]
OneScheduler == {local}

\* Schedules that are due at every moment and at every other.
TwoPeriods == {1, 2}
=============================================================================
