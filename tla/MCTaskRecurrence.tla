-------------------------- MODULE MCTaskRecurrence ---------------------------
(* The instance of TaskRecurrence that TLC checks: the worker and one call *)
(* of the cron route, two months, one of them to catch up.                 *)
EXTENDS TaskRecurrence

MCScheduled == 1..2
=============================================================================
