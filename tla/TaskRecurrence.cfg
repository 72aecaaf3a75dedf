SPECIFICATION FairSpec
CONSTANTS
  Scanners = {worker, cron}
  Worker = worker
  Months = 2
  Scheduled <- MCScheduled
  MaxCatchUp = 1
  MaxFaults = 1
INVARIANTS OneTaskPerPeriod
PROPERTIES FailureWaits EveryPeriodServed
CHECK_DEADLOCK FALSE
