SPECIFICATION FairSpec
CONSTANTS
  Events = {mail, job}
  Handled = {mail, job}
  Recordings = {job}
  Slow = {mail}
  Timers = {loop}
  Kicks = {kick}
  MaxRetries = 2
  BatchLimit = 1
  MaxFaults = 2
INVARIANTS MutualExclusion RetryBudget QuarantineIsEarned
PROPERTIES ImplementsDelivery BackoffRespected SettledIsFinal EventuallySettled
