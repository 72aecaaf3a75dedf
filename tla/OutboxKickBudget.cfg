SPECIFICATION Spec
CONSTANTS
  Events = {job}
  Handled = {job}
  Recordings = {job}
  Slow = {}
  Timers = {loop}
  Kicks = {kick}
  MaxRetries = 2
  BatchLimit = 1
  MaxFaults = 0
INVARIANTS EveryBudgetIsKept
