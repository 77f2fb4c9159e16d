SPECIFICATION Spec
CONSTANTS
  Timers = {p}
  Periodic = {p}
  Stoppable = {p}
  Calls <- StartStop
  Careful = TRUE
  CallbackStops = FALSE
  Below = {}
  Timeouts = {1, 2}
  MaxDelay = 2
  MaxLate = 2
INVARIANTS FiresOnlyArmed
