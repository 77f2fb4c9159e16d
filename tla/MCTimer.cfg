SPECIFICATION Spec
CONSTANTS
  Timers = {p, o1, o2}
  Periodic = {p}
  Stoppable = {}
  Calls <- Deinits
  Careful = TRUE
  CallbackStops = TRUE
  Below = {}
  Timeouts = {1, 2}
  MaxDelay = 1
  MaxLate = 1
SYMMETRY TimerSymmetry
INVARIANTS ListIntact NoLostLock
CHECK_DEADLOCK FALSE
