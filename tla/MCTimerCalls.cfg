SPECIFICATION FairSpec
CONSTANTS
  Timers = {p, o}
  Periodic = {p}
  Stoppable = {p}
  Calls <- AllCalls
  Careful = TRUE
  CallbackStops = FALSE
  Below = {p}
  Timeouts = {2}
  MaxDelay = 1
  MaxLate = 2
INVARIANTS ListIntact FiresOnlyArmed
PROPERTIES Fires CallsReturn
