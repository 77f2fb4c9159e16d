SPECIFICATION FairSpec
CONSTANTS
  Devices = {d1, d2}
  MaxTx = 1
  MaxRx = 2
  Worlds <- SafeWorlds
INVARIANTS   HostView 
PROPERTIES Announced Served
CHECK_DEADLOCK FALSE
