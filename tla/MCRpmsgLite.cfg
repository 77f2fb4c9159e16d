SPECIFICATION FairSpec
CONSTANTS
  N = 2
  IdxMod = 4
  MaxCount = 10
  s1 = s1
  s2 = s2
  Senders = {s1, s2}
  Endpoints = {e1}
  Msgs = {m1, m2}
  Timeouts <- Waits
  Worlds <- SafeWorlds
INVARIANTS OnePlace LockExact
PROPERTIES LinkSpec Delivered Received SendsReturn
