SPECIFICATION FairSpec
CONSTANTS
  t1 = t1  t2 = t2
  Devices = {0, 1, 2}
  Forwarded = {0, 1}
  Services = {1, 2}
  Ops = {1}
  Tasks = {t1, t2}
  Paced = TRUE
INVARIANTS OnePlace TableExact
PROPERTIES DispatchExact Reenabled SignalAcked
