SPECIFICATION Spec
CONSTANTS
  k1 = k1  k2 = k2  badkey = badkey  s1 = s1  s2 = s2
  Keys = {k1}
  BadKey = badkey
  Nums <- EdgeNums
  Strs = {s1, s2}
  KeyTypes <- StrKeys
  NumEntries = 2
  CntMax = 3
  CONFIG_FREERTOS = TRUE
  Restarts = TRUE
  CutPoints <- NoCuts
INVARIANTS Persistent
