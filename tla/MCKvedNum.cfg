SPECIFICATION Spec
CONSTANTS
  k1 = k1  k2 = k2  badkey = badkey  s1 = s1  s2 = s2
  Keys = {k1, k2}
  BadKey = badkey
  Nums <- EdgeNums
  Strs = {s1, s2}
  KeyTypes <- NumKeys
  NumEntries = 2
  CntMax = 3
  CONFIG_FREERTOS = FALSE
  Restarts = TRUE
  CutPoints <- CleanCuts
INVARIANTS TypeOK NewestWins StatsExact Persistent
PROPERTIES SectorKept DurableStore
SYMMETRY KeySymmetry
