SPECIFICATION FairSpec
CONSTANTS
  Callers = {c1}
  Lists <- SomeLists
  Windows <- SafeWindows
INVARIANTS   Driven
PROPERTIES  KeepsBlinking
