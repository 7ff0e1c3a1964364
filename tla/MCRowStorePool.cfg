CONSTANTS
  Callers = {c1, c2}
  Workers = {w1, w2}
  NoOne = NoOne
  MaxCount = 2
  kSerialBelow = 2
  GenMod = 2
SPECIFICATION FairSpec
INVARIANTS
  CountersExact
PROPERTIES
  LookupPromise
  RunCompletes
