CONSTANTS
  t1 = t1  t2 = t2  w1 = w1  w2 = w2
  Tasks = {t1}  Workers = {w1, w2}  Poisoned = {}
  MaxAttempts = 2  PendingWindow = 1  TTL = 2  MaxRequeues = 1  MaxFaults = 2
SPECIFICATION Spec
SYMMETRY Interchangeable
INVARIANTS
    LeasesAreFenced PendingIsUnsettled TaskIsConserved RetriesAreBounded
PROPERTY KeepsContract
