CONSTANTS
  t1 = t1  t2 = t2  w1 = w1  w2 = w2
  Tasks = {t1, t2}  Workers = {w1, w2}  Poisoned = {t1}
  MaxAttempts = 1  PendingWindow = 2  TTL = 1  MaxRequeues = 0  MaxFaults = 2
SPECIFICATION FairSpec
PROPERTY TasksSettle
