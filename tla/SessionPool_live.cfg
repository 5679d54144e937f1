CONSTANTS
  t1 = t1
  t2 = t2
  t3 = t3
  s1 = s1
  s2 = s2
  s3 = s3
  e1 = e1
  e2 = e2
  NULL = NULL
  User = {t1, t2}
  Sess = {s1, s2}
  EP = {e1}
  MaxSizes = {1}
  PoolEnable = {TRUE, FALSE}
SPECIFICATION LiveSpec
PROPERTIES CloseTerminates CloseWakesWaiters
