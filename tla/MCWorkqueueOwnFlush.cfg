SPECIFICATION FairSpec
CONSTANTS
  w1 = w1
  w2 = w2
  NR_CPUS = 2
  Work <- MCWork
  Flushing <- MCFlushing
  NFlush = 1
  MaxSubmit = 2
  MaxDepth = 2
  MaxHotplug = 2
PROPERTIES
  OwnFlushReturns
\* every work may have run, with the submitters' budget spent
CHECK_DEADLOCK FALSE
