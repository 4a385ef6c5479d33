SPECIFICATION FairSpec
CONSTANTS
  t1 = t1
  t2 = t2
  t3 = t3
  NoTask = NoTask
  Task <- MCTask
INVARIANTS
  TypeOK
  Exclusion
  LastReaderWakesWriter
  WakeTargetAlive
PROPERTIES
  RefinesRwSem
  EveryWaiterServed
\* every task may exit, and then the system has stopped
CHECK_DEADLOCK FALSE
