SPECIFICATION Spec
CONSTANTS
  t1 = t1
  t2 = t2
  t3 = t3
  NoTask = NoTask
  Task <- MCTask
  WaitingUnit <- MCWaitingUnit
INVARIANTS
  TypeOK
  Exclusion
  WakeTargetAlive
PROPERTIES
  RefinesRwSem
\* every task may exit, and then the system has stopped
CHECK_DEADLOCK FALSE
