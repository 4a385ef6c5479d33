SPECIFICATION FairSpec
CONSTANTS
  t1 = t1
  t2 = t2
  t3 = t3
  NoTask = NoTask
  Task <- MCTask
  WaitingUnit <- MCWaitingUnit
PROPERTIES
  EveryWaiterServed
\* every task may exit, and then the system has stopped
CHECK_DEADLOCK FALSE
