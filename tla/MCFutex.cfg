CONSTANTS
  Waiter = {w1, w2}
  FdWaiter = {w2}
  Waker = {k1, k2}
  Addr = {1, 2}
  Bucket = {0, 1}
  Value = {0, 1}
  w1 = w1
  w2 = w2
  k1 = k1
  k2 = k2
  Hashing <- MCHashing
  Wait <- MCWait
  Request <- MCRequest
  MaxCalls = 3
  MaxOps = 1
  MaxFaults = 1
SPECIFICATION Spec
CHECK_DEADLOCK FALSE
INVARIANTS
  TypeOK
  BlocksOnlyWhileValueHolds
  WakesAreReported
  CmpRequeueSeesNoLateWaiter
  KeyRefsExact
  LinksLive
  EachHandledOnce
  NoLostWakeup
  SomeWakerGoesOn
