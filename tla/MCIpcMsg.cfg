CONSTANTS
  s1 = s1
  s2 = s2
  r1 = r1
  r2 = r2
  Sender = {s1, s2}
  Receiver = {r1, r2}
  Ctl = ctl
  Outbox <- MCOutbox
  m_type <- MCType
  m_ts <- MCSize
  RecvReq <- MCRecvReq
  CtlReq <- MCCtlReq
  QBytes = 2
  MaxRecv = 1
  MaxCtl = 2
SPECIFICATION Spec
CHECK_DEADLOCK FALSE
INVARIANTS
  TypeOK
  MessageInOnePlace
  NoMissedHandover
  NoUseAfterFree
  
PROPERTIES
  RemovalEndsCalls
