SPECIFICATION Spec
CONSTANTS
  NR_CPUS = 3
  Timer = {t1, t2}
  User = {u1, u2}
  NoTimer = NoTimer
  TVR_BITS = 1
  TVN_BITS = 1
  LEVELS = 4
  INITIAL_JIFFIES = 13
  Delta <- Deltas
  MaxLag = 1
  Instance <- Instances
SYMMETRY Symmetry
CHECK_DEADLOCK FALSE
INVARIANTS
  TypeOK
  RunsOnTime
  UnlinksWhatItLocked
  
  NoTimerOnDeadCPU
  SomeHolderGoesOn
