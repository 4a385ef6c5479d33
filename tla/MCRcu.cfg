SPECIFICATION Spec
CONSTANTS
  c1 = c1
  c2 = c2
  b1 = b1
  b2 = b2
  CPU <- MCCPU
  BootCPU = c1
  NoCPU = NoCPU
  maxbatch = 1
  MaxHotplug = 2
  Callback <- MCCallback
SYMMETRY Symmetry
INVARIANTS
  TypeOK
  GracePeriodCoversReaders
  BatchIsRegistered
