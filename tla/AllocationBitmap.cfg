SPECIFICATION Spec
CONSTANTS
  Threads = {t1, t2}
  Size = 5
  Asked <- MCAsked
  Contiguous = FALSE
  NoThread = NoThread
INVARIANTS
  TypeOK
  CountIsSetBits
PROPERTIES
  PoolPromises
  CallsReturn
