SPECIFICATION FairSpec
CONSTANTS
  t1 = t1
  t2 = t2
  t3 = t3
  Threads <- ThreeThreads
  SpinLimit = 2
INVARIANTS
  TypeOK
  MutualExclusion
  LockedIffHeld
  NoLostWakeup
  InsideThisLife
PROPERTIES
  ImplementsMutex
  SomebodyGetsIn
