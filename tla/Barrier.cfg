SPECIFICATION FairSpec
CONSTANTS
  t1 = t1
  t2 = t2
  t3 = t3
  t4 = t4
  InOrder = TRUE
  Threads <- FourThreads
  Clients <- InTurnsOrTooMany
INVARIANTS
  CountIsExact
  GateHolds
  NobodyTurnedAway
  NoLostWakeup
  OneReset
PROPERTIES
  ImplementsBarrier
  FullCycleEnds
  ReleasedReturn
