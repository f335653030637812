SPECIFICATION FairSpec
CONSTANTS
  t1 = t1
  t2 = t2
  in = in
  out = out
  file = file
  Null = Null
  Threads = {t1, t2}
  NSIG = 3
  OPEN_MAX = 3
  Files = {in, out, file}
  Tables <- Inherited
  Actions <- SomeActions
  FlagSets <- SomeFlags
  Masks <- NoSignal
  ThreadMasks <- JustOne
  Defaults <- JustOne
  Dispositions <- OneCaught
  MaxActions = 2
INVARIANTS
  NoHandlerInChild
  ImageAsAsked
PROPERTY
  SpawnReturns
