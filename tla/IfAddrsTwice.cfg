SPECIFICATION FairSpec
CONSTANTS
  t1 = t1
  t2 = t2
  Threads <- Pair
  LastIndex = 2
  Ports = {1, 2}
  Pid = 1
  NoPort = 0
  FirstSize = 2
  MaxReply = 2
  MaxChanges = 0
  Failing = {}
PROPERTY
  CallsReturn
