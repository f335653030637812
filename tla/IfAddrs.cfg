SPECIFICATION FairSpec
CONSTANTS
  t1 = t1
  t2 = t2
  Threads <- Pair
  LastIndex = 2
  Ports = {1, 2}
  Pid = 1
  NoPort = 0
  FirstSize = 1
  MaxReply = 2
  MaxChanges = 1
  Failing = {"socket", "sendto", "recvmsg", "item", "entry"}
INVARIANTS
  Complete
  NamedByLink
  LocalIsTheAddress
  NothingLeaks
PROPERTY
  OwnPortReturns
