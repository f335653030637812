SPECIFICATION Spec
CONSTANTS
  p1 = p1
  p2 = p2
  t1 = t1
  t2 = t2
  u1 = u1
  n1 = n1
  n2 = n2
  i1 = i1
  i2 = i2
  i3 = i3
  a1 = a1
  a2 = a2
  a3 = a3
  Procs = {p1}
  Threads <- Pair
  ProcOf <- Home
  Names = {n1, n2}
  Inodes = {i1, i2, i3}
  Addrs = {a1, a2, a3}
  NSems = 2
  MaxRefs = 100
  MaxHandles = 3
  Faults = {"calloc", "sem_init", "open", "write", "mmap"}
  NoInode = NoInode
  Null = Null
  Reserved = Reserved
SYMMETRY Interchangeable
INVARIANTS
  HandlesAreMapped
  OneAddressPerSemaphore
  NothingLeaks
