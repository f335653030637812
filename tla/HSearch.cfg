SPECIFICATION Spec
CONSTANTS
  k1 = k1
  k2 = k2
  k3 = k3
  k4 = k4
  d1 = d1
  d2 = d2
  Keys = {k1, k2, k3, k4}
  Data = {d1, d2}
  Absent = Absent
  InitCount = 2
  Hashes <- AllHashes
SYMMETRY Interchangeable
INVARIANTS
  UsedIsExact
  ProbesEnd
PROPERTIES
  EntriesStay
  ImplementsTable
