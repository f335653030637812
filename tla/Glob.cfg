SPECIFICATION Spec
CONSTANTS
  Characters <- AllCharacters
  Dot <- Period
  Slash <- Separator
  Tree <- Files
  Patterns <- SomePatterns
  FlagSets <- SomeFlags
  Handlers = {"NULL", "ignores"}
  Limits = {0, 1}
  Offsets = {1}
  MaxCalls = 2
  Failing = {"realloc", "malloc", "opendir"}
  NULL = NULL
  Garbage = Garbage
INVARIANTS
  ListInvariant
  AllAdded
  NothingElse
PROPERTY
  OldEntriesStay
