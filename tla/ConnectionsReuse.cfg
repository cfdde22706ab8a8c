SPECIFICATION Spec
CONSTANTS
  Fds <- MCFds
  PassiveFd = 0
  SelectorLimit = 5
  HeldSets <- MCHeldSets
  Structs = {s1, s2}
  MaxPool = 2
  MaxConcurrent = 2
  Unused = Unused
  Passive = Passive
INVARIANT
  NoUseAfterFree
