CONSTANTS
  COUNT = 64
  Abis <- MCAbis
  Dirs <- MCDirs
SPECIFICATION FairSpec
INVARIANTS
  PrintsWhatFits
PROPERTIES
  LsEnds
