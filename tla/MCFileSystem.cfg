CONSTANTS
  MAX_TAR_FILES = 3
  DIGITS = 2
  BLOCK = 4
  WORD = 128
  ADDRESS = 8
  Archives <- MCArchives
  BS = 4
  IPB = 2
  Images <- MCImages
  Paths <- MCPaths
  Reads <- MCReads
  Writes <- MCWrites
SPECIFICATION FileSystemSpec
INVARIANTS
  DirectoryAgrees
  PathsResolve
  ListingAgrees
PROPERTIES
  ImplementsFileStore
