CONSTANTS
  BYTE = 4
  NIBBLE = 2
  WORDS = 2
  Call <- MCCall
SPECIFICATION FairSpec
PROPERTIES
  ImplementsBlockDevice
  CallsReturn
