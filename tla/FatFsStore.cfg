SPECIFICATION FairStoreSpec
CONSTANTS
  Names = {f}
  NoName = NoName
  MaxFiles = 1
  MaxFds = 2
  BlockSize = 2
  TotalBlocks = 3
  DataStart = 1
  FatSaved = 3
  UintMod = 7
  Byte = {0, 1}
  Garbage = {0}
  MaxNbyte = 2
  MaxLength = 7
INVARIANTS
  TypeOK
  CallSound
  ChainReachesOffset
PROPERTIES
  CallsReturn
  ImplementsStore
