SPECIFICATION CrashSpec
CONSTANTS
  Names = {f, g}
  NoName = NoName
  MaxFiles = 2
  MaxFds = 2
  BlockSize = 1
  TotalBlocks = 4
  DataStart = 1
  FatSaved = 3
  UintMod = 5
  Byte = {0}
  Garbage = {0, 2}
  MaxNbyte = 2
  MaxLength = 6
SYMMETRY NameSymmetry
INVARIANTS
  ChainsSound
  DiskSound
  DescriptorsSound
  RemountConsistent
  TornSaveHarmsOne
  BlocksAccounted
  NamesUnique
  FilesWhole
PROPERTIES
  DescriptorKeepsFile
