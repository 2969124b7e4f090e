SPECIFICATION AnyMountSpec
CONSTANTS
  Names = {f, g}
  NoName = NoName
  MaxFiles = 2
  MaxFds = 2
  BlockSize = 2
  TotalBlocks = 3
  DataStart = 1
  FatSaved = 2
  UintMod = 16
  Byte = {0}
  Garbage = {0, 1, 15}
  MaxNbyte = 3
  MaxLength = 3
SYMMETRY NameSymmetry
INVARIANTS
  FilesWhole
