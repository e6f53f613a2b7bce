CONSTANTS
  None = None
  Junk = Junk
  MaxU32 = 4
  oldest = oldest
  old = old
  empty = empty
  rc = rc
  new = new
  huge = huge
  Release = {oldest, old, empty, rc, new, huge}
  Factory = old
  VersionOf <- MCVersionOf
  NoFirmware = NoFirmware
  SizeOf <- MCSizeOf
  Capacity = 8
  Page = 2
  EraseChunk = 4
  WriteAlign = 2
  ChunkBuf = 4
  HeaderBuf = 3
  Radix = 2
  ProgressParts = 2
  WordSize = 16
  Rollback = TRUE
  OtaConfigured = TRUE
  Republish = FALSE
  MaxFaults = 2
  Erased = Erased
  Torn = Torn
SPECIFICATION Spec
INVARIANTS
  AlwaysBootable
  ActivatedImage
  BufferDiscipline
  FactoryIsFloor
  ActivatedWhole
PROPERTIES
  OnlyUpgrades
