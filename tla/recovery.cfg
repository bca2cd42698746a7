\* Four sectors of one page of two cells; firmware in sectors 1 and 2.
SPECIFICATION FairSpec
CONSTANTS
  PageSize = 2
  PagesPerSector = 1
  SectorCount = 4
  CFG_FLASH_BASE = 3
  AddrMod = 16
  RamSize = 7
  FwFirst = 1
  FwSectors = 2
  HeaderSize = 1
  KernelSize = 2
  Files = {"firmware", "full", "other", "short"}
  Size <- MCSize
  OurProduct = {"firmware", "full", "short"}
  MaxFailures = 2
INVARIANTS
  OnlyFirmwareChanges
  FlashedFromWholeFile
  RecoveredIsFile
  WrittenToErased
  RecoveryInv
PROPERTIES
  Repaired
