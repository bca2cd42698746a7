\* Copies to any address; pages of three cells.
SPECIFICATION Spec
CONSTANTS
  PageSize = 3
  PagesPerSector = 2
  SectorCount = 2
  CFG_FLASH_BASE = 2
  AddrMod = 18
  RamSize = 6
  Addresses <- Near
  Lengths = {6}
  Banks = {1}
  CopyDests <- FlashAddresses
  MaxCommands = 2
INVARIANTS
  CopyExact
