\* Every erase command and copies to every page boundary, two commands in a row.
SPECIFICATION Spec
CONSTANTS
  PageSize = 2
  PagesPerSector = 2
  SectorCount = 3
  CFG_FLASH_BASE = 2
  AddrMod = 18
  RamSize = 5
  Addresses <- AllAddresses
  Lengths <- AllLengths
  Banks <- SomeBanks
  CopyDests <- PageAddresses
  MaxCommands = 2
INVARIANTS
  EraseExact
  CopyExact
  CopyConfined
