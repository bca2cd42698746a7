\* One Ethernet segment, block numbers that do not wrap.
SPECIFICATION LanFairSpec
CONSTANTS
  FileBlocks = 2
  LastLen = 0
  BlockSize = 2
  SeqSize = 4
  TIMEOUT_COUNT = 1
  Tids = {1, 2}
  Ports = {1, 2}
  Modes = {TRUE, FALSE}
  Retries = {"yes"}
  Options = {TRUE, FALSE}
  MaxLen = 2
INVARIANTS
  ReportsWholeFile
PROPERTIES
  RecoveryEnds
  EndsOrRestarts
