\* Firmware recovery, a server that accepts the option, duplicated frames.
SPECIFICATION Spec
CONSTANTS
  FileBlocks = 3
  LastLen = 1
  BlockSize = 2
  SeqSize = 8
  TIMEOUT_COUNT = 1
  Tids = {1, 2}
  Ports = {1, 2}
  Modes = {TRUE}
  Retries = {"yes"}
  Options = {TRUE}
INVARIANTS
  AckedIsStored
