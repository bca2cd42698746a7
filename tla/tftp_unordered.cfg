\* Unordered, lossy, duplicating network; the server ignores the option.
SPECIFICATION Spec
CONSTANTS
  FileBlocks = 3
  LastLen = 1
  BlockSize = 2
  SeqSize = 8
  TIMEOUT_COUNT = 1
  Tids = {1, 2}
  Ports = {1, 2}
  Modes = {TRUE, FALSE}
  Retries = {"yes", "once", "no"}
  Options = {FALSE}
INVARIANTS
  AckedIsStored
  SuccessIsWholeFile
  IInv
  TimerArmed
PROPERTIES
  ImplementsFileTransfer
