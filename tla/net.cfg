SPECIFICATION FairSpec
CONSTANTS
  NMACS = 2
  CFG_HZ = 2
  TIMEOUT_COUNT = 2
  Protocols = {"TFTP", "PING"}
  Configs <- AllConfigs
INVARIANTS OneActive SourceIsSender
PROPERTIES PingEnds RecoveryEnds ServerFound
CHECK_DEADLOCK FALSE
