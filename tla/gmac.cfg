SPECIFICATION FairSpec
CONSTANTS
  NO_OF_RX_FIFOS = 3
  MaxFrames = 6
  Worlds = {{}, {"link"}, {"reentrant"}, {"link", "reentrant", "count"}}
INVARIANTS FreshFrames InOrder BuffersSet
PROPERTIES RingIsFifo AllTaken Restarted
