SPECIFICATION LineSpec
CHECK_DEADLOCK FALSE
CONSTANTS
  CFG_CBSIZE = 10
  CFG_MAXARGS = 3
  Inputs <- AllInputs
  Value <- Variables
  Beyond <- Stack
INVARIANTS EscapedIsLiteral PieceIsWhole QuotedArrives
