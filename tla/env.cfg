SPECIFICATION Spec
CONSTANTS
  Chars <- SomeChars
  ENV_SIZE = 13
  Names <- SomeNames
  Arguments <- SomeArguments
  Default <- DefaultEnv
  Protected <- OnceNames
  Followed <- CopiedNames
INVARIANTS WellFormed CopyFollows
PROPERTY ListIsMap
