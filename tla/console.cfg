SPECIFICATION FairSpec
CONSTANTS
  Lines <- SomeLines
  Vars <- AllVars
  Script <- Texts
INVARIANTS BootdNotNested RepeatsRepeatable StopStops RunEndsOnFailure
PROPERTY PromptReturns
