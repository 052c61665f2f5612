SPECIFICATION Spec
CONSTANTS
  Tokens <- SomeTokens
  Sources <- SomeSources
  Documents <- SomeDocuments
  FileName <- SomeFileNames
CHECK_DEADLOCK FALSE
INVARIANTS  NavigationChain  ReportStillHolds
