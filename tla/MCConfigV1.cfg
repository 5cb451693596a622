SPECIFICATION FairSpec
CONSTANTS
  Top = 2
  Cells = 2
  SeqMod = 2
  MaxRequests = 2
  MaxCount = 1
  Asked <- MCAsked
INVARIANT AnswerIsTrue
PROPERTIES GeometryOnlyAtBoot SettlesWhenSafe TelemetryFlows
