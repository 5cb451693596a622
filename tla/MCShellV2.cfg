SPECIFICATION ShellSpec
CONSTANTS
  Fields = {"geo", "maps"}
  MaxCalls = 4
  Top = 2
  Asked <- MCAsked
INVARIANTS LastSetIsLive PersistedRunsNext AnswerNamesProfile
PROPERTY CoreGeometryFixed
