SPECIFICATION FairSpec
CONSTANTS
  Pids <- MCPids
  StartPid = 1
  Names <- MCNames
  OptionSets <- MCOptions
  NameChange = TRUE
  MaxTries = 1
INVARIANT RunFilesTrue
INVARIANT StaleFilesGone
PROPERTY LiveFilesKept
PROPERTY StartupEnds
CHECK_DEADLOCK FALSE
