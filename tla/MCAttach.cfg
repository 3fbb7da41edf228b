CONSTANTS
  OptionSets <- MCOptions
  Commands <- MCCommands
  MaxPolls = 1
  MonSec = 1
SPECIFICATION AttachSpec
INVARIANT JoinedLikeApp
CHECK_DEADLOCK FALSE
