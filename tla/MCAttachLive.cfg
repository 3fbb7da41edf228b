CONSTANTS
  OptionSets <- MCOne
  Commands <- MCShut
  MaxPolls = 1
  MonSec = 1
SPECIFICATION FairAttachSpec
PROPERTY ShutdownEnds
CHECK_DEADLOCK FALSE
