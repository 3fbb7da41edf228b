SPECIFICATION FairSpec
CONSTANTS
  MaxPid = 5
  MaxJoins = 1
  Timeout = 3
  MonSec = 1
  OptionSets <- MCOptions
  Signals = {"SIGTERM"}
  Procs = {1, 2}
  Bridged = {1, 2}
  Ignoring = {2}
  MaxStops = 2
INVARIANT LeavesWhenDone
INVARIANT StopWaitsForLocks
PROPERTY SandboxEnds
PROPERTY StopServed
CHECK_DEADLOCK FALSE
