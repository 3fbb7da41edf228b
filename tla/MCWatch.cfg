SPECIFICATION Spec
CONSTANTS
  MaxPid = 4
  MaxQueue = 2
  MaxKernel = 4
  Starters = {"s1", "s2"}
  Displays = {"d1"}
  MaxTries = 2
  MaxWait = 3
INVARIANT OnlySandboxed
PROPERTY TableComplete
PROPERTY TargetEnds
PROPERTY DisplayIsOwn
CHECK_DEADLOCK FALSE
