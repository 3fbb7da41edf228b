SPECIFICATION Spec
CONSTANTS
  SysList <- MCSysList
  SysList32 <- MCSysList32
  SysGroups <- MCSysGroups
  Cases <- MCCases
INVARIANT OptimizeKeepsMeaning
 
INVARIANT StartsProgram
INVARIANT JoinedSame
