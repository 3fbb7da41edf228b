SPECIFICATION Spec
CONSTANTS
  Host <- MCHost
  Created <- MCCreated
  Globs <- MCGlobs
  DevType <- MCDevType
  Keep <- MCKeep
  RejectTopdirs <- MCRejectTopdirs
  Cases <- MCCases
 
INVARIANT WhitelistExact
 
INVARIANT SystemProtected
