SPECIFICATION Spec
CONSTANTS
  Worlds <- MCWorlds
  MaxInclude <- MCMaxInclude
INVARIANT ProgramAsAsked
INVARIANT ListsAsDocumented
 
PROPERTY EarlierLinesStand
PROPERTY Terminates
