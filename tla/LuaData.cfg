SPECIFICATION SuiteSpec
CONSTANTS
  str = str
  Tasks <- MCTasks
  Code <- MCCode
  Classes <- MCClasses
  LUA_MAXCAPTURES = 2
  Match <- MCMatch
  Meaning <- MCMeaning
INVARIANTS
  TablesAreSound
  ListsAreSound
  PatternsAreSound
PROPERTIES
  TablesAreMaps
  SortTerminates
CHECK_DEADLOCK FALSE
