CONSTANTS
  Fold <- MCFold
  Day = 2
  StaleAfter = 1
  StaleAfterOutcome = 0
  Sessions = {1, 2}
  Plain <- MCPlain
  Slugs = {"deploy", "Deploy", "other"}
  Writes <- MCWrites
  Bodies <- MCBodies
  OldStores <- MCOldStores
  MaxClock = 2
  MaxFiles = 3
  MaxArchives = 1
  MaxChanges = 1
SPECIFICATION Spec
INVARIANTS
  TypeOK
  NothingDropsOutUnnamed
  UnwarnedUnitsSurvive
  UsedKnowledgeIsNotFlagged
PROPERTY NothingIsOverwritten
CHECK_DEADLOCK FALSE
