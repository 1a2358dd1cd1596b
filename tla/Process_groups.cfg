SPECIFICATION FairSpec
CONSTANTS
  MaxWorldSize = 11
  MaxNoveltyNumber = 3
INVARIANTS GroupsComplete
PROPERTIES EveryoneFinishes
