SPECIFICATION FairSpec
CONSTANTS
  no_nodes = 4
  INT_MIN = INT_MIN
INVARIANTS ArcsGoDeeper DepthsInRange SubgraphsConnected
PROPERTIES DepthsAssigned
