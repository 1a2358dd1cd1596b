SPECIFICATION FairSpec
CONSTANTS
  Node <- IslandsNode
  Var <- IslandsVar
  Arc <- IslandsArc
  ArcVars <- IslandsArcVars
  Reporting <- IslandsReporting
  Clauses <- IslandsClauses
  Depth <- IslandsDepth
  Subgraph <- IslandsSubgraph
  Trim = FALSE
  NumWorkers = 2
  NULL = NULL
  Modes = {0, 1, 2, 3}
  BREADTH_FIRST_NODE_ALLOCATIONS = TRUE
  sat_solution_interrupt = 1
  MaxPauses = 1
PROPERTIES MovesLeaveSomeoneBehind Terminates
