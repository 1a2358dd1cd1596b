SPECIFICATION Spec
CONSTANTS
  Node <- IslandsNode
  Var <- IslandsVar
  Arc <- IslandsArc
  ArcVars <- IslandsArcVars
  Reporting <- IslandsReporting
  Clauses <- IslandsClauses
  Depth <- IslandsDepth
  Subgraph <- IslandsSubgraph
  Trim = FALSE
  NumWorkers = 3
  NULL = NULL
  Modes = {2}
  BREADTH_FIRST_NODE_ALLOCATIONS = TRUE
  sat_solution_interrupt = 1
  MaxPauses = 0
INVARIANTS OnePerSubgraph
