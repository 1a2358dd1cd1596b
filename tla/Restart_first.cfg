SPECIFICATION CSpec
CONSTANTS
  Node <- SingleNode
  Var <- SingleVar
  Arc = {}
  ArcVars <- SingleArcVars
  Reporting <- SingleReporting
  Clauses <- SingleClauses
  Depth <- SingleZero
  Subgraph <- SingleZero
  Trim = FALSE
  NumWorkers = 2
  NULL = NULL
  Modes = {0}
  BREADTH_FIRST_NODE_ALLOCATIONS = FALSE
  sat_solution_interrupt = 1
  MaxPauses = 0
  MaxCrashes = 1
INVARIANTS SingleSolution
