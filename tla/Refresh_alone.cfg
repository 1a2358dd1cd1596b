SPECIFICATION Spec
CONSTANTS
  Node <- ChainNode
  Var <- ChainVar
  Arc <- ChainArc
  ArcVars <- ChainArcVars
  Reporting <- ChainReporting
  Clauses <- ChainClauses
  Depth <- ChainDepth
  Subgraph <- ChainSubgraph
  Trim = FALSE
  NumWorkers = 2
  NULL = NULL
  Modes = {1}
  BREADTH_FIRST_NODE_ALLOCATIONS = FALSE
  sat_solution_interrupt = 1
  MaxPauses = 1
PROPERTIES RefreshLeavesSomeoneBehind
