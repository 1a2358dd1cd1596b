SPECIFICATION Spec
CONSTANTS
  Node <- JoinNode
  Var <- JoinVar
  Arc <- JoinArc
  ArcVars <- JoinArcVars
  Reporting <- JoinReporting
  Clauses <- JoinClauses
  Depth <- JoinDepth
  Subgraph <- JoinSubgraph
  Trim = FALSE
  NumWorkers = 2
  NULL = NULL
  Modes = {0, 1, 2, 3}
  BREADTH_FIRST_NODE_ALLOCATIONS = FALSE
  sat_solution_interrupt = 1
  MaxPauses = 1
INVARIANTS TypeOK Rendezvous AssignedIsCurrent ContinuesLiveSearch KillIsLast NoWorkLost EveryMessageHeld Complete AtMostOne AtMostOneConnected
