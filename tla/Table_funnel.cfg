SPECIFICATION Spec
CONSTANTS
  Node <- JoinNode
  Var <- JoinVar
  Arc <- JoinArc
  ArcVars <- FunnelArcVars
  Reporting <- FunnelReporting
  Clauses <- FunnelClauses
  Depth <- JoinDepth
  Subgraph <- JoinSubgraph
  Trim = TRUE
  BREADTH_FIRST_NODE_ALLOCATIONS = FALSE
INVARIANTS NullMeansNone TuplesAreMessages ClausesExcludeAnswers
PROPERTIES ImplementsStore
