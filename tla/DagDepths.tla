------------------------------ MODULE DagDepths ------------------------------
(***************************************************************************)
(* Dag::assign_depths_and_status: before anything else runs, every node of *)
(* the DAG file is given a depth, which orders the search for messages,    *)
(* and the index of the piece of the DAG it is in.                         *)
(*                                                                         *)
(* A piece starts from one node, at depth 0.  Scan after scan over all the *)
(* nodes, those of the piece pull in their children, one deeper, and their *)
(* parents, one shallower; a parent that is already in is pushed up when   *)
(* it is not shallow enough.  When a scan changes nothing the depths are   *)
(* shifted to begin at 0.                                                  *)
(*                                                                         *)
(* A node's arcs are visited together: no arc is repeated and no node is   *)
(* both parent and child of another (check_consistency), so they do not    *)
(* disturb each other.                                                     *)
(***************************************************************************)
EXTENDS Integers, FiniteSets

CONSTANTS
  no_nodes,
  INT_MIN     \* not allocated yet

ASSUME DepthsAssumption ==
  /\ no_nodes \in Nat
  /\ INT_MIN \notin Int

Node == 0 .. no_nodes - 1

VARIABLES
  arcs,                \* forward_connections, whatever the file says
  depth,               \* depth_for_each_node
  subgraph_index,
  sum_allocated,
  subgraph_index_upto, \* the piece that is being allocated
  max_depth,
  min_allocated_depth, \* of that piece
  max_allocated_depth,
  allocated,           \* this scan changed something (a count in the code)
  i,                   \* the node the scan has come to
  node_status,         \* 1: base node, 0: not
  pc

vars == <<arcs, depth, subgraph_index, sum_allocated, subgraph_index_upto,
          max_depth, min_allocated_depth, max_allocated_depth, allocated, i,
          node_status, pc>>

\* check_consistency: every walk along the arcs ends, that is, every set of
\* nodes has one that no other of them leads to.
Acyclic(A) ==
  \A S \in SUBSET Node : S # {} => \E n \in S : \A m \in S : <<m, n>> \notin A

Parents(n)  == {p \in Node : <<p, n>> \in arcs}
Children(n) == {c \in Node : <<n, c>> \in arcs}
Allocated == {n \in Node : depth[n] # INT_MIN}

Init ==
  /\ arcs \in {A \in SUBSET (Node \X Node) : Acyclic(A)}
  /\ depth = [n \in Node |-> INT_MIN]
  /\ subgraph_index = [n \in Node |-> INT_MIN]
  /\ sum_allocated = 0
  /\ subgraph_index_upto = 0
  /\ max_depth = 0
  /\ min_allocated_depth = 0
  /\ max_allocated_depth = 0
  /\ allocated = FALSE
  /\ i = 0
  /\ node_status = [n \in Node |-> 0]
  /\ pc = "choose"

-----------------------------------------------------------------------------
\* The first node without a depth starts a piece.
ChooseStart(n) ==
  /\ pc = "choose" /\ sum_allocated < no_nodes
  /\ n \notin Allocated /\ \A k \in Node : k < n => k \in Allocated
  /\ depth' = [depth EXCEPT ![n] = 0]
  /\ subgraph_index' = [subgraph_index EXCEPT ![n] = subgraph_index_upto]
  /\ sum_allocated' = sum_allocated + 1
  /\ min_allocated_depth' = 0 /\ max_allocated_depth' = 0
  /\ allocated' = FALSE /\ i' = 0
  /\ pc' = "scan"
  /\ UNCHANGED <<arcs, subgraph_index_upto, max_depth, node_status>>

Pulled(n) == Children(n) \ Allocated

\* (mutants: a parent that is in keeps its depth; one just above is moved too)
PushedOnlyNew(n) == Parents(n) \ Allocated
PushedAgain(n) == {p \in Parents(n) : p \in Allocated => depth[p] >= depth[n] - 1}
Pushed(n) == {p \in Parents(n) : p \in Allocated => depth[p] > depth[n] - 1}

Visit ==
  /\ pc = "scan" /\ i < no_nodes
  /\ subgraph_index[i] = subgraph_index_upto
  /\ LET below == depth[i] + 1
         above == depth[i] - 1
     IN  /\ depth' = [n \in Node |-> IF n \in Pulled(i) THEN below
                                     ELSE IF n \in Pushed(i) THEN above
                                     ELSE depth[n]]
         /\ max_allocated_depth' =
              IF Pulled(i) # {} /\ below > max_allocated_depth
              THEN below ELSE max_allocated_depth
         /\ min_allocated_depth' =
              IF Pushed(i) # {} /\ above < min_allocated_depth
              THEN above ELSE min_allocated_depth
  /\ subgraph_index' =
       [n \in Node |-> IF n \in Pulled(i) \cup Pushed(i)
                       THEN subgraph_index_upto ELSE subgraph_index[n]]
  /\ sum_allocated' =
       sum_allocated + Cardinality((Pulled(i) \cup Pushed(i)) \ Allocated)
  /\ allocated' = (allocated \/ Pulled(i) \cup Pushed(i) # {})
  /\ i' = i + 1
  /\ UNCHANGED <<arcs, subgraph_index_upto, max_depth, node_status, pc>>

Skip ==
  /\ pc = "scan" /\ i < no_nodes
  /\ subgraph_index[i] # subgraph_index_upto
  /\ i' = i + 1
  /\ UNCHANGED <<arcs, depth, subgraph_index, sum_allocated, subgraph_index_upto,
                 max_depth, min_allocated_depth, max_allocated_depth, allocated,
                 node_status, pc>>

ScanAgain ==
  /\ pc = "scan" /\ i = no_nodes /\ allocated
  /\ allocated' = FALSE /\ i' = 0
  /\ UNCHANGED <<arcs, depth, subgraph_index, sum_allocated, subgraph_index_upto,
                 max_depth, min_allocated_depth, max_allocated_depth,
                 node_status, pc>>

\* (mutants: the depths above 0 only; the index stays)
SpanBelowStart == max_allocated_depth
Span == max_allocated_depth - min_allocated_depth
SameSubgraph == subgraph_index_upto
NextSubgraph == subgraph_index_upto + 1

\* The piece is complete: shift it and note how deep it is.
Normalise ==
  /\ pc = "scan" /\ i = no_nodes /\ ~allocated
  /\ depth' = [n \in Node |-> IF subgraph_index[n] = subgraph_index_upto
                              THEN depth[n] - min_allocated_depth
                              ELSE depth[n]]
  /\ max_depth' = IF Span > max_depth THEN Span ELSE max_depth
  /\ subgraph_index_upto' = NextSubgraph
  /\ pc' = "choose"
  /\ UNCHANGED <<arcs, subgraph_index, sum_allocated, min_allocated_depth,
                 max_allocated_depth, allocated, i, node_status>>

SetStatus ==
  /\ pc = "choose" /\ sum_allocated >= no_nodes
  /\ node_status' = [n \in Node |-> IF Parents(n) = {} THEN 1 ELSE 0]
  /\ pc' = "done"
  /\ UNCHANGED <<arcs, depth, subgraph_index, sum_allocated, subgraph_index_upto,
                 max_depth, min_allocated_depth, max_allocated_depth, allocated, i>>

Step ==
  \/ \E n \in Node : ChooseStart(n)
  \/ Visit \/ Skip \/ ScanAgain \/ Normalise \/ SetStatus

Done == pc = "done" /\ UNCHANGED vars

Next == Step \/ Done

Spec == Init /\ [][Next]_vars

\* The function runs to its end.
FairSpec == Spec /\ WF_vars(Step)

-----------------------------------------------------------------------------
TypeOK ==
  /\ arcs \in SUBSET (Node \X Node)
  /\ depth \in [Node -> Int \cup {INT_MIN}]
  /\ subgraph_index \in [Node -> Nat \cup {INT_MIN}]
  /\ sum_allocated \in Nat
  /\ subgraph_index_upto \in Nat
  /\ max_depth \in Nat
  /\ min_allocated_depth \in Int
  /\ max_allocated_depth \in Int
  /\ allocated \in BOOLEAN
  /\ i \in 0 .. no_nodes
  /\ node_status \in [Node -> {0, 1}]
  /\ pc \in {"choose", "scan", "done"}

\* What the rest of the program takes for granted: every arc goes to a deeper
\* node of the same subgraph (Dag.cpp:390), although a parent may be pushed up
\* after the nodes around it were placed.
ArcsGoDeeper ==
  pc = "done" =>
    \A p, c \in Node : <<p, c>> \in arcs =>
      /\ p \in Allocated /\ c \in Allocated
      /\ depth[p] < depth[c]
      /\ subgraph_index[p] = subgraph_index[c]

\* The search for messages goes over the depths 0 .. max_depth
\* (SolutionsInterface.h:120-134): no node is outside and missed for ever.
DepthsInRange == pc = "done" => \A n \in Node : depth[n] \in 0 .. max_depth

\* Mode 2 finishes the subgraph of a solution: nodes with the same index hang
\* together (no part of a subgraph is closed under the arcs).
SubgraphsConnected ==
  pc = "done" =>
    \A S \in SUBSET Node :
      (\A n \in S : Parents(n) \cup Children(n) \subseteq S) =>
        \A n \in S, k \in Node \ S : subgraph_index[n] # subgraph_index[k]

\* The scans come to an end on every acyclic graph: pushing parents up and
\* pulling children in cannot chase each other (Dag.cpp:417-452).
DepthsAssigned == <>(pc = "done")
=============================================================================
