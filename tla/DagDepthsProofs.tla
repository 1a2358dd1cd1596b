--------------------------- MODULE DagDepthsProofs ---------------------------
(***************************************************************************)
(* For every number of nodes and every acyclic graph: the depths respect   *)
(* the arcs and lie within what the master searches, and the subgraphs are *)
(* the connected pieces of the DAG.                                        *)
(*                                                                         *)
(* The pieces that are finished are closed under the arcs and in order,    *)
(* and of the piece being allocated the nodes the present scan has passed  *)
(* are, as long as the scan has changed nothing.  So a whole scan without  *)
(* a change leaves a piece that is closed and in order.                    *)
(***************************************************************************)
EXTENDS DagDepths, FiniteSetTheorems, TLAPS

Finished(n) == subgraph_index[n] \in Nat /\ subgraph_index[n] < subgraph_index_upto
Current(n) == subgraph_index[n] = subgraph_index_upto

\* A node has both a depth and an index or neither, and only the piece being
\* allocated is open.
Marked ==
  \A n \in Node : \/ n \notin Allocated /\ subgraph_index[n] = INT_MIN
                  \/ n \in Allocated /\ Finished(n)
                  \/ n \in Allocated /\ Current(n) /\ pc = "scan"

FinishedClosed ==
  \A p, c \in Node : <<p, c>> \in arcs /\ (Finished(p) \/ Finished(c)) =>
    depth[p] < depth[c] /\ subgraph_index[p] = subgraph_index[c]

FinishedInRange == \A n \in Node : Finished(n) => depth[n] \in 0 .. max_depth

CurrentInRange ==
  pc = "scan" =>
    /\ min_allocated_depth <= 0 /\ 0 <= max_allocated_depth
    /\ \A n \in Node : Current(n) =>
         min_allocated_depth <= depth[n] /\ depth[n] <= max_allocated_depth

PassedClosed ==
  pc = "scan" /\ ~allocated =>
    \A n \in Node : n < i /\ Current(n) =>
      /\ Children(n) \subseteq Allocated
      /\ \A p \in Parents(n) : p \in Allocated /\ depth[p] < depth[n]

Counted ==
  /\ sum_allocated = Cardinality(Allocated)
  /\ pc = "done" => sum_allocated >= no_nodes

DepthsInv ==
  /\ TypeOK
  /\ Marked
  /\ FinishedClosed
  /\ FinishedInRange
  /\ CurrentInRange
  /\ PassedClosed
  /\ Counted

-----------------------------------------------------------------------------
\* Any set of nodes is finite and has at most no_nodes elements.
LEMMA NodesFinite ==
  /\ \A S \in SUBSET Node :
       IsFiniteSet(S) /\ Cardinality(S) \in Nat /\ Cardinality(S) <= no_nodes
  /\ \A S \in SUBSET Node : Cardinality(S) >= no_nodes => S = Node
<1>1. IsFiniteSet(Node) /\ Cardinality(Node) = no_nodes
  BY FS_Interval, DepthsAssumption DEF Node
<1>2. ASSUME NEW S \in SUBSET Node
      PROVE  /\ IsFiniteSet(S) /\ Cardinality(S) \in Nat
             /\ Cardinality(S) <= no_nodes
             /\ Cardinality(S) >= no_nodes => S = Node
  <2>1. IsFiniteSet(S) /\ Cardinality(S) <= Cardinality(Node)
        /\ (Cardinality(Node) = Cardinality(S) => Node = S)
    BY <1>1, FS_Subset
  <2>2. Cardinality(S) \in Nat
    BY <2>1, FS_CardinalityType
  <2> QED BY <1>1, <2>1, <2>2, DepthsAssumption
<1> QED BY <1>2

\* The count grows by the size of what is added.
LEMMA CountGrows ==
  ASSUME NEW S \in SUBSET Node, NEW T \in SUBSET Node
  PROVE  Cardinality(S \cup T) = Cardinality(S) + Cardinality(T \ S)
<1>1. IsFiniteSet(S) /\ IsFiniteSet(T \ S) /\ T \ S \in SUBSET Node
  BY NodesFinite
<1>2. Cardinality(S \cup (T \ S)) = Cardinality(S \cup T)
      /\ Cardinality(S \cap (T \ S)) = Cardinality({})
  <2>1. S \cup T = S \cup (T \ S) /\ S \cap (T \ S) = {}
    OBVIOUS
  <2> QED BY <2>1, Zenon
<1>3. Cardinality(S \cup (T \ S)) =
        Cardinality(S) + Cardinality(T \ S) - Cardinality(S \cap (T \ S))
  BY <1>1, FS_Union
<1>4. Cardinality({}) = 0 /\ Cardinality(S) \in Nat /\ Cardinality(T \ S) \in Nat
  BY <1>1, FS_EmptySet, FS_CardinalityType
<1> QED BY <1>2, <1>3, <1>4

\* The invariant holds before the first piece is begun.
LEMMA DepthsInit == Init => DepthsInv
<1> SUFFICES ASSUME Init PROVE DepthsInv
  OBVIOUS
<1>1. TypeOK
  <2>1. arcs \in SUBSET (Node \X Node)
    BY Zenon DEF Init
  <2>2. /\ depth \in [Node -> Int \cup {INT_MIN}]
        /\ subgraph_index \in [Node -> Nat \cup {INT_MIN}]
        /\ node_status \in [Node -> {0, 1}]
    BY DEF Init
  <2>3. i \in 0 .. no_nodes
    BY DepthsAssumption DEF Init
  <2>4. allocated \in BOOLEAN
    BY Zenon DEF Init
  <2> QED BY <2>1, <2>2, <2>3, <2>4 DEF Init, TypeOK
<1>2. Allocated = {} /\ \A n \in Node : n \notin Allocated /\ subgraph_index[n] = INT_MIN
  BY DEF Init, Allocated
<1>3. \A n \in Node : ~Finished(n)
  BY <1>2, DepthsAssumption DEF Finished
<1>4. sum_allocated = Cardinality(Allocated)
  BY <1>2, FS_EmptySet DEF Init
<1> QED
  BY <1>1, <1>2, <1>3, <1>4
  DEF Init, DepthsInv, Marked, FinishedClosed, FinishedInRange, CurrentInRange,
      PassedClosed, Counted

\* A node that starts a piece is the only one in it.
LEMMA ChooseStartPreserves ==
  ASSUME DepthsInv, NEW m \in Node, ChooseStart(m)
  PROVE  DepthsInv'
<1> USE DEF DepthsInv
<1>1. TypeOK'
  <2>1. depth' \in [Node -> Int \cup {INT_MIN}]
    BY DEF ChooseStart, TypeOK
  <2>2. subgraph_index' \in [Node -> Nat \cup {INT_MIN}]
    BY DEF ChooseStart, TypeOK
  <2>3. sum_allocated' \in Nat /\ i' \in 0 .. no_nodes
    BY DepthsAssumption DEF ChooseStart, TypeOK
  <2>4. allocated' \in BOOLEAN
    BY Zenon DEF ChooseStart
  <2> QED BY <2>1, <2>2, <2>3, <2>4 DEF ChooseStart, TypeOK
<1>2. /\ \A n \in Node : n # m => /\ depth'[n] = depth[n]
                                 /\ subgraph_index'[n] = subgraph_index[n]
      /\ depth'[m] = 0 /\ subgraph_index'[m] = subgraph_index_upto
      /\ subgraph_index_upto' = subgraph_index_upto /\ subgraph_index_upto \in Nat
      /\ m \notin Allocated /\ pc = "choose" /\ pc' = "scan"
  BY DEF ChooseStart, TypeOK
<1>3. 0 # INT_MIN
  BY DepthsAssumption
<1>4. subgraph_index[m] = INT_MIN /\ ~Finished(m) /\ ~Finished(m)'
  BY <1>2, DepthsAssumption DEF Marked, Finished, Allocated
<1>5. \A n \in Node : n # m => (Finished(n)' <=> Finished(n))
  BY <1>2 DEF Finished
<1>6. \A n \in Node : Current(n)' => n = m
  BY <1>2, DepthsAssumption DEF Current, Marked, Finished
<1>7. Marked'
  BY <1>2, <1>3, <1>5 DEF Marked, Allocated, Current
<1>8. FinishedClosed'
  <2> SUFFICES ASSUME NEW p \in Node, NEW c \in Node,
                      <<p, c>> \in arcs, (Finished(p) \/ Finished(c))'
               PROVE  (depth[p] < depth[c] /\ subgraph_index[p] = subgraph_index[c])'
    BY DEF FinishedClosed, ChooseStart
  <2>1. Finished(p) \/ Finished(c)
    BY <1>4, <1>5
  <2>2. depth[p] < depth[c] /\ subgraph_index[p] = subgraph_index[c]
    BY <2>1 DEF FinishedClosed
  <2>3. p # m /\ c # m
    BY <1>4, <2>1, <2>2 DEF Finished
  <2> QED BY <1>2, <2>2, <2>3
<1>9. FinishedInRange'
  BY <1>2, <1>4, <1>5 DEF FinishedInRange, ChooseStart
<1>10. CurrentInRange'
  BY <1>2, <1>6 DEF CurrentInRange, ChooseStart
<1>11. PassedClosed'
  BY DEF PassedClosed, ChooseStart, Node
<1>12. Counted'
  <2>1. Allocated' = Allocated \cup {m}
    BY <1>2, <1>3 DEF Allocated
  <2>2. Allocated \in SUBSET Node
    BY DEF Allocated
  <2>3. Cardinality(Allocated \cup {m}) = Cardinality(Allocated) + 1
    BY <1>2, <2>2, NodesFinite, FS_AddElement
  <2> QED BY <1>2, <2>1, <2>3 DEF Counted, ChooseStart
<1> QED
  BY <1>1, <1>7, <1>8, <1>9, <1>10, <1>11, <1>12

\* A visit leaves the finished pieces alone, and keeps what it places within
\* the range it keeps for this piece.
LEMMA VisitPreserves ==
  ASSUME DepthsInv, Visit
  PROVE  DepthsInv'
<1> USE DEF DepthsInv
<1> DEFINE New == Pulled(i) \cup Pushed(i)
<1>1. /\ i \in Node /\ pc = "scan" /\ pc' = "scan"
      /\ i \in 0 .. no_nodes /\ i < no_nodes /\ i' = i + 1
      /\ Current(i) /\ subgraph_index_upto' = subgraph_index_upto
      /\ subgraph_index_upto \in Nat /\ arcs' = arcs /\ max_depth' = max_depth
  BY DepthsAssumption DEF Visit, TypeOK, Node, Current
<1>2. i \in Allocated /\ ~Finished(i) /\ depth[i] \in Int
  BY <1>1, DepthsAssumption DEF Marked, Current, Finished, Allocated, TypeOK
<1>3. New \in SUBSET Node
  BY DEF Pulled, Pushed, Children, Parents
<1>4. \A n \in New : ~Finished(n)
  <2> SUFFICES ASSUME NEW n \in New, Finished(n) PROVE FALSE
    OBVIOUS
  <2>1. n \in Node /\ (<<i, n>> \in arcs \/ <<n, i>> \in arcs)
    BY DEF Pulled, Pushed, Children, Parents
  <2>2. subgraph_index[i] = subgraph_index[n]
    BY <1>1, <2>1 DEF FinishedClosed
  <2> QED BY <1>2, <2>2 DEF Finished
<1>5. \A n \in Node :
        /\ n \in Pulled(i) => depth'[n] = depth[i] + 1
        /\ n \in New \ Pulled(i) => depth'[n] = depth[i] - 1
        /\ n \notin New => depth'[n] = depth[n]
        /\ n \in New => subgraph_index'[n] = subgraph_index_upto
        /\ n \notin New => subgraph_index'[n] = subgraph_index[n]
  BY DEF Visit
<1>6. \A n \in New : depth'[n] \in Int /\ depth'[n] # INT_MIN
  BY <1>2, <1>3, <1>5, DepthsAssumption
<1>7. \A n \in Node : Finished(n)' <=> Finished(n)
  BY <1>1, <1>4, <1>5 DEF Finished
<1>8. /\ max_allocated_depth' \in Int /\ min_allocated_depth' \in Int
      /\ max_allocated_depth' >= max_allocated_depth
      /\ min_allocated_depth' <= min_allocated_depth
      /\ Pulled(i) # {} => max_allocated_depth' >= depth[i] + 1
      /\ Pushed(i) # {} => min_allocated_depth' <= depth[i] - 1
  BY <1>2 DEF Visit, TypeOK
<1>9. TypeOK'
  <2>1. depth' \in [Node -> Int \cup {INT_MIN}]
    <3>1. \A n \in Node : depth'[n] \in Int \cup {INT_MIN}
      BY <1>5, <1>6 DEF TypeOK
    <3>2. depth' = [n \in Node |-> depth'[n]]
      BY DEF Visit
    <3> QED BY <3>1, <3>2
  <2>2. subgraph_index' \in [Node -> Nat \cup {INT_MIN}]
    <3>1. \A n \in Node : subgraph_index'[n] \in Nat \cup {INT_MIN}
      BY <1>1, <1>5 DEF TypeOK
    <3>2. subgraph_index' = [n \in Node |-> subgraph_index'[n]]
      BY DEF Visit
    <3> QED BY <3>1, <3>2
  <2>3. Cardinality(New \ Allocated) \in Nat
    BY <1>3, NodesFinite
  <2>4. sum_allocated' \in Nat
    BY <2>3 DEF Visit, TypeOK
  <2>5. i' \in 0 .. no_nodes
    BY <1>1, DepthsAssumption
  <2>6. allocated' \in BOOLEAN
    BY Zenon DEF Visit
  <2> QED BY <1>8, <2>1, <2>2, <2>4, <2>5, <2>6 DEF Visit, TypeOK
<1>10. Marked'
  <2> SUFFICES ASSUME NEW n \in Node
               PROVE  (\/ n \notin Allocated /\ subgraph_index[n] = INT_MIN
                       \/ n \in Allocated /\ Finished(n)
                       \/ n \in Allocated /\ Current(n) /\ pc = "scan")'
    BY DEF Marked
  <2>1. CASE n \in New
    BY <1>1, <1>5, <1>6, <2>1 DEF Allocated, Current
  <2>2. CASE n \notin New
    <3>1. depth'[n] = depth[n] /\ subgraph_index'[n] = subgraph_index[n]
      BY <1>5, <2>2
    <3> QED BY <1>1, <1>7, <3>1 DEF Marked, Allocated, Current
  <2> QED BY <2>1, <2>2
<1>11. FinishedClosed'
  <2> SUFFICES ASSUME NEW p \in Node, NEW c \in Node,
                      <<p, c>> \in arcs, Finished(p) \/ Finished(c)
               PROVE  (depth[p] < depth[c] /\ subgraph_index[p] = subgraph_index[c])'
    BY <1>1, <1>7 DEF FinishedClosed
  <2>1. depth[p] < depth[c] /\ subgraph_index[p] = subgraph_index[c]
    BY DEF FinishedClosed
  <2>2. Finished(p) /\ Finished(c)
    BY <2>1 DEF Finished
  <2>3. p \notin New /\ c \notin New
    BY <1>4, <2>2
  <2> QED BY <1>5, <2>1, <2>3
<1>12. FinishedInRange'
  BY <1>1, <1>4, <1>5, <1>7 DEF FinishedInRange
<1>13. CurrentInRange'
  <2>1. min_allocated_depth <= depth[i] /\ depth[i] <= max_allocated_depth
        /\ min_allocated_depth <= 0 /\ 0 <= max_allocated_depth
    BY <1>1 DEF CurrentInRange
  <2>2. min_allocated_depth \in Int /\ max_allocated_depth \in Int
    BY DEF TypeOK
  <2>3. ASSUME NEW n \in Node, Current(n)'
        PROVE  min_allocated_depth' <= depth'[n] /\ depth'[n] <= max_allocated_depth'
    <3>1. CASE n \in Pulled(i)
      BY <1>2, <1>5, <1>8, <2>1, <2>2, <3>1
    <3>2. CASE n \in New \ Pulled(i)
      BY <1>2, <1>5, <1>8, <2>1, <2>2, <3>2
    <3>3. CASE n \notin New
      <4>1. Current(n) /\ depth'[n] = depth[n]
        BY <1>1, <1>5, <2>3, <3>3 DEF Current
      <4>2. n \in Allocated
        BY <1>1, <4>1, DepthsAssumption DEF Marked, Current
      <4>3. depth[n] \in Int
        BY <4>2 DEF Allocated, TypeOK
      <4>4. min_allocated_depth <= depth[n] /\ depth[n] <= max_allocated_depth
        BY <1>1, <4>1 DEF CurrentInRange
      <4> QED BY <1>8, <2>2, <4>1, <4>3, <4>4
    <3> QED BY <3>1, <3>2, <3>3
  <2> QED BY <1>8, <2>1, <2>2, <2>3 DEF CurrentInRange
<1>14. PassedClosed'
  <2> SUFFICES ASSUME ~allocated',
                      NEW n \in Node, n < i + 1, Current(n)'
               PROVE  (/\ Children(n) \subseteq Allocated
                       /\ \A p \in Parents(n) : p \in Allocated /\ depth[p] < depth[n])'
    BY <1>1 DEF PassedClosed
  <2>1. New = {} /\ ~allocated
    BY DEF Visit
  <2>2. /\ depth' = depth /\ subgraph_index' = subgraph_index
        /\ Allocated' = Allocated /\ Children(n)' = Children(n)
        /\ Parents(n)' = Parents(n) /\ Current(n)
    <3>1. depth' = depth /\ subgraph_index' = subgraph_index
      BY <2>1 DEF Visit, TypeOK
    <3> QED BY <1>1, <3>1 DEF Allocated, Children, Parents, Current
  <2>3. CASE n < i
    BY <1>1, <2>1, <2>2, <2>3 DEF PassedClosed
  <2>4. CASE n = i
    <3>1. Children(i) \subseteq Allocated
      BY <2>1 DEF Pulled
    <3>2. ASSUME NEW p \in Parents(i)
          PROVE  p \in Allocated /\ depth[p] < depth[i]
      <4>1. p \in Allocated /\ ~(depth[p] > depth[i] - 1)
        BY <2>1 DEF Pushed
      <4>2. depth[p] \in Int
        BY <4>1 DEF Allocated, TypeOK
      <4> QED BY <1>2, <4>1, <4>2
    <3> QED BY <2>2, <2>4, <3>1, <3>2
  <2>5. n \in Int /\ i \in Int
    BY <1>1 DEF Node
  <2> QED BY <2>3, <2>4, <2>5
<1>15. Counted'
  <2>1. Allocated' = Allocated \cup New
    BY <1>3, <1>5, <1>6 DEF Allocated
  <2>2. Allocated \in SUBSET Node
    BY DEF Allocated
  <2>3. Cardinality(Allocated \cup New)
          = Cardinality(Allocated) + Cardinality(New \ Allocated)
    BY <1>3, <2>2, CountGrows
  <2>4. sum_allocated' = sum_allocated + Cardinality(New \ Allocated)
    BY DEF Visit
  <2> QED BY <1>1, <2>1, <2>3, <2>4 DEF Counted
<1> QED
  BY <1>9, <1>10, <1>11, <1>12, <1>13, <1>14, <1>15

\* Passing over a node of another piece, and beginning a new scan.
LEMMA ScanPreserves ==
  ASSUME DepthsInv, Skip \/ ScanAgain
  PROVE  DepthsInv'
<1> USE DEF DepthsInv
<1>1. /\ depth' = depth /\ subgraph_index' = subgraph_index /\ pc' = pc /\ arcs' = arcs
      /\ subgraph_index_upto' = subgraph_index_upto /\ max_depth' = max_depth
      /\ sum_allocated' = sum_allocated /\ node_status' = node_status
      /\ min_allocated_depth' = min_allocated_depth
      /\ max_allocated_depth' = max_allocated_depth
  BY DEF Skip, ScanAgain
<1>2. TypeOK'
  <2>1. i' \in 0 .. no_nodes
    BY DepthsAssumption DEF Skip, ScanAgain, TypeOK
  <2>2. allocated' \in BOOLEAN
    BY Zenon DEF Skip, ScanAgain, TypeOK
  <2> QED BY <1>1, <2>1, <2>2 DEF TypeOK
<1>3. Marked' /\ FinishedClosed' /\ FinishedInRange' /\ CurrentInRange' /\ Counted'
  BY <1>1
  DEF Marked, FinishedClosed, FinishedInRange, CurrentInRange, Counted, Finished,
      Current, Allocated
<1>4. PassedClosed'
  <2>1. CASE ScanAgain
    BY <2>1 DEF ScanAgain, PassedClosed, Node
  <2>2. CASE Skip
    <3> SUFFICES ASSUME pc = "scan", ~allocated,
                        NEW n \in Node, n < i + 1, Current(n)
                 PROVE  /\ Children(n) \subseteq Allocated
                        /\ \A p \in Parents(n) : p \in Allocated /\ depth[p] < depth[n]
      BY <1>1, <2>2 DEF Skip, PassedClosed, Current, Children, Parents, Allocated
    <3>1. n # i
      BY <2>2 DEF Skip, Current
    <3>2. n < i
      BY <3>1 DEF TypeOK, Node
    <3> QED BY <3>2 DEF PassedClosed
  <2> QED BY <2>1, <2>2
<1> QED
  BY <1>2, <1>3, <1>4

\* After a scan without a change the piece is closed under the arcs and in
\* order; shifting it keeps the order and brings it into the range.
LEMMA NormalisePreserves ==
  ASSUME DepthsInv, Normalise
  PROVE  DepthsInv'
<1> USE DEF DepthsInv
<1>1. /\ pc = "scan" /\ i = no_nodes /\ ~allocated /\ pc' = "choose"
      /\ subgraph_index_upto' = subgraph_index_upto + 1 /\ subgraph_index_upto \in Nat
      /\ subgraph_index' = subgraph_index /\ arcs' = arcs
      /\ min_allocated_depth \in Int /\ max_allocated_depth \in Int /\ max_depth \in Nat
  BY DEF Normalise, NextSubgraph, TypeOK
<1>2. \A n \in Node :
        /\ Current(n) => depth'[n] = depth[n] - min_allocated_depth
        /\ ~Current(n) => depth'[n] = depth[n]
  BY DEF Normalise, Current
<1>3. \A n \in Node : n \in Allocated => depth[n] \in Int
  BY DEF Allocated, TypeOK
<1>4. \A n \in Node : Current(n) => n \in Allocated /\ ~Finished(n)
  BY <1>1, DepthsAssumption DEF Marked, Current, Finished
<1>5. \A n \in Node : Finished(n)' <=> Finished(n) \/ Current(n)
  BY <1>1, DepthsAssumption DEF Finished, Current, TypeOK
<1>6. Allocated' = Allocated
  <2>1. \A n \in Node : depth'[n] = INT_MIN <=> depth[n] = INT_MIN
    BY <1>1, <1>2, <1>3, <1>4, DepthsAssumption DEF Allocated
  <2> QED BY <2>1 DEF Allocated
<1>7. TypeOK'
  <2>1. depth' \in [Node -> Int \cup {INT_MIN}]
    <3>1. \A n \in Node : depth'[n] \in Int \cup {INT_MIN}
      BY <1>1, <1>2, <1>3, <1>4 DEF TypeOK
    <3>2. depth' = [n \in Node |-> depth'[n]]
      BY DEF Normalise
    <3> QED BY <3>1, <3>2
  <2>2. max_depth' \in Nat /\ subgraph_index_upto' \in Nat
    BY <1>1 DEF Normalise, Span
  <2> QED BY <2>1, <2>2 DEF Normalise, TypeOK
<1>8. Marked'
  BY <1>4, <1>5, <1>6, <1>1 DEF Marked
<1>9. FinishedClosed'
  <2> SUFFICES ASSUME NEW p \in Node, NEW c \in Node,
                      <<p, c>> \in arcs, (Finished(p) \/ Finished(c))'
               PROVE  (depth[p] < depth[c] /\ subgraph_index[p] = subgraph_index[c])'
    BY <1>1 DEF FinishedClosed
  <2>1. CASE Finished(p) \/ Finished(c)
    <3>1. depth[p] < depth[c] /\ subgraph_index[p] = subgraph_index[c]
      BY <2>1 DEF FinishedClosed
    <3>2. ~Current(p) /\ ~Current(c)
      BY <1>4, <2>1, <3>1 DEF Finished
    <3> QED BY <1>1, <1>2, <3>1, <3>2
  <2>2. CASE ~Finished(p) /\ ~Finished(c)
    <3>1. (Current(p) \/ Current(c)) /\ p \in Parents(c) /\ c \in Children(p)
      BY <1>5, <2>2 DEF Parents, Children
    <3>2. p < i /\ c < i
      BY <1>1, DepthsAssumption DEF Node
    <3>3. p \in Allocated /\ c \in Allocated
      BY <1>1, <1>4, <3>1, <3>2 DEF PassedClosed
    <3>4. Current(p) /\ Current(c)
      BY <2>2, <3>3 DEF Marked
    <3>5. depth[p] < depth[c]
      BY <1>1, <3>1, <3>2, <3>4 DEF PassedClosed
    <3>6. depth[p] \in Int /\ depth[c] \in Int
      BY <1>3, <3>3
    <3> QED BY <1>1, <1>2, <3>4, <3>5, <3>6 DEF Current
  <2> QED BY <2>1, <2>2
<1>10. FinishedInRange'
  <2> SUFFICES ASSUME NEW n \in Node, Finished(n)'
               PROVE  depth'[n] \in 0 .. max_depth'
    BY DEF FinishedInRange
  <2>1. max_depth' \in Nat /\ max_depth' >= max_depth /\ max_depth' >= Span
    BY <1>1 DEF Normalise, Span
  <2>2. CASE Finished(n)
    <3>1. depth[n] \in 0 .. max_depth /\ depth'[n] = depth[n]
      BY <1>2, <1>4, <2>2 DEF FinishedInRange
    <3> QED BY <1>1, <2>1, <3>1
  <2>3. CASE Current(n)
    <3>1. depth[n] \in Int /\ depth'[n] = depth[n] - min_allocated_depth
      BY <1>2, <1>3, <1>4, <2>3
    <3>2. min_allocated_depth <= depth[n] /\ depth[n] <= max_allocated_depth
      BY <1>1, <2>3 DEF CurrentInRange
    <3> QED BY <1>1, <2>1, <3>1, <3>2 DEF Span
  <2> QED BY <1>5, <2>2, <2>3
<1>11. CurrentInRange' /\ PassedClosed'
  BY <1>1 DEF CurrentInRange, PassedClosed
<1>12. Counted'
  BY <1>1, <1>6 DEF Counted, Normalise
<1> QED
  BY <1>7, <1>8, <1>9, <1>10, <1>11, <1>12

\* The last step sets the status of the nodes and nothing else.
LEMMA StatusPreserves ==
  ASSUME DepthsInv, SetStatus
  PROVE  DepthsInv'
<1> USE DEF DepthsInv
<1>1. TypeOK'
  <2>1. node_status' \in [Node -> {0, 1}]
    BY DEF SetStatus
  <2> QED BY <2>1 DEF SetStatus, TypeOK
<1>2. Marked' /\ FinishedClosed' /\ FinishedInRange' /\ CurrentInRange' /\ PassedClosed'
  BY DEF SetStatus, Marked, FinishedClosed, FinishedInRange, CurrentInRange,
         PassedClosed, Finished, Current, Allocated
<1>3. Counted'
  BY DEF SetStatus, Counted, Allocated
<1> QED
  BY <1>1, <1>2, <1>3

\* The invariant of assign_depths_and_status, on every acyclic graph.
THEOREM DepthsInvariant == Spec => []DepthsInv
<1>1. Init => DepthsInv
  BY DepthsInit
<1>2. DepthsInv /\ [Next]_vars => DepthsInv'
  <2> SUFFICES ASSUME DepthsInv, [Next]_vars PROVE DepthsInv'
    OBVIOUS
  <2>1. ASSUME NEW n \in Node, ChooseStart(n) PROVE DepthsInv'
    BY <2>1, ChooseStartPreserves
  <2>2. CASE Visit
    BY <2>2, VisitPreserves
  <2>3. CASE Skip \/ ScanAgain
    BY <2>3, ScanPreserves
  <2>4. CASE Normalise
    BY <2>4, NormalisePreserves
  <2>5. CASE SetStatus
    BY <2>5, StatusPreserves
  <2>6. CASE UNCHANGED vars
    BY <2>6
    DEF vars, DepthsInv, TypeOK, Marked, FinishedClosed, FinishedInRange,
        CurrentInRange, PassedClosed, Counted, Finished, Current, Allocated,
        Children, Parents
  <2> QED BY <2>1, <2>2, <2>3, <2>4, <2>5, <2>6 DEF Next, Step, Done
<1> QED BY <1>1, <1>2, PTL DEF Spec

\* When the function is done every node is allocated: nothing was left out of
\* the count.
LEMMA AllAllocated ==
  ASSUME DepthsInv, pc = "done"
  PROVE  \A n \in Node : n \in Allocated /\ Finished(n)
<1>1. Allocated \in SUBSET Node
  BY DEF Allocated
<1>2. Allocated = Node
  BY <1>1, NodesFinite DEF DepthsInv, Counted
<1> QED BY <1>2 DEF DepthsInv, Marked

\* On every acyclic graph every arc goes to a deeper node of the same subgraph
\* (Dag::assign_depths_and_status), as the master takes for granted.
THEOREM ArcsAlwaysGoDeeper == Spec => []ArcsGoDeeper
<1>1. DepthsInv => ArcsGoDeeper
  BY AllAllocated DEF DepthsInv, ArcsGoDeeper, FinishedClosed
<1> QED BY <1>1, DepthsInvariant, PTL

\* On every acyclic graph the scan over 0 .. max_depth meets every node.
THEOREM DepthsAlwaysInRange == Spec => []DepthsInRange
<1>1. DepthsInv => DepthsInRange
  BY AllAllocated DEF DepthsInv, DepthsInRange, FinishedInRange
<1> QED BY <1>1, DepthsInvariant, PTL

\* A set of nodes that no arc leaves or enters.
Closed(S) == \A n \in S : Parents(n) \cup Children(n) \subseteq S

\* At all times a piece lies within such a set or outside it.
Separated ==
  \A S \in SUBSET Node : Closed(S) =>
    \A n \in S, k \in Node \ S :
      subgraph_index[n] \in Nat => subgraph_index[n] # subgraph_index[k]

\* A piece is begun with an index of its own, and grows along arcs.
LEMMA SeparatedStep ==
  ASSUME DepthsInv, Separated, Next
  PROVE  Separated'
<1> SUFFICES ASSUME NEW S \in SUBSET Node, Closed(S)',
                    NEW n \in S, NEW k \in Node \ S, subgraph_index'[n] \in Nat
             PROVE  subgraph_index'[n] # subgraph_index'[k]
  BY DEF Separated
<1>1. Closed(S)
  BY DEF Closed, Parents, Children, Next, Step, Done, vars,
         ChooseStart, Visit, Skip, ScanAgain, Normalise, SetStatus
<1>2. \A a \in S, b \in Node \ S :
        subgraph_index[a] \in Nat => subgraph_index[a] # subgraph_index[b]
  BY <1>1 DEF Separated
<1>3. ASSUME NEW m \in Node, ChooseStart(m)
      PROVE  subgraph_index'[n] # subgraph_index'[k]
  <2>1. /\ pc = "choose" /\ subgraph_index_upto \in Nat
        /\ subgraph_index'[m] = subgraph_index_upto
        /\ \A a \in Node : a # m => subgraph_index'[a] = subgraph_index[a]
    BY <1>3 DEF ChooseStart, DepthsInv, TypeOK
  <2>2. \A a \in Node : subgraph_index[a] # subgraph_index_upto
    BY <2>1, DepthsAssumption DEF DepthsInv, Marked, Finished, Current
  <2>3. n # k /\ n \in Node /\ k \in Node
    OBVIOUS
  <2>4. CASE n = m
    BY <2>1, <2>2, <2>3, <2>4
  <2>5. CASE k = m
    BY <2>1, <2>2, <2>3, <2>5
  <2>6. CASE n # m /\ k # m
    BY <1>2, <2>1, <2>3, <2>6
  <2> QED BY <2>4, <2>5, <2>6
<1>4. CASE Visit
  <2> DEFINE New == Pulled(i) \cup Pushed(i)
  <2>1. /\ i \in Node /\ subgraph_index[i] = subgraph_index_upto
        /\ subgraph_index_upto \in Nat
    BY <1>4, DepthsAssumption DEF Visit, DepthsInv, TypeOK, Node
  <2>2. \A a \in Node :
          /\ a \in New => subgraph_index'[a] = subgraph_index_upto
          /\ a \notin New => subgraph_index'[a] = subgraph_index[a]
    BY <1>4 DEF Visit
  <2>3. \A a \in New : a \in Node /\ (<<i, a>> \in arcs \/ <<a, i>> \in arcs)
    BY DEF Pulled, Pushed, Parents, Children
  <2>4. \A a \in New : a \in S <=> i \in S
    BY <1>1, <2>1, <2>3 DEF Closed, Parents, Children
  <2>5. \A a \in Node : subgraph_index'[a] = subgraph_index[IF a \in New THEN i ELSE a]
    BY <2>1, <2>2
  <2>6. (IF n \in New THEN i ELSE n) \in S /\ (IF k \in New THEN i ELSE k) \in Node \ S
    BY <2>1, <2>4
  <2> HIDE DEF New
  <2> QED BY <1>2, <2>5, <2>6
<1>5. CASE Skip \/ ScanAgain \/ Normalise \/ SetStatus \/ Done
  <2>1. subgraph_index' = subgraph_index
    BY <1>5 DEF Skip, ScanAgain, Normalise, SetStatus, Done, vars
  <2> QED BY <1>2, <2>1
<1> QED BY <1>3, <1>4, <1>5 DEF Next, Step

\* On every acyclic graph a subgraph hangs together: nodes that no arc leads
\* to or from the rest share no index with it (assign_depths_and_status), so
\* the subgraph that mode 2 finishes for a solution is no larger than it must.
THEOREM SubgraphsHangTogether == Spec => []SubgraphsConnected
<1>1. Init => Separated
  <2>1. ASSUME Init PROVE \A n \in Node : subgraph_index[n] \notin Nat
    BY <2>1, DepthsAssumption DEF Init
  <2> QED BY <2>1 DEF Separated
<1>2. DepthsInv /\ Separated /\ [Next]_vars => Separated'
  <2>1. CASE UNCHANGED vars
    BY <2>1 DEF vars, Separated, Closed, Parents, Children
  <2> QED BY <2>1, SeparatedStep
<1>3. DepthsInv /\ Separated => SubgraphsConnected
  <2> SUFFICES ASSUME DepthsInv, Separated, pc = "done"
               PROVE  \A S \in SUBSET Node :
                        (\A n \in S : Parents(n) \cup Children(n) \subseteq S) =>
                          \A n \in S, k \in Node \ S : subgraph_index[n] # subgraph_index[k]
    BY DEF SubgraphsConnected
  <2>1. \A n \in Node : subgraph_index[n] \in Nat
    BY AllAllocated DEF Finished
  <2> QED BY <2>1 DEF Separated, Closed
<1> QED BY <1>1, <1>2, <1>3, DepthsInvariant, PTL DEF Spec
=============================================================================
