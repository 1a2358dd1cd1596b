--------------------------- MODULE MCMasterWorker ---------------------------
(***************************************************************************)
(* The master and its workers on small DAGs.                               *)
(***************************************************************************)
EXTENDS MasterWorkerProperties, SmallDags

\* What the soundness of the answers rests on holds for each of them, except
\* for the chain whose arc carries nothing.
ASSUME InstancesDecompose == Decomposes \/ \E a \in Arc : ArcVars[a] = {}
=============================================================================
