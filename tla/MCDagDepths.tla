---------------------------- MODULE MCDagDepths ----------------------------
(***************************************************************************)
(* The allocation of depths on every DAG with a few nodes.                 *)
(***************************************************************************)
EXTENDS DagDepths
=============================================================================
