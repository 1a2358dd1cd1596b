-------------------------- MODULE MCTableSolutions --------------------------
(***************************************************************************)
(* The table of solutions on small DAGs.                                   *)
(***************************************************************************)
EXTENDS TableSolutions, SmallDags
=============================================================================
