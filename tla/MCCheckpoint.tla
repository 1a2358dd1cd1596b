---------------------------- MODULE MCCheckpoint ----------------------------
(***************************************************************************)
(* The master and its workers, with checkpoints, on small DAGs.            *)
(***************************************************************************)
EXTENDS Checkpoint, SmallDags
=============================================================================
