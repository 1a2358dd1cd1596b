--------------------------- MODULE MCProcessGroups ---------------------------
(***************************************************************************)
(* Every mode of the program on up to a few processes.                     *)
(***************************************************************************)
EXTENDS ProcessGroups
=============================================================================
