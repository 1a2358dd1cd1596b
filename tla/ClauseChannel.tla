--------------------------- MODULE ClauseChannel ---------------------------
(***************************************************************************)
(* What one direction of an MpiBuffer promises: clauses come out as they   *)
(* went in, in the same order and each once, but any of them may be lost.  *)
(* Clauses are told apart by where the solver keeps them.                  *)
(***************************************************************************)
EXTENDS Naturals, Sequences, SequencesExt

VARIABLE transit     \* the clauses on their way, the oldest first

Init == transit = << >>

Before(a, b) == \E i, j \in DOMAIN transit : i < j /\ transit[i] = a /\ transit[j] = b

(* Some clauses go, one that is read or any number that are lost, and new  *)
(* ones may come behind those that stay.                                   *)
Next == /\ IsInjective(transit')
        /\ \E n \in 0 .. Len(transit') :
             /\ \A i, j \in 1 .. n : i < j => Before(transit'[i], transit'[j])
             /\ \A i \in 1 .. n : transit'[i] \in ToSet(transit)
             /\ \A i \in n + 1 .. Len(transit') : transit'[i] \notin ToSet(transit)

Spec == Init /\ [][Next]_transit
=============================================================================
