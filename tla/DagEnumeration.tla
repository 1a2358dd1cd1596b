---------------------------- MODULE DagEnumeration ----------------------------
(***************************************************************************)
(* What Dagster promises when it enumerates (ENUMERATE_SOLUTIONS = 1):     *)
(* answers of the nodes accumulate, each the answer to a combination of    *)
(* answers its parents have already given, and the program stops only when *)
(* every combination has been answered completely.  Which process finds    *)
(* which answer, and how often, is left open.                              *)
(***************************************************************************)
EXTENDS DagProblem

VARIABLES
  found,  \* node -> the answers known so far
  done    \* the enumeration has stopped

vars == <<found, done>>

Closed == \A n \in Node : \A m \in Combinations(found, n) : Covered(m, found[n])

Init == found = [n \in Node |-> {}] /\ done = FALSE

Find(n) ==
  /\ ~done
  /\ \E m \in Combinations(found, n) : \E q \in PossibleAnswers(m) :
       found' = [found EXCEPT ![n] = @ \cup {q}]
  /\ UNCHANGED done

Halt == ~done /\ Closed /\ done' = TRUE /\ UNCHANGED found

Next == (\E n \in Node : Find(n)) \/ Halt

Spec == Init /\ [][Next]_vars

FairSpec == Spec /\ WF_vars(Next)
=============================================================================
