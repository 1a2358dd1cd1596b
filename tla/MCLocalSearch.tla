---- MODULE MCLocalSearch ----
EXTENDS LocalSearch

Message(n, unit) == [answers |-> n, unit |-> unit]
Plan(helpers, prefixCount, msgs) ==
  [numSLSProcesses |-> helpers, prefixes |-> prefixCount, messages |-> msgs]

(* Two helpers that find the same answer, over two messages; and one that  *)
(* gets prefixes faster than it looks at them.                             *)
RaceOrRush == {Plan(2, 0, <<Message(1, FALSE), Message(1, TRUE)>>),
               Plan(1, 3, <<Message(2, FALSE)>>)}

(* One helper with two answers, and the next message of the master.        *)
TwoAnswers == {Plan(1, 0, <<Message(2, FALSE), Message(1, FALSE)>>)}
====
