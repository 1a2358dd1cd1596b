----------------------------- MODULE SmallDags ------------------------------
(***************************************************************************)
(* The small DAGs that the model checker runs on.                          *)
(***************************************************************************)
EXTENDS Integers

\* One node that is both base and terminal, with two solutions as reported.
SingleNode      == {0}
SingleVar       == {1, 2}
SingleArcVars   == [a \in {} |-> {}]
SingleReporting == {1}
SingleClauses   == [n \in SingleNode |-> {{1, 2}}]
SingleZero      == [n \in SingleNode |-> 0]

\* A node that feeds another, which refuses some of what the first allows.
ChainNode      == {0, 1}
ChainVar       == {1, 2}
ChainArc       == {<<0, 1>>}
ChainArcVars   == [a \in ChainArc |-> {1, 2}]
ChainReporting == {1, 2}
ChainClauses   == [n \in ChainNode |-> IF n = 0 THEN {{1, 2}} ELSE {{-1, 2}}]
ChainDepth     == [n \in ChainNode |-> n]
ChainSubgraph  == [n \in ChainNode |-> 0]

\* The chain with an arc that carries nothing (the file may have "0->1:").
BareArcVars == [a \in ChainArc |-> {}]

\* Two nodes joined by a third, which refuses one of the four combinations.
JoinNode      == {0, 1, 2}
JoinVar       == {1, 2}
JoinArc       == {<<0, 2>>, <<1, 2>>}
JoinArcVars   == [a \in JoinArc |-> {a[1] + 1}]
JoinReporting == {1, 2}
JoinClauses   == [n \in JoinNode |-> {{1, 2}}]
JoinDepth     == [n \in JoinNode |-> IF n = 2 THEN 1 ELSE 0]
JoinSubgraph  == [n \in JoinNode |-> 0]

\* Two nodes joined by a third; the first answers with up to two literals, the
\* second with one that some of those contradict.
FunnelArcVars   == [a \in JoinArc |-> IF a[1] = 0 THEN {1, 2} ELSE {1}]
FunnelReporting == {}
FunnelClauses   == [n \in JoinNode |-> IF n = 0 THEN {{1}} ELSE {{1, 2}}]

\* Two subgraphs: a chain, and a node on its own with two answers.
IslandsNode      == {0, 1, 2}
IslandsVar       == {1, 2}
IslandsArc       == {<<0, 1>>}
IslandsArcVars   == [a \in IslandsArc |-> {1}]
IslandsReporting == {1}
IslandsClauses   == [n \in IslandsNode |-> IF n = 1 THEN {{1}} ELSE {{1, 2}}]
IslandsDepth     == [n \in IslandsNode |-> IF n = 1 THEN 1 ELSE 0]
IslandsSubgraph  == [n \in IslandsNode |-> IF n = 2 THEN 1 ELSE 0]
=============================================================================
