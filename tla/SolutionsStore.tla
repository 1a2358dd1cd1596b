---------------------------- MODULE SolutionsStore ----------------------------
(***************************************************************************)
(* What the master asks of its solutions object (WrappedSolutionsInterface *)
(* in SolutionsInterface.h), whichever class implements it: it takes in    *)
(* the answers of the nodes, gives out every compatible combination of the *)
(* parents' answers once, as a message, and knows for each node the        *)
(* clauses that exclude what has been answered.                            *)
(***************************************************************************)
EXTENDS DagProblem

CONSTANT
  BREADTH_FIRST_NODE_ALLOCATIONS  \* TRUE: shallow nodes first

ASSUME StoreAssumption == BREADTH_FIRST_NODE_ALLOCATIONS \in BOOLEAN

VARIABLES
  registered,  \* node -> answers input
  issued       \* the messages already output

storeVars == <<registered, issued>>

StoreInit == registered = [n \in Node |-> {}] /\ issued = {}

\* input_message: the answer is cut to what the node shows and stored; the
\* messages for the children are its projections (Inbox).
InputMessage(n, q) == registered' = [registered EXCEPT ![n] = @ \cup {MasterView(n, q)}]

Waiting == (UNION {Combinations(registered, n) : n \in Node}) \ issued

\* output_message scans the depths from one end and stops at the first find
NextMessages ==
  {m \in Waiting : \A k \in Waiting :
     IF BREADTH_FIRST_NODE_ALLOCATIONS
     THEN Depth[m.to] <= Depth[k.to]
     ELSE Depth[m.to] >= Depth[k.to]}

\* (mutants: no clauses are handed out; one list of clauses for all the nodes)
NoClauses(n) == {}
ClausesOfAllNodes(n) == {Negated(q) : q \in (UNION {registered[k] : k \in Node}) \ {{}}}

\* get_additional_clauses: the negation of every answer, the empty one excepted
AdditionalClauses(n) == {Negated(q) : q \in registered[n] \ {{}}}

\* The object on its own: an answer to a message it gave out comes in, or it
\* is asked for a message.
StoreInput(n, q) ==
  /\ \E m \in issued : m.to = n /\ q \in PossibleAnswers(m)
  /\ InputMessage(n, q)
  /\ UNCHANGED issued

StoreOutput ==
  /\ \E m \in NextMessages : issued' = issued \cup {m}
  /\ UNCHANGED registered

StoreNext == (\E n \in Node, q \in Cube : StoreInput(n, q)) \/ StoreOutput

StoreSpec == StoreInit /\ [][StoreNext]_storeVars
=============================================================================
