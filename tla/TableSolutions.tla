---------------------------- MODULE TableSolutions ----------------------------
(***************************************************************************)
(* The solutions object the program uses by default (TableSolutions.cpp    *)
(* under SolutionsInterface.h).  It keeps, for every arc, the list of the  *)
(* different messages that came along it.  A combination for a node is a   *)
(* tuple of indices into the lists of its parents; the tuples that were    *)
(* given out are remembered, as indices.  The clauses against a node's own *)
(* answers are kept apart from all that, and a clause is not added when an *)
(* earlier one is a prefix of it.                                          *)
(*                                                                         *)
(* Assignments are sorted by variable before they are compared, so they    *)
(* are sets here.  The parents of a node are searched in the order of the  *)
(* DAG file, taken to be that of their numbers.  dumb_mode is off.         *)
(***************************************************************************)
EXTENDS DagProblem, Sequences

CONSTANT BREADTH_FIRST_NODE_ALLOCATIONS

ASSUME TableAssumption ==
  /\ Node \subseteq Nat /\ IsFiniteSet(Node)
  /\ BREADTH_FIRST_NODE_ALLOCATIONS \in BOOLEAN

VARIABLES
  messages,               \* <<from, to>> -> list of assignments
  completed_combinations, \* node -> set of index tuples
  additional_clauses,     \* node -> set of clauses
  inputs                  \* history: node -> the answers registered

vars == <<messages, completed_combinations, additional_clauses, inputs>>

\* reverse_connections: a base node ends up as its own and only parent, and
\* main seeds it with one empty message from itself.
Sources(n) == IF Parents(n) = {} THEN {n} ELSE Parents(n)

Init ==
  /\ messages = [c \in Node \X Node |->
                   IF c[1] = c[2] /\ Parents(c[1]) = {} THEN <<{}>> ELSE <<>>]
  /\ completed_combinations = [n \in Node |-> {}]
  /\ additional_clauses = [n \in Node |-> {}]
  /\ inputs = [n \in Node |-> {}]

-----------------------------------------------------------------------------
(* output_message                                                          *)

Part(n, t, p) == messages[<<p, n>>][t[p]]

\* (mutant: conflicts are not looked for, as in dumb_mode)
AnyTuple(n, t) == TRUE

\* _get_combination rejects a message that conflicts with one before it.
Compatible(n, t) == Consistent(UNION {Part(n, t, p) : p \in DOMAIN t})

Tuples(n) ==
  {t \in [Sources(n) -> UNION {DOMAIN messages[<<p, n>>] : p \in Sources(n)}] :
     /\ \A p \in Sources(n) : t[p] \in DOMAIN messages[<<p, n>>]
     /\ Compatible(n, t)}

NewTuples(n) == Tuples(n) \ completed_combinations[n]

\* The search advances the index of the last parent first.
Before(t, u) ==
  \E p \in DOMAIN t : t[p] < u[p] /\ \A k \in DOMAIN t : k < p => t[k] = u[k]

\* The scan meets n before k.
Earlier(n, k) ==
  \/ Depth[n] = Depth[k] /\ n <= k
  \/ IF BREADTH_FIRST_NODE_ALLOCATIONS THEN Depth[n] < Depth[k] ELSE Depth[n] > Depth[k]

\* (mutant: the first node that has messages, whether they are used or not)
FirstWithTuples(n) ==
  NewTuples(n) # {} /\ \A k \in Node : Tuples(k) # {} => Earlier(n, k)

\* The first node of the scan that has a new combination.
FirstOpen(n) ==
  NewTuples(n) # {} /\ \A k \in Node : NewTuples(k) # {} => Earlier(n, k)

MessageOf(n, t) == [to |-> n, parts |-> [p \in Parents(n) |-> Part(n, t, p)]]

OutputMessage ==
  \E n \in Node :
    /\ FirstOpen(n)
    /\ \E t \in NewTuples(n) :
         /\ \A u \in NewTuples(n) \ {t} : Before(t, u)
         /\ completed_combinations' = [completed_combinations EXCEPT ![n] = @ \cup {t}]
    /\ UNCHANGED <<messages, additional_clauses, inputs>>

-----------------------------------------------------------------------------
(* input_message                                                           *)

VarOf(l) == IF l > 0 THEN l ELSE -l

\* Sorted by variable, c is a prefix of d.
PrefixClause(c, d) == c \subseteq d /\ \A l \in c, k \in d \ c : VarOf(l) < VarOf(k)

\* (mutant: the comparison stops at the end of the shorter clause)
IdenticalUpToShorter(c, d) == PrefixClause(c, d) \/ PrefixClause(d, c)

\* The comparison stops at the end of the clause that is already there.
Identical(c, d) == PrefixClause(c, d)

WithClause(cls, d) ==
  IF d = {} \/ \E c \in cls : Identical(c, d) THEN cls ELSE cls \cup {d}

\* (mutant: no duplication check)
AppendAlways(list, part) == Append(list, part)

\* add_message
AddPart(list, part) ==
  IF \E k \in DOMAIN list : list[k] = part THEN list ELSE Append(list, part)

GivenOut(n) == {MessageOf(n, t) : t \in completed_combinations[n]}

\* A worker's answer q to a message it was given at node n.
Input(n, q) ==
  /\ \E m \in GivenOut(n) : q \in PossibleAnswers(m)
  /\ LET view == MasterView(n, q)
     IN  /\ inputs' = [inputs EXCEPT ![n] = @ \cup {view}]
         /\ additional_clauses' =
              [additional_clauses EXCEPT ![n] = WithClause(@, Negated(view))]
         /\ messages' =
              [c \in Node \X Node |->
                 IF c[1] = n /\ c \in Arc
                 THEN AddPart(messages[c], Project(view, ArcVars[c]))
                 ELSE messages[c]]
  /\ UNCHANGED completed_combinations

Next ==
  \/ OutputMessage
  \/ \E n \in Node, q \in Cube : Input(n, q)

Spec == Init /\ [][Next]_vars

-----------------------------------------------------------------------------
(* Properties                                                              *)

\* With its lists, indices and tuples the table is the abstract store: it gives
\* out compatible combinations of what was answered, from the right depth and
\* each only once (TableSolutions.cpp:135-231).
Store ==
  INSTANCE SolutionsStore
  WITH registered <- inputs, issued <- UNION {GivenOut(n) : n \in Node}
ImplementsStore == Store!StoreSpec

\* output_message says NULL only when nothing is left to give out: the master
\* takes it as the end of the work (Master.cpp:129-135).
NullMeansNone == (\A n \in Node : ~FirstOpen(n)) => Store!Waiting = {}

\* No two index tuples stand for the same message, however the lists grew
\* after they were remembered, so nothing is worked on twice.
TuplesAreMessages ==
  \A n \in Node : \A t, u \in completed_combinations[n] :
    MessageOf(n, t) = MessageOf(n, u) => t = u

\* The clauses that are kept exclude exactly what was answered: those left out
\* as duplicates (TableSolutions.cpp:110-126) are implied by the others.
ClausesExcludeAnswers ==
  \A n \in Node : \A a \in TotalAssignments :
    Satisfies(a, additional_clauses[n]) <=> Satisfies(a, Store!AdditionalClauses(n))
=============================================================================
