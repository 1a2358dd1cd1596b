----------------------------- MODULE DagProblem -----------------------------
(***************************************************************************)
(* The problem Dagster works on, as the rest of the specification sees it: *)
(* a DAG whose nodes are CNF subproblems over shared variables and whose   *)
(* arcs carry the values of some of them.                                  *)
(*                                                                         *)
(* A variable is a positive integer and a literal is a variable or its     *)
(* negation, as in the DIMACS files and in Message::assignments.  A clause *)
(* and an assignment are both sets of literals.  An assignment that leaves *)
(* variables out (a cube) stands for all its completions: with trimming on *)
(* (-t 1, the default) a worker answers with cubes.                        *)
(*                                                                         *)
(* A message to a node is one combination of an answer from each parent,   *)
(* so it is identified by its destination and by what came along each arc. *)
(***************************************************************************)
EXTENDS Integers, FiniteSets

CONSTANTS
  Node,        \* the nodes of the DAG
  Var,         \* the variables of the master CNF
  Arc,         \* forward_connections, as a set of pairs <<from, to>>
  ArcVars,     \* forward_connection_literals: the variables an arc carries
  Reporting,   \* the variables reported at terminal nodes
  Clauses,     \* node -> the clauses the DAG file gives that node
  Depth,       \* depth_for_each_node
  Subgraph,    \* subgraph_index
  Trim         \* solution_trimming: TRUE is -t 1, FALSE is -t 0

Literal == Var \cup {-v : v \in Var}
Cube == SUBSET Literal

ASSUME DagAssumption ==
  /\ Var \subseteq Nat \ {0}
  /\ Arc \subseteq Node \X Node
  /\ ArcVars \in [Arc -> SUBSET Var]
  /\ Reporting \subseteq Var
  /\ Clauses \in [Node -> SUBSET Cube]
  /\ Depth \in [Node -> Nat]
  /\ Subgraph \in [Node -> Nat]
  /\ Trim \in BOOLEAN
  \* what Dag::assign_depths_and_status computes
  /\ \A a \in Arc : /\ Depth[a[1]] < Depth[a[2]]
                    /\ Subgraph[a[1]] = Subgraph[a[2]]

-----------------------------------------------------------------------------
Parents(n)  == {p \in Node : <<p, n>> \in Arc}
Children(n) == {c \in Node : <<n, c>> \in Arc}
Terminal(n) == Children(n) = {}

\* amalgamated_forward_connection_literals
ForwardVars(n) == UNION {ArcVars[<<n, c>>] : c \in Children(n)}

Project(q, V) == {l \in q : l \in V \/ -l \in V}
Negated(q) == {-l : l \in q}
Consistent(q) == \A l \in q : -l \notin q

-----------------------------------------------------------------------------
(* Messages                                                                *)

MessageTo(n) == [to : {n}, parts : [Parents(n) -> Cube]]
Message == UNION {MessageTo(n) : n \in Node}

\* resolve_sorted_vectors: the literals of all the parts
Lits(m) == UNION {m.parts[p] : p \in DOMAIN m.parts}

\* messages[p][n] for the answers found[p] of p (the seed of a base node is
\* the empty function: it has no parent whose answer it waits for)
Inbox(found, p, n) == {Project(q, ArcVars[<<p, n>>]) : q \in found[p]}

\* Every combination of compatible parts, issued before or not.
Combinations(found, n) ==
  {m \in [to : {n},
          parts : [Parents(n) -> UNION {Inbox(found, p, n) : p \in Parents(n)}]] :
     /\ \A p \in Parents(n) : m.parts[p] \in Inbox(found, p, n)
     /\ Consistent(Lits(m))}

-----------------------------------------------------------------------------
(* What a solver may answer                                                *)

Assignments(V) == {{IF f[v] THEN v ELSE -v : v \in V} : f \in [V -> BOOLEAN]}
TotalAssignments == Assignments(Var)

Satisfies(q, cnf) == \A c \in cnf : q \cap c # {}

\* The solver decides every variable up to cnf->vc, the largest one mentioned.
Decided(cnf) == {v \in Var : \E c \in cnf : \E l \in c : v <= l \/ v <= -l}

\* (mutant: the message is left out)
CnfWithoutMessage(m, additional) == Clauses[m.to] \cup additional

\* compile_Cnf_from_Message: the node's clauses, the message as unit clauses
\* and the additional clauses
CompiledCnf(m, additional) ==
  Clauses[m.to] \cup {{l} : l \in Lits(m)} \cup additional

Models(m, additional) ==
  LET cnf == CompiledCnf(m, additional)
  IN  {a \in Assignments(Decided(cnf)) : Satisfies(a, cnf)}

\* verify_and_trim_Solution marks one literal per clause and drops the others
Marks(a, cnf) == {f \in [cnf -> a] : \A c \in cnf : f[c] \in c}
Trimmed(a, cnf) ==
  IF Trim THEN {{f[c] : c \in cnf} : f \in Marks(a, cnf)} ELSE {a}

\* load_into_message: only what the arcs, or the report, need
WorkerView(n, q) ==
  Project(q, IF ForwardVars(n) # {} THEN ForwardVars(n) ELSE Reporting)

Answers(m, additional) ==
  {WorkerView(m.to, q) :
     q \in UNION {Trimmed(a, CompiledCnf(m, additional)) : a \in Models(m, additional)}}

\* register_completion, which asks for forward connections, not for literals
MasterView(n, q) ==
  Project(q, IF Terminal(n) THEN Reporting ELSE ForwardVars(n))

\* What may answer m, whatever the search has been told to avoid: a cube
\* within the solutions of m, as far as the node shows it.
PossibleAnswers(m) ==
  {MasterView(m.to, WorkerView(m.to, q)) :
     q \in {p \in UNION {SUBSET a : a \in TotalAssignments} :
              Satisfies(p, CompiledCnf(m, {}))}}

-----------------------------------------------------------------------------
(* The meaning of the whole problem, for the correctness properties        *)

\* Every solution of message m is in one of the cubes found.
Covered(m, found) ==
  \A a \in TotalAssignments :
    Satisfies(a, CompiledCnf(m, {})) => \E q \in found : q \subseteq a

\* node -> the nodes it depends on, itself included: those in every set that
\* has it and the parents of all its members
AncestorsAndSelf ==
  [n \in Node |->
     {k \in Node : \A S \in SUBSET Node :
        n \in S /\ (\A c \in S : Parents(c) \subseteq S) => k \in S}]

\* The assignments that satisfy node n and everything it depends on.
GlobalModels(n) ==
  {a \in TotalAssignments : \A k \in AncestorsAndSelf[n] : Satisfies(a, Clauses[k])}

\* What makes a DAG a decomposition of its problem, which the program takes for
\* granted: an assignment that satisfies a node, and agrees on each arc into it
\* with one that satisfies all that the parent depends on, agrees on what the
\* node shows with one that satisfies all that the node depends on.
Decomposes ==
  \A n \in Node : \A t \in TotalAssignments :
    /\ Satisfies(t, Clauses[n])
    /\ \A p \in Parents(n) : \E a \in GlobalModels(p) :
         Project(a, ArcVars[<<p, n>>]) = Project(t, ArcVars[<<p, n>>])
    => \E a \in GlobalModels(n) : MasterView(n, a) = MasterView(n, t)

\* It does if each arc carries the variables that what is above it shares with
\* the node below, with what is above the node's other arcs, and with what the
\* node shows.
Mentioned(cnf) == {v \in Var : \E c \in cnf : v \in c \/ -v \in c}
MentionedAbove(p) == UNION {Mentioned(Clauses[k]) : k \in AncestorsAndSelf[p]}
Shown(n) == IF Terminal(n) THEN Reporting ELSE ForwardVars(n)
SharedIsCarried ==
  \A n \in Node : \A p \in Parents(n) :
    MentionedAbove(p) \cap
      (Mentioned(Clauses[n]) \cup Shown(n) \cup UNION {MentionedAbove(o) : o \in Parents(n) \ {p}})
    \subseteq ArcVars[<<p, n>>]
=============================================================================
