--------------------------- MODULE DagProblemProofs ---------------------------
(***************************************************************************)
(* What the operators of the problem return, for any DAG: facts about      *)
(* literals, cubes and messages, and the two on which the results of the   *)
(* search rest: a search that ends has met every model it was not told to  *)
(* avoid, and when every combination of answers is answered completely,    *)
(* the terminal nodes have every solution.                                 *)
(***************************************************************************)
EXTENDS DagProblem, WellFoundedInduction, TLAPS

-----------------------------------------------------------------------------
(* Literals and cubes                                                      *)

\* A literal is a number that differs from its negation; one of them is a
\* variable.
LEMMA Literals ==
  ASSUME NEW l \in Literal
  PROVE  /\ l \in Int /\ -l \in Literal /\ -(-l) = l /\ -l # l
         /\ l \in Var => -l \notin Var
         /\ l \in Var \/ -l \in Var
<1>1. \A v \in Var : v \in Int /\ v > 0
  BY DagAssumption
<1>2. CASE l \in Var
  BY <1>1, <1>2 DEF Literal
<1>3. CASE \E v \in Var : l = -v
  <2> PICK v \in Var : l = -v
    BY <1>3
  <2>1. v \in Int /\ v > 0
    BY <1>1
  <2>2. l \in Int /\ -l = v
    BY <2>1
  <2> QED
    BY <1>1, <2>1, <2>2 DEF Literal
<1> QED
  BY <1>2, <1>3 DEF Literal

\* The part of a cube that an arc carries is a cube.
LEMMA ProjectType ==
  ASSUME NEW q \in Cube, NEW V
  PROVE  Project(q, V) \in Cube
BY DEF Project, Cube

\* Negation stays within the literals.
LEMMA NegatedType ==
  ASSUME NEW q \in Cube
  PROVE  Negated(q) \in Cube
BY Literals DEF Negated, Cube

\* An assignment of the variables of V has one literal of each, and no other.
LEMMA AssignmentLiterals ==
  ASSUME NEW V \in SUBSET Var, NEW a \in Assignments(V)
  PROVE  /\ a \in Cube
         /\ Consistent(a)
         /\ \A v \in V : v \in a \/ -v \in a
<1> PICK f \in [V -> BOOLEAN] : a = {IF f[v] THEN v ELSE -v : v \in V}
  BY DEF Assignments
<1>1. a \in Cube
  BY DEF Cube, Literal
<1>2. \A v \in Var : v \in Int /\ v > 0
  BY DagAssumption
<1>3. Consistent(a)
  <2> SUFFICES ASSUME NEW l \in a, -l \in a PROVE FALSE
    BY DEF Consistent
  <2>1. PICK v \in V : l = IF f[v] THEN v ELSE -v
    OBVIOUS
  <2>2. PICK u \in V : -l = IF f[u] THEN u ELSE -u
    OBVIOUS
  <2>3. u \in Int /\ u > 0 /\ v \in Int /\ v > 0
    BY <1>2
  <2>4. u = v
    BY <2>1, <2>2, <2>3
  <2> QED
    BY <2>1, <2>2, <2>3, <2>4
<1>4. \A v \in V : v \in a \/ -v \in a
  OBVIOUS
<1> QED
  BY <1>1, <1>3, <1>4

\* A total assignment decides every literal.
LEMMA TotalDecides ==
  ASSUME NEW a \in TotalAssignments
  PROVE  /\ a \in Cube /\ Consistent(a)
         /\ \A l \in Literal : l \in a <=> -l \notin a
<1>1. a \in Cube /\ Consistent(a) /\ \A v \in Var : v \in a \/ -v \in a
  BY AssignmentLiterals DEF TotalAssignments
<1>2. ASSUME NEW l \in Literal PROVE l \in a <=> -l \notin a
  <2>1. l \in a => -l \notin a
    BY <1>1 DEF Consistent
  <2>2. l \in a \/ -l \in a
    BY <1>1, Literals
  <2> QED
    BY <2>1, <2>2
<1> QED
  BY <1>1, <1>2

\* Whatever consistent literals have to hold, the rest of an assignment can
\* be kept.
LEMMA CubeExtends ==
  ASSUME NEW q \in Cube, Consistent(q), NEW b \in TotalAssignments
  PROVE  \E a \in TotalAssignments : q \subseteq a /\ a \subseteq q \cup b
<1> DEFINE f == [v \in Var |-> v \in q \/ (-v \notin q /\ v \in b)]
           a == {IF f[v] THEN v ELSE -v : v \in Var}
<1>1. f \in [Var -> BOOLEAN]
  OBVIOUS
<1>2. a \in TotalAssignments
  BY <1>1 DEF TotalAssignments, Assignments
<1>3. ASSUME NEW l \in q PROVE l \in a
  <2>1. l \in Literal
    BY DEF Cube
  <2>2. CASE l \in Var
    <3>1. f[l]
      BY <2>2
    <3> QED
      BY <2>2, <3>1
  <2>3. CASE -l \in Var
    <3>1. -(-l) = l
      BY <2>1, Literals
    <3>2. -l \notin q
      BY DEF Consistent
    <3>3. ~f[-l]
      BY <2>3, <3>1, <3>2
    <3> QED
      BY <2>3, <3>1, <3>3
  <2> QED
    BY <2>1, <2>2, <2>3, Literals
<1>4. ASSUME NEW l \in a PROVE l \in q \cup b
  <2>1. PICK v \in Var : l = IF f[v] THEN v ELSE -v
    OBVIOUS
  <2>2. v \in Literal
    BY DEF Literal
  <2>3. CASE f[v]
    BY <2>1, <2>3
  <2>4. CASE ~f[v]
    <3>1. l = -v /\ v \notin q /\ (-v \in q \/ v \notin b)
      BY <2>1, <2>4
    <3>2. v \notin b => -v \in b
      BY <2>2, TotalDecides
    <3> QED
      BY <3>1, <3>2
  <2> QED
    BY <2>3, <2>4
<1> QED
  BY <1>2, <1>3, <1>4

\* There is an assignment.
LEMMA TotalExists == \E a : a \in TotalAssignments
<1> DEFINE f == [v \in Var |-> TRUE]
           a == {IF f[v] THEN v ELSE -v : v \in Var}
<1>1. f \in [Var -> BOOLEAN]
  OBVIOUS
<1>2. a \in TotalAssignments
  BY <1>1 DEF TotalAssignments, Assignments
<1> QED
  BY <1>2

\* The literals of an assignment on some of the variables are an assignment
\* of those.
LEMMA Restriction ==
  ASSUME NEW V \in SUBSET Var, NEW a \in TotalAssignments
  PROVE  \E b \in Assignments(V) :
           /\ b \subseteq a
           /\ \A l \in a : l \in V \/ -l \in V => l \in b
<1> DEFINE f == [v \in V |-> v \in a]
           b == {IF f[v] THEN v ELSE -v : v \in V}
<1>1. b \in Assignments(V)
  <2>1. f \in [V -> BOOLEAN]
    OBVIOUS
  <2> QED
    BY <2>1 DEF Assignments
<1>2. ASSUME NEW v \in V PROVE v \in Literal /\ (v \notin a => -v \in a)
  <2>1. v \in Literal
    BY DEF Literal
  <2> QED
    BY <2>1, TotalDecides
<1>3. b \subseteq a
  BY <1>2
<1>4. ASSUME NEW l \in a, l \in V \/ -l \in V PROVE l \in b
  <2>1. l \in Literal
    BY TotalDecides DEF Cube
  <2>2. CASE l \in V
    <3>1. f[l]
      BY <2>2
    <3> QED
      BY <2>2, <3>1
  <2>3. CASE -l \in V
    <3>1. -l \notin a /\ -(-l) = l
      BY <2>1, Literals, TotalDecides
    <3>2. ~f[-l]
      BY <2>3, <3>1
    <3> QED
      BY <2>3, <3>1, <3>2
  <2> QED
    BY <1>4, <2>2, <2>3
<1> QED
  BY <1>1, <1>3, <1>4

\* An assignment that has no literal of the negation of a cube has the cube.
LEMMA NegationBlocks ==
  ASSUME NEW q \in Cube, NEW a \in TotalAssignments, a \cap Negated(q) = {}
  PROVE  q \subseteq a
<1> SUFFICES ASSUME NEW l \in q PROVE l \in a
  OBVIOUS
<1>1. l \in Literal /\ -l \in Negated(q)
  BY DEF Cube, Negated
<1> QED
  BY <1>1, TotalDecides

-----------------------------------------------------------------------------
(* Messages                                                                *)

\* A message is addressed to a node, and its literals are literals.
LEMMA MessageToNode ==
  ASSUME NEW m \in Message
  PROVE  m.to \in Node /\ Lits(m) \in Cube
<1> PICK n \in Node : m \in MessageTo(n)
  BY DEF Message
<1>1. m.to = n /\ m.parts \in [Parents(n) -> Cube]
  BY DEF MessageTo
<1>2. Lits(m) \in Cube
  BY <1>1 DEF Lits, Cube
<1> QED
  BY <1>1, <1>2

\* What is sent to a solver are clauses over the literals.
LEMMA CnfType ==
  ASSUME NEW m \in Message, NEW additional \in SUBSET Cube
  PROVE  CompiledCnf(m, additional) \in SUBSET Cube
<1>1. m.to \in Node /\ Lits(m) \in Cube
  BY MessageToNode
<1>2. Clauses[m.to] \in SUBSET Cube
  BY <1>1, DagAssumption
<1>3. {{l} : l \in Lits(m)} \in SUBSET Cube
  BY <1>1 DEF Cube
<1> QED
  BY <1>2, <1>3 DEF CompiledCnf

\* A combination of answers is a message to its node.
LEMMA CombinationsType ==
  ASSUME NEW found \in [Node -> SUBSET Cube], NEW n \in Node,
         NEW m \in Combinations(found, n)
  PROVE  m \in Message /\ m.to = n
<1>1. \A p \in Parents(n) : Inbox(found, p, n) \subseteq Cube
  BY ProjectType DEF Inbox, Parents
<1>2. m \in [to : {n}, parts : [Parents(n) -> UNION {Inbox(found, p, n) : p \in Parents(n)}]]
  BY DEF Combinations
<1>3. m.parts \in [Parents(n) -> Cube]
  BY <1>1, <1>2
<1> QED
  BY <1>2, <1>3 DEF Message, MessageTo

\* More answers give more combinations.
LEMMA CombinationsGrow ==
  ASSUME NEW found \in [Node -> SUBSET Cube], NEW more \in [Node -> SUBSET Cube],
         \A n \in Node : found[n] \subseteq more[n],
         NEW n \in Node
  PROVE  Combinations(found, n) \subseteq Combinations(more, n)
<1>1. ASSUME NEW p \in Parents(n) PROVE Inbox(found, p, n) \subseteq Inbox(more, p, n)
  BY DEF Inbox, Parents
<1> SUFFICES ASSUME NEW m \in Combinations(found, n) PROVE m \in Combinations(more, n)
  OBVIOUS
<1>2. /\ m \in [to : {n}, parts : [Parents(n) -> UNION {Inbox(found, p, n) : p \in Parents(n)}]]
      /\ \A p \in Parents(n) : m.parts[p] \in Inbox(found, p, n)
      /\ Consistent(Lits(m))
  BY DEF Combinations
<1>3. \A p \in Parents(n) : m.parts[p] \in Inbox(more, p, n)
  BY <1>1, <1>2
<1>4. m.parts \in [Parents(n) -> UNION {Inbox(more, p, n) : p \in Parents(n)}]
  BY <1>2, <1>3
<1> QED
  BY <1>2, <1>3, <1>4 DEF Combinations

\* More answers cover more.
LEMMA CoveredGrows ==
  ASSUME NEW m, NEW found, NEW more, found \subseteq more, Covered(m, found)
  PROVE  Covered(m, more)
BY DEF Covered

\* Parents whose answers all agree with an assignment have a combination that
\* agrees with it.
LEMMA CombinationInside ==
  ASSUME NEW found \in [Node -> SUBSET Cube], NEW n \in Node,
         NEW a \in TotalAssignments,
         \A p \in Parents(n) : \E q \in found[p] : q \subseteq a
  PROVE  \E m \in Combinations(found, n) : Lits(m) \subseteq a
<1> DEFINE answer == [p \in Parents(n) |-> CHOOSE q \in found[p] : q \subseteq a]
           part == [p \in Parents(n) |-> Project(answer[p], ArcVars[<<p, n>>])]
           m == [to |-> n, parts |-> part]
<1>1. ASSUME NEW p \in Parents(n)
      PROVE  part[p] \in Inbox(found, p, n) /\ part[p] \subseteq a
  <2>1. answer[p] \in found[p] /\ answer[p] \subseteq a
    OBVIOUS
  <2> QED
    BY <2>1 DEF Inbox, Project
<1>2. Lits(m) \subseteq a
  <2>1. m.parts = part /\ DOMAIN part = Parents(n)
    OBVIOUS
  <2> HIDE DEF m, part
  <2> QED
    BY <1>1, <2>1 DEF Lits
<1>3. Consistent(Lits(m))
  BY <1>2, TotalDecides DEF Consistent
<1>4. part \in [Parents(n) -> UNION {Inbox(found, p, n) : p \in Parents(n)}]
  BY <1>1
<1>5. /\ m \in [to : {n}, parts : [Parents(n) -> UNION {Inbox(found, p, n) : p \in Parents(n)}]]
      /\ \A p \in Parents(n) : m.parts[p] \in Inbox(found, p, n)
  BY <1>1, <1>4
<1>6. m \in Combinations(found, n)
  BY <1>3, <1>5 DEF Combinations
<1> QED
  BY <1>2, <1>6

-----------------------------------------------------------------------------
(* What a search leaves behind                                             *)

\* A search that ends has been told to avoid every model that is left: a
\* solution of the message violates a clause that was added to it.
LEMMA UnsatFollows ==
  ASSUME NEW m \in Message, NEW additional \in SUBSET Cube, Models(m, additional) = {},
         NEW a \in TotalAssignments, Satisfies(a, CompiledCnf(m, {}))
  PROVE  \E c \in additional : a \cap c = {}
<1> SUFFICES ASSUME \A c \in additional : a \cap c # {} PROVE FALSE
  OBVIOUS
<1> DEFINE cnf == CompiledCnf(m, additional)
<1>1. Satisfies(a, cnf)
  BY DEF Satisfies, CompiledCnf
<1>2. Decided(cnf) \in SUBSET Var
  BY DEF Decided
<1>3. PICK b \in Assignments(Decided(cnf)) :
        /\ b \subseteq a
        /\ \A l \in a : l \in Decided(cnf) \/ -l \in Decided(cnf) => l \in b
  BY <1>2, Restriction
<1>4. ASSUME NEW c \in cnf PROVE b \cap c # {}
  <2>1. PICK l \in a \cap c : TRUE
    BY <1>1 DEF Satisfies
  <2>2. l \in Literal
    BY <2>1, TotalDecides DEF Cube
  <2>3. l \in Int /\ -l \in Int /\ (l \in Var \/ -l \in Var)
    BY <2>2, Literals
  <2>4. l \in Decided(cnf) \/ -l \in Decided(cnf)
    BY <2>1, <2>3 DEF Decided
  <2> QED
    BY <1>3, <2>1, <2>4
<1>5. b \in Models(m, additional)
  BY <1>3, <1>4 DEF Models, Satisfies
<1> QED
  BY <1>5

\* What a worker answers is a cube that answers the message, whatever clauses
\* were added to it.
LEMMA AnswersArePossible ==
  ASSUME NEW m \in Message, NEW additional \in SUBSET Cube, NEW q \in Answers(m, additional)
  PROVE  q \in Cube /\ MasterView(m.to, q) \in PossibleAnswers(m)
<1> DEFINE cnf == CompiledCnf(m, additional)
<1>1. \E a \in Models(m, additional) : \E r \in Trimmed(a, cnf) : q = WorkerView(m.to, r)
  BY DEF Answers
<1> PICK a \in Models(m, additional) : \E r \in Trimmed(a, cnf) : q = WorkerView(m.to, r)
  BY <1>1
<1>2. PICK r \in Trimmed(a, cnf) : q = WorkerView(m.to, r)
  OBVIOUS
<1>3. a \in Assignments(Decided(cnf)) /\ Satisfies(a, cnf) /\ Decided(cnf) \in SUBSET Var
  BY DEF Models, Decided
<1>4. a \in Cube /\ Consistent(a)
  BY <1>3, AssignmentLiterals
<1>5. r \subseteq a /\ Satisfies(r, cnf)
  <2>1. CASE Trim
    <3>1. PICK f \in Marks(a, cnf) : r = {f[c] : c \in cnf}
      BY <1>2, <2>1 DEF Trimmed
    <3>2. \A c \in cnf : f[c] \in a /\ f[c] \in c
      BY <3>1 DEF Marks
    <3>3. \A c \in cnf : f[c] \in r
      BY <3>1
    <3> QED
      BY <3>1, <3>2, <3>3 DEF Satisfies
  <2>2. CASE ~Trim
    BY <1>2, <1>3, <2>2 DEF Trimmed
  <2> QED
    BY <2>1, <2>2
<1>6. Satisfies(r, CompiledCnf(m, {}))
  BY <1>5 DEF Satisfies, CompiledCnf
<1>7. PICK t \in TotalAssignments : a \subseteq t
  BY <1>4, CubeExtends, TotalExists
<1>8. r \in UNION {SUBSET t1 : t1 \in TotalAssignments}
  BY <1>5, <1>7
<1>9. MasterView(m.to, q) \in PossibleAnswers(m)
  BY <1>2, <1>6, <1>8 DEF PossibleAnswers
<1>10. q \in Cube
  <2>1. r \in Cube
    BY <1>4, <1>5 DEF Cube
  <2> QED
    BY <1>2, <2>1, ProjectType DEF WorkerView
<1> QED
  BY <1>9, <1>10

\* The master shows of a node's answer what a worker shows of it, or less.
LEMMA Views ==
  ASSUME NEW n \in Node, NEW q \in Cube
  PROVE  /\ MasterView(n, q) \in Cube /\ MasterView(n, q) \subseteq q
         /\ MasterView(n, WorkerView(n, q)) = MasterView(n, q)
         /\ MasterView(n, MasterView(n, q)) = MasterView(n, q)
<1>1. MasterView(n, q) \in Cube /\ MasterView(n, q) \subseteq q
  BY ProjectType DEF MasterView, Project
<1>2. MasterView(n, MasterView(n, q)) = MasterView(n, q)
  BY DEF MasterView, Project
<1>3. CASE ForwardVars(n) # {}
  <2>1. ~Terminal(n)
    BY <1>3 DEF ForwardVars, Terminal
  <2> QED
    BY <1>1, <1>2, <1>3, <2>1 DEF MasterView, WorkerView
<1>4. CASE ForwardVars(n) = {}
  <2>1. CASE Terminal(n)
    BY <1>1, <1>2, <1>4, <2>1 DEF MasterView, WorkerView
  <2>2. CASE ~Terminal(n)
    <3>1. MasterView(n, WorkerView(n, q)) = {} /\ MasterView(n, q) = {}
      BY <1>4, <2>2 DEF MasterView, Project
    <3> QED
      BY <1>1, <1>2, <3>1
  <2> QED
    BY <2>1, <2>2
<1> QED
  BY <1>3, <1>4

\* When a message is covered by answers cut to what its node shows, any answer
\* a worker may still give is one of them, as far as the node shows it.
LEMMA PossibleIsCovered ==
  ASSUME NEW m \in Message, NEW found \in SUBSET Cube, Covered(m, found),
         \A q \in found : MasterView(m.to, q) = q,
         NEW p \in PossibleAnswers(m), NEW a \in TotalAssignments, p \subseteq a
  PROVE  \E q \in found : q \subseteq a
<1> DEFINE n == m.to
<1>1. n \in Node
  BY MessageToNode
<1>2. PICK r \in UNION {SUBSET t : t \in TotalAssignments} :
        /\ Satisfies(r, CompiledCnf(m, {}))
        /\ p = MasterView(n, WorkerView(n, r))
  BY DEF PossibleAnswers
<1>3. r \in Cube /\ Consistent(r)
  <2>1. PICK t \in TotalAssignments : r \subseteq t
    OBVIOUS
  <2> QED
    BY <2>1, TotalDecides DEF Cube, Consistent
<1>4. p = MasterView(n, r)
  BY <1>1, <1>2, <1>3, Views
<1>5. PICK b \in TotalAssignments : r \subseteq b /\ b \subseteq r \cup a
  BY <1>3, CubeExtends
<1>6. Satisfies(b, CompiledCnf(m, {}))
  BY <1>2, <1>5 DEF Satisfies
<1>7. PICK q \in found : q \subseteq b
  BY <1>6 DEF Covered
<1>8. q = MasterView(n, q)
  OBVIOUS
<1>9. ASSUME NEW l \in q, l \in r PROVE l \in p
  BY <1>4, <1>8, <1>9 DEF MasterView, Project
<1> QED
  BY <1>5, <1>7, <1>9

\* A message with a possible answer has a solution, so one that is covered by
\* no answers has no possible answer.
LEMMA PossibleIsSolution ==
  ASSUME NEW m \in Message, PossibleAnswers(m) # {}, NEW found, Covered(m, found)
  PROVE  found # {}
<1> PICK r \in UNION {SUBSET t : t \in TotalAssignments} : Satisfies(r, CompiledCnf(m, {}))
  BY DEF PossibleAnswers
<1>1. PICK t \in TotalAssignments : r \subseteq t
  OBVIOUS
<1>2. Satisfies(t, CompiledCnf(m, {}))
  BY <1>1 DEF Satisfies
<1> QED
  BY <1>2 DEF Covered

-----------------------------------------------------------------------------
(* The whole DAG                                                           *)

\* A set of natural numbers has a least element.
LEMMA LeastNatural ==
  ASSUME NEW S \in SUBSET Nat, S # {}
  PROVE  \E k \in S : \A j \in S : k <= j
<1> DEFINE R == OpToRel(<, Nat)
<1>1. IsWellFoundedOn(R, Nat)
  BY NatLessThanWellFounded
<1>2. \A j, k \in Nat : j < k => <<j, k>> \in R
  BY DEF OpToRel
<1> HIDE DEF R
<1>3. PICK k \in S : \A j \in S : ~ (<<j, k>> \in R)
  BY <1>1, WFMin
<1>4. ASSUME NEW j \in S PROVE k <= j
  <2>1. j < k => <<j, k>> \in R
    BY <1>2
  <2> QED
    BY <1>3, <2>1
<1> QED
  BY <1>4

\* A node depends on itself and on the parents of what it depends on; all that
\* it depends on is in its subgraph.
LEMMA Ancestors ==
  ASSUME NEW t \in Node
  PROVE  /\ t \in AncestorsAndSelf[t]
         /\ \A n \in AncestorsAndSelf[t] :
              n \in Node /\ Parents(n) \subseteq AncestorsAndSelf[t] /\ Subgraph[n] = Subgraph[t]
<1>1. t \in AncestorsAndSelf[t]
  BY DEF AncestorsAndSelf
<1>2. ASSUME NEW n \in AncestorsAndSelf[t]
      PROVE  n \in Node /\ Parents(n) \subseteq AncestorsAndSelf[t]
  <2>1. n \in Node
    BY DEF AncestorsAndSelf
  <2>2. ASSUME NEW p \in Parents(n), NEW S \in SUBSET Node,
               t \in S, \A c \in S : Parents(c) \subseteq S
        PROVE  p \in S
    <3>1. n \in S
      BY <2>2 DEF AncestorsAndSelf
    <3> QED
      BY <2>2, <3>1
  <2>3. \A p \in Parents(n) : p \in Node
    BY DEF Parents
  <2> QED
    BY <2>1, <2>2, <2>3 DEF AncestorsAndSelf
<1>3. ASSUME NEW n \in AncestorsAndSelf[t] PROVE Subgraph[n] = Subgraph[t]
  <2> DEFINE S == {k \in Node : Subgraph[k] = Subgraph[t]}
  <2>1. ASSUME NEW c \in S, NEW p \in Parents(c) PROVE p \in S
    <3>1. p \in Node /\ <<p, c>> \in Arc
      BY DEF Parents
    <3>2. Subgraph[p] = Subgraph[c]
      BY <3>1, DagAssumption
    <3> QED
      BY <3>1, <3>2
  <2>2. t \in S /\ S \in SUBSET Node
    OBVIOUS
  <2>3. n \in S
    BY <2>1, <2>2 DEF AncestorsAndSelf
  <2> QED
    BY <2>3
<1> QED
  BY <1>1, <1>2, <1>3

\* If every combination of answers, at every node that t depends on, has been
\* answered completely, then t has an answer within every solution of t: else
\* one of the shallowest nodes without would have a combination to go on.
LEMMA ClosedFindsAll ==
  ASSUME NEW found \in [Node -> SUBSET Cube], NEW t \in Node,
         \A n \in AncestorsAndSelf[t] : \A m \in Combinations(found, n) : Covered(m, found[n]),
         NEW a \in GlobalModels(t)
  PROVE  \E q \in found[t] : q \subseteq a
<1>1. a \in TotalAssignments /\ \A n \in AncestorsAndSelf[t] : Satisfies(a, Clauses[n])
  BY DEF GlobalModels
<1> DEFINE Lost == {n \in AncestorsAndSelf[t] : \A q \in found[n] : ~ (q \subseteq a)}
           Depths == {Depth[n] : n \in Lost}
<1>2. Lost = {}
  <2> SUFFICES ASSUME Lost # {} PROVE FALSE
    OBVIOUS
  <2>1. Depths \in SUBSET Nat /\ Depths # {}
    BY Ancestors, DagAssumption
  <2>2. PICK k \in Depths : \A j \in Depths : k <= j
    BY <2>1, LeastNatural
  <2>3. PICK n \in Lost : Depth[n] = k
    OBVIOUS
  <2>4. n \in AncestorsAndSelf[t] /\ n \in Node /\ Parents(n) \subseteq AncestorsAndSelf[t]
    BY Ancestors
  <2>5. ASSUME NEW p \in Parents(n) PROVE \E q \in found[p] : q \subseteq a
    <3>1. p \in Node /\ <<p, n>> \in Arc /\ p \in AncestorsAndSelf[t]
      BY <2>4 DEF Parents
    <3>2. Depth[p] < Depth[n] /\ Depth[p] \in Nat /\ Depth[n] \in Nat
      BY <2>4, <3>1, DagAssumption
    <3>3. p \notin Lost
      BY <2>2, <2>3, <3>2
    <3> QED
      BY <3>1, <3>3
  <2>6. PICK m \in Combinations(found, n) : Lits(m) \subseteq a
    BY <1>1, <2>4, <2>5, CombinationInside
  <2>7. Satisfies(a, CompiledCnf(m, {}))
    <3>1. m.to = n
      BY <2>4, CombinationsType
    <3>2. Satisfies(a, Clauses[n])
      BY <1>1, <2>4
    <3> QED
      BY <2>6, <3>1, <3>2 DEF Satisfies, CompiledCnf
  <2>8. Covered(m, found[n])
    BY <2>4
  <2> QED
    BY <1>1, <2>7, <2>8 DEF Covered
<1> QED
  BY <1>2, Ancestors
-----------------------------------------------------------------------------
(* The soundness of the answers                                            *)

\* An assignment can have a cube and, on some variables, the values of another
\* assignment that the cube does not contradict there.
LEMMA CubeAndValues ==
  ASSUME NEW q \in Cube, Consistent(q), NEW V, NEW t \in TotalAssignments,
         Project(q, V) \subseteq t
  PROVE  \E a \in TotalAssignments : q \subseteq a /\ Project(a, V) = Project(t, V)
<1> DEFINE c == q \cup Project(t, V)
<1>1. t \in Cube /\ Consistent(t) /\ \A l \in Literal : l \in t <=> -l \notin t
  BY TotalDecides
<1>2. c \in Cube
  BY <1>1, ProjectType DEF Cube
<1>3. Consistent(c)
  <2> SUFFICES ASSUME NEW l \in c, -l \in c PROVE FALSE
    BY DEF Consistent
  <2>1. l \in Literal /\ -l \in Literal /\ -(-l) = l
    BY <1>2, Literals DEF Cube
  <2>2. CASE l \in q /\ -l \in Project(t, V)
    BY <1>1, <2>1, <2>2 DEF Project
  <2>3. CASE -l \in q /\ l \in Project(t, V)
    <3>1. -l \in Project(q, V)
      BY <2>1, <2>3 DEF Project
    <3> QED
      BY <1>1, <2>1, <2>3, <3>1 DEF Project
  <2> QED
    BY <1>1, <2>2, <2>3 DEF Consistent, Project
<1>4. PICK a \in TotalAssignments : c \subseteq a
  BY <1>1, <1>2, <1>3, CubeExtends
<1>5. ASSUME NEW l \in Project(a, V) PROVE l \in Project(t, V)
  <2>1. l \in a /\ l \in Literal /\ (l \in V \/ -l \in V) /\ -(-l) = l
    BY TotalDecides, Literals DEF Project, Cube
  <2>2. -l \in Literal
    BY <2>1, Literals
  <2>3. -l \notin a
    BY <2>1, TotalDecides
  <2>4. -l \notin Project(t, V)
    BY <1>4, <2>3
  <2>5. -l \notin t
    BY <2>1, <2>4 DEF Project
  <2> QED
    BY <1>1, <2>1, <2>5 DEF Project
<1>6. ASSUME NEW l \in Project(t, V) PROVE l \in Project(a, V)
  BY <1>4 DEF Project
<1>7. q \subseteq a /\ Project(a, V) = Project(t, V)
  BY <1>4, <1>5, <1>6
<1> QED
  BY <1>7

\* What a node shows is a projection, to all that each of its arcs carries.
LEMMA ShownProjects ==
  ASSUME NEW n \in Node
  PROVE  /\ \A q : MasterView(n, q) = Project(q, Shown(n))
         /\ \A c \in Children(n) : ArcVars[<<n, c>>] \subseteq Shown(n)
<1>1. \A c \in Children(n) : ~Terminal(n)
  BY DEF Terminal
<1> QED
  BY <1>1 DEF MasterView, Shown, ForwardVars

\* Where two assignments show the same, they are the same on fewer variables.
LEMMA ProjectLess ==
  ASSUME NEW a, NEW t, NEW V, NEW W, W \subseteq V, Project(a, V) = Project(t, V)
  PROVE  Project(a, W) = Project(t, W)
BY DEF Project

\* If each answer answers a combination of answers and the DAG decomposes the
\* problem, then however the variables that an answer leaves out are chosen,
\* what it shows belongs to an assignment that satisfies its node and all that
\* depends on.  A shallowest answer without would be one to answers that have
\* such assignments, which meet in one.
LEMMA AnswersHaveModels ==
  ASSUME Decomposes, NEW found \in [Node -> SUBSET Cube],
         \A n \in Node : \A q \in found[n] :
           \E m \in Combinations(found, n) : q \in PossibleAnswers(m)
  PROVE  \A n \in Node : \A q \in found[n] : \A t \in TotalAssignments :
           q \subseteq t => \E a \in GlobalModels(n) : MasterView(n, a) = MasterView(n, t)
<1> DEFINE Meant(n) ==
             \A q \in found[n] : \A t \in TotalAssignments :
               q \subseteq t => \E a \in GlobalModels(n) : MasterView(n, a) = MasterView(n, t)
           Lost == {n \in Node : ~Meant(n)}
           Depths == {Depth[n] : n \in Lost}
<1> SUFFICES ASSUME Lost # {} PROVE FALSE
  OBVIOUS
<1>1. Depths \in SUBSET Nat /\ Depths # {}
  BY DagAssumption
<1>2. PICK k \in Depths : \A j \in Depths : k <= j
  BY <1>1, LeastNatural
<1>3. PICK n \in Lost : Depth[n] = k
  OBVIOUS
<1>4. n \in Node /\ ~Meant(n)
  OBVIOUS
<1>5. ASSUME NEW p \in Parents(n) PROVE p \in Node /\ Meant(p) /\ n \in Children(p)
  <2>1. p \in Node /\ <<p, n>> \in Arc
    BY DEF Parents
  <2>2. Depth[p] < Depth[n] /\ Depth[p] \in Nat /\ Depth[n] \in Nat
    BY <1>4, <2>1, DagAssumption
  <2>3. p \notin Lost
    BY <1>2, <1>3, <2>2
  <2> HIDE DEF Meant
  <2> QED
    BY <1>4, <2>1, <2>3 DEF Children
<1>6. PICK q \in found[n], t \in TotalAssignments :
        q \subseteq t /\ ~ \E a \in GlobalModels(n) : MasterView(n, a) = MasterView(n, t)
  BY <1>4
<1>7. PICK m \in Combinations(found, n) : q \in PossibleAnswers(m)
  BY <1>4
<1> HIDE DEF Meant
<1>8. m \in Message /\ m.to = n
  BY <1>4, CombinationsType
<1>9. PICK r \in UNION {SUBSET a : a \in TotalAssignments} :
        q = MasterView(n, WorkerView(n, r)) /\ Satisfies(r, CompiledCnf(m, {}))
  BY <1>7, <1>8 DEF PossibleAnswers
<1>10. r \in Cube /\ Consistent(r)
  BY TotalDecides DEF Consistent, Cube
<1>11. Project(r, Shown(n)) \subseteq t
  BY <1>4, <1>6, <1>9, <1>10, Views, ShownProjects
<1>12. PICK b \in TotalAssignments : r \subseteq b /\ MasterView(n, b) = MasterView(n, t)
  BY <1>4, <1>10, <1>11, CubeAndValues, ShownProjects
<1>13. Satisfies(b, Clauses[n]) /\ Lits(m) \subseteq b
  <2>1. \A c \in CompiledCnf(m, {}) : b \cap c # {}
    BY <1>9, <1>12 DEF Satisfies
  <2>2. \A l \in Lits(m) : {l} \in CompiledCnf(m, {})
    BY DEF CompiledCnf
  <2>3. ASSUME NEW l \in Lits(m) PROVE l \in b
    <3>1. b \cap {l} # {}
      BY <2>1, <2>2
    <3> QED
      BY <3>1
  <2> QED
    BY <1>8, <2>1, <2>3 DEF CompiledCnf, Satisfies
<1>14. ASSUME NEW p \in Parents(n)
       PROVE  \E a \in GlobalModels(p) :
                Project(a, ArcVars[<<p, n>>]) = Project(b, ArcVars[<<p, n>>])
  <2> DEFINE V == ArcVars[<<p, n>>]
  <2>1. p \in Node /\ Meant(p) /\ V \subseteq Shown(p)
    BY <1>5, ShownProjects
  <2>2. PICK o \in found[p] : m.parts[p] = Project(o, V)
    BY <1>4 DEF Combinations, Inbox
  <2>3. Project(o, V) \subseteq b
    <3>1. DOMAIN m.parts = Parents(n)
      BY <1>4 DEF Combinations
    <3> QED
      BY <1>13, <2>2, <3>1 DEF Lits
  <2>4. o \in Cube /\ Consistent(o)
    <3>1. PICK k1 \in Combinations(found, p) : o \in PossibleAnswers(k1)
      BY <2>1
    <3>2. k1 \in Message /\ k1.to = p
      BY <2>1, CombinationsType
    <3>3. PICK x \in UNION {SUBSET a : a \in TotalAssignments} :
            o = MasterView(p, WorkerView(p, x))
      BY <3>1, <3>2 DEF PossibleAnswers
    <3>4. x \in Cube /\ Consistent(x)
      BY TotalDecides DEF Consistent, Cube
    <3>5. o \subseteq x
      BY <2>1, <3>3, <3>4, Views
    <3> QED
      BY <3>4, <3>5 DEF Consistent, Cube
  <2>5. PICK u \in TotalAssignments : o \subseteq u /\ Project(u, V) = Project(b, V)
    BY <2>3, <2>4, CubeAndValues
  <2>6. PICK a \in GlobalModels(p) : MasterView(p, a) = MasterView(p, u)
    BY <2>1, <2>5 DEF Meant
  <2>7. Project(a, V) = Project(u, V)
    BY <2>1, <2>6, ShownProjects, ProjectLess
  <2> QED
    BY <2>5, <2>7
<1> QED
  BY <1>4, <1>6, <1>12, <1>13, <1>14 DEF Decomposes
\* What a node depends on is itself and what its parents depend on.
LEMMA AncestorsOfParents ==
  ASSUME NEW n \in Node, NEW k \in AncestorsAndSelf[n]
  PROVE  k = n \/ \E p \in Parents(n) : k \in AncestorsAndSelf[p]
<1> DEFINE S == {n} \cup UNION {AncestorsAndSelf[p] : p \in Parents(n)}
<1>1. \A p \in Parents(n) : p \in Node
  BY DEF Parents
<1>2. S \subseteq Node
  BY <1>1, Ancestors
<1>3. ASSUME NEW c \in S PROVE Parents(c) \subseteq S
  <2>1. CASE c = n
    BY <1>1, <2>1, Ancestors
  <2>2. CASE \E p \in Parents(n) : c \in AncestorsAndSelf[p]
    BY <1>1, <2>2, Ancestors
  <2> QED
    BY <2>1, <2>2
<1>4. n \in S
  OBVIOUS
<1> HIDE DEF S
<1>5. k \in S
  BY <1>2, <1>3, <1>4 DEF AncestorsAndSelf
<1> QED
  BY <1>5 DEF S

\* An assignment that agrees with one that satisfies some clauses, on what
\* they mention, satisfies them.
LEMMA MentionedSuffices ==
  ASSUME NEW n \in Node, NEW a \in TotalAssignments, NEW b \in TotalAssignments,
         Satisfies(a, Clauses[n]),
         \A v \in Mentioned(Clauses[n]) : v \in a <=> v \in b
  PROVE  Satisfies(b, Clauses[n])
<1> SUFFICES ASSUME NEW c \in Clauses[n] PROVE b \cap c # {}
  BY DEF Satisfies
<1>1. PICK l \in c : l \in a
  BY DEF Satisfies
<1>2. l \in Literal /\ -l \in Literal /\ -(-l) = l /\ (l \in Var \/ -l \in Var)
  BY <1>1, TotalDecides, Literals DEF Cube
<1>3. CASE l \in Var
  <2>1. l \in Mentioned(Clauses[n])
    BY <1>1, <1>3 DEF Mentioned
  <2> QED
    BY <1>1, <2>1
<1>4. CASE -l \in Var
  <2>1. -l \in Mentioned(Clauses[n])
    BY <1>1, <1>2, <1>4 DEF Mentioned
  <2>2. -l \notin a
    BY <1>1, <1>2, TotalDecides
  <2>3. l \in b
    BY <1>2, <2>1, <2>2, TotalDecides
  <2> QED
    BY <1>1, <2>3
<1> QED
  BY <1>2, <1>3, <1>4

\* Values of the variables, chosen one by one, are an assignment.
LEMMA AssignmentOf ==
  ASSUME NEW f \in [Var -> BOOLEAN]
  PROVE  \E b \in TotalAssignments : \A v \in Var : v \in b <=> f[v]
<1> DEFINE b == {IF f[v] THEN v ELSE -v : v \in Var}
<1>1. b \in TotalAssignments
  BY DEF TotalAssignments, Assignments
<1>2. ASSUME NEW v \in Var PROVE v \in b <=> f[v]
  <2>1. f[v] => v \in b
    OBVIOUS
  <2>2. ~f[v] => -v \in b
    OBVIOUS
  <2>3. v \in Literal
    BY DEF Literal
  <2> HIDE DEF b
  <2>4. v \in b => -v \notin b
    BY <1>1, <2>3, TotalDecides
  <2> QED
    BY <2>1, <2>2, <2>4
<1> QED
  BY <1>1, <1>2

\* Assignments show the same where they have the same values.
LEMMA SameValues ==
  ASSUME NEW a \in TotalAssignments, NEW b \in TotalAssignments, NEW V \in SUBSET Var
  PROVE  Project(a, V) = Project(b, V) <=> \A v \in V : v \in a <=> v \in b
<1>1. ASSUME Project(a, V) = Project(b, V), NEW v \in V PROVE v \in a <=> v \in b
  BY <1>1 DEF Project
<1>2. ASSUME \A v \in V : v \in a <=> v \in b,
             NEW l, l \in Literal, l \in V \/ -l \in V
      PROVE  l \in a <=> l \in b
  <2>1. -l \in Literal /\ -(-l) = l
    BY <1>2, Literals
  <2> QED
    BY <1>2, <2>1, TotalDecides
<1>3. \A l \in a \cup b : l \in Literal
  BY TotalDecides DEF Cube
<1> QED
  BY <1>1, <1>2, <1>3 DEF Project

\* If each arc carries what is shared, assignments of the parents that agree
\* with one of the node on the arcs can be put together: where none of them has
\* a say the node's assignment does.
LEMMA SharedDecomposes ==
  ASSUME SharedIsCarried
  PROVE  Decomposes
<1> SUFFICES ASSUME NEW n \in Node, NEW t \in TotalAssignments, Satisfies(t, Clauses[n]),
                    \A p \in Parents(n) : \E a \in GlobalModels(p) :
                      Project(a, ArcVars[<<p, n>>]) = Project(t, ArcVars[<<p, n>>])
             PROVE  \E a \in GlobalModels(n) : MasterView(n, a) = MasterView(n, t)
  BY DEF Decomposes
<1> DEFINE V(p) == ArcVars[<<p, n>>]
           model == [p \in Parents(n) |->
                       CHOOSE a \in GlobalModels(p) : Project(a, V(p)) = Project(t, V(p))]
           own == Mentioned(Clauses[n]) \cup Shown(n)
           above == {v \in Var : \E p \in Parents(n) : v \in MentionedAbove(p) \ own}
           true == {v \in above : \E p \in Parents(n) : v \in MentionedAbove(p) /\ v \in model[p]}
                     \cup (t \ above)
           f == [v \in Var |-> v \in true]
<1>1. ASSUME NEW p \in Parents(n)
      PROVE  /\ p \in Node /\ V(p) \in SUBSET Var
             /\ model[p] \in GlobalModels(p) /\ model[p] \in TotalAssignments
             /\ \A v \in V(p) : v \in model[p] <=> v \in t
             /\ MentionedAbove(p) \in SUBSET Var
  <2>1. p \in Node /\ V(p) \in SUBSET Var
    BY DagAssumption DEF Parents
  <2>2. model[p] \in GlobalModels(p) /\ Project(model[p], V(p)) = Project(t, V(p))
    OBVIOUS
  <2>3. model[p] \in TotalAssignments
    BY <2>2 DEF GlobalModels
  <2>4. MentionedAbove(p) \in SUBSET Var
    BY DEF MentionedAbove, Mentioned
  <2>5. \A v \in V(p) : v \in model[p] <=> v \in t
    BY <2>1, <2>2, <2>3, SameValues
  <2> HIDE DEF model
  <2> QED
    BY <2>1, <2>2, <2>3, <2>4, <2>5
<1>2. f \in [Var -> BOOLEAN]
  OBVIOUS
<1>3. PICK b \in TotalAssignments : \A v \in Var : v \in b <=> f[v]
  BY <1>2, AssignmentOf
<1>4. own \in SUBSET Var /\ Shown(n) \in SUBSET Var
  <2>1. \A c \in Children(n) : ArcVars[<<n, c>>] \in SUBSET Var
    BY DagAssumption DEF Children
  <2> QED
    BY <2>1, DagAssumption DEF Mentioned, Shown, ForwardVars
<1>5. ASSUME NEW p \in Parents(n), NEW v \in MentionedAbove(p)
      PROVE  /\ v \in own => v \in V(p)
             /\ \A o \in Parents(n) \ {p} : v \in MentionedAbove(o) => v \in V(p) /\ v \in V(o)
  BY DEF SharedIsCarried
<1> HIDE DEF own, model, V
<1>6. \A v \in own : v \in t <=> v \in b
  BY <1>3, <1>4
<1>7. ASSUME NEW p \in Parents(n), NEW v \in MentionedAbove(p)
      PROVE  v \in model[p] <=> v \in b
  <2>1. v \in Var
    BY <1>1
  <2>2. CASE v \in own
    BY <1>1, <1>5, <1>6, <2>2
  <2>3. CASE v \notin own
    <3>1. ASSUME NEW o \in Parents(n), v \in MentionedAbove(o)
          PROVE  v \in model[o] <=> v \in model[p]
      <4>1. o # p => v \in V(p) /\ v \in V(o)
        BY <1>5, <3>1
      <4> QED
        BY <1>1, <4>1
    <3>2. f[v] <=> v \in model[p]
      BY <2>1, <2>3, <3>1
    <3> QED
      BY <1>3, <2>1, <3>2
  <2> QED
    BY <2>2, <2>3
<1>8. Satisfies(b, Clauses[n])
  BY <1>6, MentionedSuffices DEF own
<1>9. ASSUME NEW p \in Parents(n), NEW k \in AncestorsAndSelf[p]
      PROVE  Satisfies(b, Clauses[k])
  <2>1. k \in Node /\ Satisfies(model[p], Clauses[k])
    BY <1>1, Ancestors DEF GlobalModels
  <2>2. \A v \in Mentioned(Clauses[k]) : v \in MentionedAbove(p)
    BY DEF MentionedAbove
  <2> QED
    BY <1>1, <1>7, <2>1, <2>2, MentionedSuffices
<1>10. b \in GlobalModels(n)
  <2>1. \A k \in AncestorsAndSelf[n] : Satisfies(b, Clauses[k])
    BY <1>8, <1>9, AncestorsOfParents
  <2> QED
    BY <2>1 DEF GlobalModels
<1>11. MasterView(n, b) = MasterView(n, t)
  <2>1. \A v \in Shown(n) : v \in b <=> v \in t
    BY <1>6 DEF own
  <2> QED
    BY <1>4, <2>1, SameValues, ShownProjects
<1> QED
  BY <1>10, <1>11
=============================================================================
