------------------------------ MODULE TableProofs ------------------------------
(***************************************************************************)
(* Proofs that the table of solutions (TableSolutions.cpp) is the store    *)
(* that the master relies on, for any DAG: its lists of assignments are    *)
(* the answers as the arcs show them, its index tuples are the messages    *)
(* that were given out, and nothing is given out twice or kept back.       *)
(***************************************************************************)
EXTENDS TableSolutions, DagProblemProofs, SequenceTheorems, FiniteSetTheorems, TLAPS

-----------------------------------------------------------------------------
(* The inductive invariant                                                 *)

Elements(s) == {s[k] : k \in DOMAIN s}
DuplicateFree(s) == \A j, k \in DOMAIN s : s[j] = s[k] => j = k

TypeOK ==
  /\ messages \in [Node \X Node -> Seq(Cube)]
  /\ completed_combinations \in [Node -> SUBSET UNION {[Sources(n) -> Nat] : n \in Node}]
  /\ additional_clauses \in [Node -> SUBSET Cube]
  /\ inputs \in [Node -> SUBSET Cube]

\* The list of an arc is what the answers show along it, each once.
ListsAreInboxes ==
  /\ \A c \in Arc : /\ Elements(messages[c]) = Inbox(inputs, c[1], c[2])
                    /\ DuplicateFree(messages[c])
  /\ \A n \in Node : Parents(n) = {} => messages[<<n, n>>] = <<{}>>

\* What was given out could still be, as far as the lists go.
CompletedAreTuples == \A n \in Node : completed_combinations[n] \subseteq Tuples(n)

TableInv ==
  /\ TypeOK
  /\ ListsAreInboxes
  /\ CompletedAreTuples
  /\ ClausesExcludeAnswers

-----------------------------------------------------------------------------
(* The store speaks of the same things                                     *)

\* The instance of the abstract store has the operators of the table.
LEMMA StoreTerms ==
  /\ \A found, n : Store!Combinations(found, n) = Combinations(found, n)
  /\ \A m : Store!PossibleAnswers(m) = PossibleAnswers(m)
  /\ \A n, q : Store!MasterView(n, q) = MasterView(n, q)
  /\ \A q : Store!Negated(q) = Negated(q)
<1>1. /\ \A n : Store!Parents(n) = Parents(n) /\ Store!Children(n) = Children(n)
      /\ \A q, V : Store!Project(q, V) = Project(q, V)
      /\ \A q : Store!Consistent(q) = Consistent(q) /\ Store!Negated(q) = Negated(q)
      /\ \A m : Store!Lits(m) = Lits(m)
      /\ Store!TotalAssignments = TotalAssignments
  BY DEF Store!Parents, Parents, Store!Children, Children, Store!Project, Project,
         Store!Consistent, Consistent, Store!Negated, Negated, Store!Lits, Lits,
         Store!TotalAssignments, TotalAssignments, Store!Assignments, Assignments
<1>2. /\ \A q, cnf : Store!Satisfies(q, cnf) = Satisfies(q, cnf)
      /\ \A m, additional : Store!CompiledCnf(m, additional) = CompiledCnf(m, additional)
  BY <1>1 DEF Store!Satisfies, Satisfies, Store!CompiledCnf, CompiledCnf
<1>3. ASSUME NEW found, NEW n
      PROVE  Store!Combinations(found, n) = Combinations(found, n)
  <2>1. \A p : Store!Inbox(found, p, n) = Inbox(found, p, n)
    BY <1>1 DEF Store!Inbox, Inbox
  <2> QED
    BY <1>1, <2>1 DEF Store!Combinations, Combinations
<1>4. \A n : Store!Terminal(n) = Terminal(n) /\ Store!ForwardVars(n) = ForwardVars(n)
  BY <1>1 DEF Store!Terminal, Terminal, Store!ForwardVars, ForwardVars
<1>5. \A n, q : /\ Store!WorkerView(n, q) = WorkerView(n, q)
                /\ Store!MasterView(n, q) = MasterView(n, q)
  BY <1>1, <1>4 DEF Store!WorkerView, WorkerView, Store!MasterView, MasterView
<1>6. \A m : Store!PossibleAnswers(m) = PossibleAnswers(m)
  BY <1>1, <1>2, <1>5 DEF Store!PossibleAnswers, PossibleAnswers
<1> QED
  BY <1>1, <1>3, <1>5, <1>6

-----------------------------------------------------------------------------
(* The lists                                                               *)

\* An assignment is added once, at the end.
LEMMA AddPartGrows ==
  ASSUME NEW list \in Seq(Cube), NEW part \in Cube
  PROVE  /\ AddPart(list, part) \in Seq(Cube)
         /\ Elements(AddPart(list, part)) = Elements(list) \cup {part}
         /\ DuplicateFree(list) => DuplicateFree(AddPart(list, part))
         /\ \A k \in DOMAIN list : /\ k \in DOMAIN AddPart(list, part)
                                   /\ AddPart(list, part)[k] = list[k]
<1>1. CASE \E k \in DOMAIN list : list[k] = part
  BY <1>1 DEF AddPart, Elements
<1>2. CASE ~ \E k \in DOMAIN list : list[k] = part
  <2> DEFINE t == Append(list, part)
  <2>1. AddPart(list, part) = t
    BY <1>2 DEF AddPart
  <2>2. /\ Len(list) \in Nat /\ DOMAIN list = 1 .. Len(list) /\ DOMAIN t = 1 .. Len(list) + 1
        /\ t \in Seq(Cube) /\ t[Len(list) + 1] = part
        /\ \A k \in 1 .. Len(list) : t[k] = list[k]
    OBVIOUS
  <2> HIDE DEF t
  <2>3. Elements(t) = Elements(list) \cup {part}
    <3>1. ASSUME NEW x \in Elements(t) PROVE x \in Elements(list) \cup {part}
      <4>1. PICK k \in 1 .. Len(list) + 1 : x = t[k]
        BY <2>2 DEF Elements
      <4>2. CASE k = Len(list) + 1
        BY <2>2, <4>1, <4>2
      <4>3. CASE k # Len(list) + 1
        <5>1. k \in DOMAIN list
          BY <2>2, <4>3
        <5> QED
          BY <2>2, <4>1, <5>1 DEF Elements
      <4> QED
        BY <4>2, <4>3
    <3>2. part \in Elements(t)
      <4>1. Len(list) + 1 \in DOMAIN t
        BY <2>2
      <4> QED
        BY <2>2, <4>1 DEF Elements
    <3>3. ASSUME NEW x \in Elements(list) PROVE x \in Elements(t)
      <4>1. PICK k \in DOMAIN list : x = list[k]
        BY DEF Elements
      <4>2. k \in DOMAIN t /\ t[k] = x
        BY <2>2, <4>1
      <4> QED
        BY <4>2 DEF Elements
    <3> QED
      BY <3>1, <3>2, <3>3
  <2>4. ASSUME DuplicateFree(list) PROVE DuplicateFree(t)
    <3> SUFFICES ASSUME NEW j \in DOMAIN t, NEW k \in DOMAIN t, t[j] = t[k], j # k
                 PROVE  FALSE
      BY DEF DuplicateFree
    <3>1. \A i \in DOMAIN t : i \in DOMAIN list \/ i = Len(list) + 1
      BY <2>2
    <3> QED
      BY <1>2, <2>2, <2>4, <3>1 DEF DuplicateFree
  <2> QED
    BY <2>1, <2>2, <2>3, <2>4
<1> QED
  BY <1>1, <1>2

\* A base node is its own source and no arc leads to it; another node has its
\* parents for sources.
LEMMA SourcesAre ==
  ASSUME NEW n \in Node
  PROVE  /\ <<n, n>> \notin Arc
         /\ Parents(n) # {} => Sources(n) = Parents(n)
         /\ Parents(n) = {} => Sources(n) = {n}
         /\ \A p \in Sources(n) : p \in Node
         /\ \A p \in Parents(n) : p \in Node /\ <<p, n>> \in Arc
<1>1. <<n, n>> \notin Arc
  BY DagAssumption
<1> QED
  BY <1>1 DEF Sources, Parents

-----------------------------------------------------------------------------
(* Tuples and messages                                                     *)

\* A tuple is a combination of the answers.
LEMMA TupleIsCombination ==
  ASSUME TypeOK, ListsAreInboxes, NEW n \in Node, NEW t \in Tuples(n)
  PROVE  MessageOf(n, t) \in Combinations(inputs, n) /\ MessageOf(n, t).to = n
<1> DEFINE m == MessageOf(n, t)
<1>1. /\ DOMAIN t = Sources(n) /\ Compatible(n, t)
      /\ \A p \in Sources(n) : t[p] \in DOMAIN messages[<<p, n>>]
  BY DEF Tuples
<1>2. m.to = n /\ m.parts = [p \in Parents(n) |-> Part(n, t, p)] /\ m = [to |-> n, parts |-> m.parts]
  BY DEF MessageOf
<1>3. ASSUME NEW p \in Parents(n) PROVE Part(n, t, p) \in Inbox(inputs, p, n)
  <2>1. t[p] \in DOMAIN messages[<<p, n>>] /\ <<p, n>> \in Arc
    BY <1>1, SourcesAre
  <2>2. Elements(messages[<<p, n>>]) = Inbox(inputs, p, n)
    BY <2>1 DEF ListsAreInboxes
  <2> QED
    BY <2>1, <2>2 DEF Part, Elements
<1>4. m.parts \in [Parents(n) -> UNION {Inbox(inputs, p, n) : p \in Parents(n)}]
  BY <1>2, <1>3
<1>5. Consistent(Lits(m))
  <2>1. CASE Parents(n) = {}
    BY <1>2, <2>1 DEF Lits, Consistent
  <2>2. CASE Parents(n) # {}
    <3>1. DOMAIN t = Parents(n)
      BY <1>1, <2>2, SourcesAre
    <3>2. Lits(m) = UNION {Part(n, t, p) : p \in DOMAIN t}
      BY <1>2, <3>1 DEF Lits
    <3> QED
      BY <1>1, <3>2 DEF Compatible
  <2> QED
    BY <2>1, <2>2
<1> HIDE DEF m
<1>6. m \in [to : {n}, parts : [Parents(n) -> UNION {Inbox(inputs, p, n) : p \in Parents(n)}]]
  BY <1>2, <1>4
<1>7. \A p \in Parents(n) : m.parts[p] \in Inbox(inputs, p, n)
  BY <1>2, <1>3
<1>8. m \in Combinations(inputs, n)
  BY <1>5, <1>6, <1>7 DEF Combinations
<1> QED
  BY <1>2, <1>8 DEF m

\* And every combination is that of a tuple.
LEMMA CombinationIsTuple ==
  ASSUME TypeOK, ListsAreInboxes, NEW n \in Node, NEW m \in Combinations(inputs, n)
  PROVE  \E t \in Tuples(n) : MessageOf(n, t) = m
<1>1. /\ m \in [to : {n}, parts : [Parents(n) -> UNION {Inbox(inputs, p, n) : p \in Parents(n)}]]
      /\ \A p \in Parents(n) : m.parts[p] \in Inbox(inputs, p, n)
      /\ Consistent(Lits(m))
  BY DEF Combinations
<1>2. /\ m = [to |-> n, parts |-> m.parts]
      /\ m.parts = [p \in Parents(n) |-> m.parts[p]]
  BY <1>1
<1> DEFINE list(p) == messages[<<p, n>>]
           found(p) == CHOOSE k \in DOMAIN list(p) : list(p)[k] = m.parts[p]
           t == [p \in Sources(n) |-> IF Parents(n) = {} THEN 1 ELSE found(p)]
<1>3. ASSUME NEW p \in Parents(n)
      PROVE  found(p) \in DOMAIN list(p) /\ list(p)[found(p)] = m.parts[p]
  <2>1. Elements(list(p)) = Inbox(inputs, p, n)
    BY SourcesAre DEF ListsAreInboxes
  <2> QED
    BY <1>1, <2>1 DEF Elements
<1>4. CASE Parents(n) = {}
  <2>1. t = [p \in {n} |-> 1] /\ Sources(n) = {n} /\ list(n) = <<{}>>
    BY <1>4, SourcesAre DEF ListsAreInboxes
  <2>2. DOMAIN list(n) = {1} /\ list(n)[1] = {}
    BY <2>1
  <2> HIDE DEF t, list
  <2>3. \A p \in Sources(n) : t[p] = 1 /\ t[p] \in DOMAIN messages[<<p, n>>]
    BY <2>1, <2>2 DEF list
  <2>4. t \in [Sources(n) -> UNION {DOMAIN messages[<<p, n>>] : p \in Sources(n)}]
    BY <2>1, <2>3
  <2>5. Compatible(n, t)
    <3>1. \A p \in DOMAIN t : Part(n, t, p) = {}
      BY <2>1, <2>2, <2>3 DEF Part, list
    <3> QED
      BY <3>1 DEF Compatible, Consistent
  <2>6. MessageOf(n, t) = m
    BY <1>2, <1>4 DEF MessageOf
  <2> QED
    BY <2>3, <2>4, <2>5, <2>6 DEF Tuples
<1>5. CASE Parents(n) # {}
  <2> HIDE DEF found
  <2>1. t = [p \in Parents(n) |-> found(p)] /\ Sources(n) = Parents(n)
    BY <1>5, SourcesAre
  <2>2. \A p \in Parents(n) : t[p] \in DOMAIN messages[<<p, n>>] /\ Part(n, t, p) = m.parts[p]
    BY <1>3, <2>1 DEF Part
  <2>3. DOMAIN t = Parents(n)
    BY <2>1
  <2> HIDE DEF t
  <2>4. t \in [Sources(n) -> UNION {DOMAIN messages[<<p, n>>] : p \in Sources(n)}]
    BY <2>1, <2>2
  <2>5. Compatible(n, t)
    <3>1. Lits(m) = UNION {Part(n, t, p) : p \in DOMAIN t}
      BY <1>2, <2>2, <2>3 DEF Lits
    <3> QED
      BY <1>1, <3>1 DEF Compatible
  <2>6. MessageOf(n, t) = m
    <3>1. [p \in Parents(n) |-> Part(n, t, p)] = m.parts
      BY <1>2, <2>2
    <3> QED
      BY <1>2, <3>1 DEF MessageOf
  <2> QED
    BY <2>1, <2>2, <2>4, <2>5, <2>6 DEF Tuples
<1> QED
  BY <1>4, <1>5

\* No two tuples stand for the same message: there are no duplicates to take.
LEMMA TuplesDiffer ==
  ASSUME TypeOK, ListsAreInboxes, NEW n \in Node, NEW t \in Tuples(n), NEW u \in Tuples(n),
         MessageOf(n, t) = MessageOf(n, u)
  PROVE  t = u
<1>1. /\ t = [p \in Sources(n) |-> t[p]] /\ u = [p \in Sources(n) |-> u[p]]
      /\ \A p \in Sources(n) : /\ t[p] \in DOMAIN messages[<<p, n>>]
                               /\ u[p] \in DOMAIN messages[<<p, n>>]
  BY DEF Tuples
<1>2. ASSUME NEW p \in Sources(n) PROVE t[p] = u[p]
  <2>1. CASE Parents(n) = {}
    <3>1. p = n /\ messages[<<n, n>>] = <<{}>>
      BY <2>1, SourcesAre DEF ListsAreInboxes
    <3>2. DOMAIN messages[<<n, n>>] = {1}
      BY <3>1
    <3> QED
      BY <1>1, <3>1, <3>2
  <2>2. CASE Parents(n) # {}
    <3>1. p \in Parents(n) /\ DuplicateFree(messages[<<p, n>>])
      <4>1. p \in Parents(n)
        BY <2>2, SourcesAre
      <4> QED
        <5>1. <<p, n>> \in Arc
          BY <4>1 DEF Parents
        <5> QED
          BY <4>1, <5>1 DEF ListsAreInboxes
    <3>2. MessageOf(n, t).parts[p] = Part(n, t, p) /\ MessageOf(n, u).parts[p] = Part(n, u, p)
      BY <3>1 DEF MessageOf
    <3>3. messages[<<p, n>>][t[p]] = messages[<<p, n>>][u[p]]
      BY <3>2 DEF Part
    <3> QED
      BY <1>1, <3>1, <3>3 DEF DuplicateFree
  <2> QED
    BY <2>1, <2>2
<1> QED
  BY <1>1, <1>2

-----------------------------------------------------------------------------
(* The invariant holds at the start and is kept by every step              *)

\* An empty table, with one way to begin at the nodes without parents.
LEMMA InitTable == Init => TableInv
<1> SUFFICES ASSUME Init PROVE TableInv
  OBVIOUS
<1>1. /\ completed_combinations = [n \in Node |-> {}] /\ additional_clauses = [n \in Node |-> {}]
      /\ inputs = [n \in Node |-> {}]
      /\ \A c \in Node \X Node :
           messages[c] = IF c[1] = c[2] /\ Parents(c[1]) = {} THEN <<{}>> ELSE <<>>
      /\ DOMAIN messages = Node \X Node
      /\ messages = [c \in Node \X Node |-> messages[c]]
  BY DEF Init
<1>2. <<{}>> \in Seq(Cube) /\ <<>> \in Seq(Cube)
  BY EmptySeq DEF Cube
<1>3. TypeOK
  BY <1>1, <1>2 DEF TypeOK
<1>4. ASSUME NEW c \in Arc
      PROVE  Elements(messages[c]) = Inbox(inputs, c[1], c[2]) /\ DuplicateFree(messages[c])
  <2>1. c \in Node \X Node /\ c[1] # c[2] /\ c[1] \in Node
    BY DagAssumption
  <2>2. messages[c] = <<>>
    BY <1>1, <2>1
  <2>3. inputs[c[1]] = {}
    BY <1>1, <2>1
  <2> QED
    BY <2>2, <2>3 DEF Elements, DuplicateFree, Inbox
<1>5. ASSUME NEW n \in Node, Parents(n) = {} PROVE messages[<<n, n>>] = <<{}>>
  BY <1>1, <1>5
<1>6. CompletedAreTuples
  BY <1>1 DEF CompletedAreTuples
<1>7. ClausesExcludeAnswers
  BY <1>1 DEF ClausesExcludeAnswers, Satisfies, Store!AdditionalClauses
<1> QED
  BY <1>3, <1>4, <1>5, <1>6, <1>7 DEF TableInv, ListsAreInboxes

\* An answer goes to the end of the lists of the arcs from its node.
LEMMA InputLists ==
  ASSUME TableInv, NEW n \in Node, NEW q \in Cube, Input(n, q)
  PROVE  /\ TypeOK'
         /\ ListsAreInboxes'
         /\ \A c \in Node \X Node : \A k \in DOMAIN messages[c] :
              k \in DOMAIN messages'[c] /\ messages'[c][k] = messages[c][k]
<1> DEFINE view == MasterView(n, q)
<1> USE DEF TableInv
<1>1. /\ inputs' = [inputs EXCEPT ![n] = @ \cup {view}]
      /\ additional_clauses' =
           [additional_clauses EXCEPT ![n] = WithClause(@, Negated(view))]
      /\ messages' =
           [c \in Node \X Node |->
              IF c[1] = n /\ c \in Arc
              THEN AddPart(messages[c], Project(view, ArcVars[c]))
              ELSE messages[c]]
      /\ UNCHANGED completed_combinations
  BY DEF Input
<1>2. view \in Cube
  BY ProjectType DEF MasterView
<1> HIDE DEF view
<1>3. ASSUME NEW c \in Node \X Node, c[1] = n, c \in Arc
      PROVE  /\ messages'[c] \in Seq(Cube)
             /\ Elements(messages'[c]) = Elements(messages[c]) \cup {Project(view, ArcVars[c])}
             /\ DuplicateFree(messages[c]) => DuplicateFree(messages'[c])
             /\ \A k \in DOMAIN messages[c] :
                  k \in DOMAIN messages'[c] /\ messages'[c][k] = messages[c][k]
  <2> DEFINE list == messages[c]
             part == Project(view, ArcVars[c])
  <2>1. messages'[c] = AddPart(list, part)
    BY <1>1, <1>3
  <2>2. list \in Seq(Cube) /\ part \in Cube
    BY <1>2, ProjectType DEF TypeOK
  <2> HIDE DEF list, part
  <2>3. /\ AddPart(list, part) \in Seq(Cube)
        /\ Elements(AddPart(list, part)) = Elements(list) \cup {part}
        /\ DuplicateFree(list) => DuplicateFree(AddPart(list, part))
        /\ \A k \in DOMAIN list : /\ k \in DOMAIN AddPart(list, part)
                                  /\ AddPart(list, part)[k] = list[k]
    BY <2>2, AddPartGrows
  <2> QED
    BY <2>1, <2>3 DEF list, part
<1>4. \A c \in Node \X Node : ~ (c[1] = n /\ c \in Arc) => messages'[c] = messages[c]
  BY <1>1
<1>5. TypeOK'
  <2>1. messages' \in [Node \X Node -> Seq(Cube)]
    <3>1. \A c \in Node \X Node : messages'[c] \in Seq(Cube)
      BY <1>3, <1>4 DEF TypeOK
    <3>2. DOMAIN messages' = Node \X Node /\ messages' = [c \in Node \X Node |-> messages'[c]]
      BY <1>1
    <3> QED
      BY <3>1, <3>2
  <2>2. \A cls \in SUBSET Cube : WithClause(cls, Negated(view)) \in SUBSET Cube
    BY <1>2, NegatedType DEF WithClause
  <2>3. additional_clauses' \in [Node -> SUBSET Cube]
    BY <1>1, <2>2 DEF TypeOK
  <2>4. inputs' \in [Node -> SUBSET Cube]
    BY <1>1, <1>2 DEF TypeOK
  <2> QED
    BY <1>1, <2>1, <2>3, <2>4 DEF TypeOK
<1>6. ASSUME NEW c \in Arc
      PROVE  Elements(messages'[c]) = Inbox(inputs', c[1], c[2]) /\ DuplicateFree(messages'[c])
  <2>1. c \in Node \X Node /\ c = <<c[1], c[2]>> /\ c[1] \in Node
    BY DagAssumption
  <2>2. Elements(messages[c]) = Inbox(inputs, c[1], c[2]) /\ DuplicateFree(messages[c])
    BY DEF ListsAreInboxes
  <2>3. CASE c[1] = n
    <3>1. inputs'[n] = inputs[n] \cup {view}
      BY <1>1 DEF TypeOK
    <3>2. Inbox(inputs', n, c[2]) = Inbox(inputs, n, c[2]) \cup {Project(view, ArcVars[c])}
      BY <2>1, <2>3, <3>1 DEF Inbox
    <3> QED
      BY <1>3, <2>1, <2>2, <2>3, <3>2
  <2>4. CASE c[1] # n
    <3>1. inputs'[c[1]] = inputs[c[1]]
      BY <1>1, <2>1, <2>4 DEF TypeOK
    <3>2. Inbox(inputs', c[1], c[2]) = Inbox(inputs, c[1], c[2])
      BY <3>1 DEF Inbox
    <3> QED
      BY <1>4, <2>1, <2>2, <2>4, <3>2
  <2> QED
    BY <2>3, <2>4
<1>7. ASSUME NEW k \in Node, Parents(k) = {} PROVE messages'[<<k, k>>] = <<{}>>
  BY <1>4, <1>7, SourcesAre DEF ListsAreInboxes
<1>8. \A c \in Node \X Node : \A k \in DOMAIN messages[c] :
        k \in DOMAIN messages'[c] /\ messages'[c][k] = messages[c][k]
  BY <1>3, <1>4
<1> QED
  BY <1>5, <1>6, <1>7, <1>8 DEF ListsAreInboxes

\* So the tuples that were given out still stand for the same messages.
LEMMA TuplesStay ==
  ASSUME TypeOK, NEW n \in Node, NEW t \in Tuples(n),
         \A c \in Node \X Node : \A k \in DOMAIN messages[c] :
           k \in DOMAIN messages'[c] /\ messages'[c][k] = messages[c][k]
  PROVE  t \in Tuples(n)' /\ MessageOf(n, t)' = MessageOf(n, t)
<1>1. /\ t = [p \in Sources(n) |-> t[p]] /\ DOMAIN t = Sources(n)
      /\ \A p \in Sources(n) : t[p] \in DOMAIN messages[<<p, n>>]
      /\ Compatible(n, t)
  BY DEF Tuples
<1>2. ASSUME NEW p \in Sources(n)
      PROVE  t[p] \in DOMAIN messages'[<<p, n>>] /\ Part(n, t, p)' = Part(n, t, p)
  <2>1. <<p, n>> \in Node \X Node
    BY SourcesAre
  <2> QED
    BY <1>1, <2>1 DEF Part
<1>3. \A p \in Parents(n) : p \in Sources(n)
  BY SourcesAre
<1>4. MessageOf(n, t)' = MessageOf(n, t)
  BY <1>2, <1>3 DEF MessageOf
<1>5. Compatible(n, t)'
  <2>1. {Part(n, t, p)' : p \in DOMAIN t} = {Part(n, t, p) : p \in DOMAIN t}
    BY <1>1, <1>2
  <2> QED
    BY <1>1, <2>1 DEF Compatible
<1>6. t \in [Sources(n) -> UNION {DOMAIN messages'[<<p, n>>] : p \in Sources(n)}]
  <2> DEFINE U == UNION {DOMAIN messages'[<<p, n>>] : p \in Sources(n)}
  <2>1. \A p \in Sources(n) : t[p] \in U
    BY <1>2
  <2> HIDE DEF U
  <2>2. t \in [Sources(n) -> U]
    BY <1>1, <2>1
  <2> QED
    BY <2>2 DEF U
<1>7. t \in Tuples(n)'
  BY <1>2, <1>5, <1>6 DEF Tuples
<1> QED
  BY <1>4, <1>7

\* A clause that is left out is implied by the one that is already there.
LEMMA ClauseImplied ==
  ASSUME NEW cls, NEW d, NEW a, d # {}
  PROVE  Satisfies(a, WithClause(cls, d)) <=> Satisfies(a, cls) /\ a \cap d # {}
BY DEF Satisfies, WithClause, Identical, PrefixClause

\* An answer is registered: the lists grow at their ends and the clauses follow.
LEMMA InputTable ==
  ASSUME TableInv, NEW n \in Node, NEW q \in Cube, Input(n, q)
  PROVE  TableInv' /\ \A k \in Node : GivenOut(k)' = GivenOut(k)
<1> USE DEF TableInv
<1> DEFINE view == MasterView(n, q)
<1>1. /\ TypeOK' /\ ListsAreInboxes'
      /\ \A c \in Node \X Node : \A k \in DOMAIN messages[c] :
           k \in DOMAIN messages'[c] /\ messages'[c][k] = messages[c][k]
  BY InputLists
<1>2. /\ inputs' = [inputs EXCEPT ![n] = @ \cup {view}]
      /\ additional_clauses' =
           [additional_clauses EXCEPT ![n] = WithClause(@, Negated(view))]
      /\ UNCHANGED completed_combinations
  BY DEF Input
<1> HIDE DEF view
<1>3. \A k \in Node : \A t \in completed_combinations[k] :
        t \in Tuples(k)' /\ MessageOf(k, t)' = MessageOf(k, t)
  BY <1>1, TuplesStay DEF CompletedAreTuples
<1>4. CompletedAreTuples'
  BY <1>2, <1>3 DEF CompletedAreTuples
<1>5. \A k \in Node : GivenOut(k)' = GivenOut(k)
  BY <1>2, <1>3 DEF GivenOut
<1>6. ClausesExcludeAnswers'
  <2> SUFFICES ASSUME NEW k \in Node, NEW a \in TotalAssignments
               PROVE  Satisfies(a, additional_clauses'[k])
                        <=> Satisfies(a, Store!AdditionalClauses(k)')
    BY DEF ClausesExcludeAnswers
  <2>1. Satisfies(a, additional_clauses[k]) <=> Satisfies(a, Store!AdditionalClauses(k))
    BY DEF ClausesExcludeAnswers
  <2>2. CASE k # n
    <3>1. additional_clauses'[k] = additional_clauses[k] /\ inputs'[k] = inputs[k]
      BY <1>2, <2>2 DEF TypeOK
    <3> QED
      BY <2>1, <3>1 DEF Store!AdditionalClauses
  <2>3. CASE k = n
    <3> DEFINE d == Negated(view)
    <3>1. /\ additional_clauses'[k] = WithClause(additional_clauses[k], d)
          /\ inputs'[k] = inputs[k] \cup {view}
      BY <1>2, <2>3 DEF TypeOK
    <3>2. CASE view = {}
      <4>1. d = {}
        BY <3>2 DEF Negated
      <4>2. additional_clauses'[k] = additional_clauses[k]
        BY <3>1, <4>1 DEF WithClause
      <4>3. Store!AdditionalClauses(k)' = Store!AdditionalClauses(k)
        BY <3>1, <3>2 DEF Store!AdditionalClauses
      <4> QED
        BY <2>1, <4>2, <4>3
    <3>3. CASE view # {}
      <4>1. d # {}
        BY <3>3 DEF Negated
      <4>2. Store!AdditionalClauses(k)' = Store!AdditionalClauses(k) \cup {d}
        BY <3>1, <3>3, StoreTerms DEF Store!AdditionalClauses
      <4> HIDE DEF d
      <4>3. Satisfies(a, additional_clauses'[k]) <=>
              Satisfies(a, additional_clauses[k]) /\ a \cap d # {}
        BY <3>1, <4>1, ClauseImplied
      <4>4. Satisfies(a, Store!AdditionalClauses(k)') <=>
              Satisfies(a, Store!AdditionalClauses(k)) /\ a \cap d # {}
        BY <4>2 DEF Satisfies
      <4> QED
        BY <2>1, <4>3, <4>4
    <3> QED
      BY <3>2, <3>3
  <2> QED
    BY <2>2, <2>3
<1> QED
  BY <1>1, <1>4, <1>5, <1>6

\* What is given out is one more tuple, and so one more message.
LEMMA OutputTable ==
  ASSUME TableInv, NEW n \in Node, NEW t \in NewTuples(n),
         completed_combinations' = [completed_combinations EXCEPT ![n] = @ \cup {t}],
         UNCHANGED <<messages, additional_clauses, inputs>>
  PROVE  /\ TableInv'
         /\ GivenOut(n)' = GivenOut(n) \cup {MessageOf(n, t)}
         /\ \A k \in Node \ {n} : GivenOut(k)' = GivenOut(k)
<1> USE DEF TableInv
<1>1. /\ completed_combinations'[n] = completed_combinations[n] \cup {t}
      /\ \A k \in Node \ {n} : completed_combinations'[k] = completed_combinations[k]
      /\ t \in Tuples(n)
  BY DEF TypeOK, NewTuples
<1>2. \A k : Tuples(k)' = Tuples(k) /\ \A u : MessageOf(k, u)' = MessageOf(k, u)
  BY DEF Tuples, Compatible, MessageOf, Part
<1>3. TypeOK'
  <2> DEFINE U == UNION {[Sources(k) -> Nat] : k \in Node}
  <2>1. t \in [Sources(n) -> Nat]
    <3>1. /\ t = [p \in Sources(n) |-> t[p]]
          /\ \A p \in Sources(n) : t[p] \in DOMAIN messages[<<p, n>>]
      BY <1>1 DEF Tuples
    <3>2. ASSUME NEW p \in Sources(n) PROVE t[p] \in Nat
      <4>1. <<p, n>> \in Node \X Node
        BY SourcesAre
      <4>2. DOMAIN messages[<<p, n>>] \subseteq Nat
        <5> DEFINE list == messages[<<p, n>>]
        <5>1. list \in Seq(Cube)
          BY <4>1 DEF TypeOK
        <5> HIDE DEF list
        <5>2. DOMAIN list = 1 .. Len(list) /\ Len(list) \in Nat
          BY <5>1
        <5> QED
          BY <5>2 DEF list
      <4> QED
        BY <3>1, <4>2
    <3> QED
      BY <3>1, <3>2
  <2>2. t \in U
    BY <2>1
  <2>3. completed_combinations \in [Node -> SUBSET U]
    BY DEF TypeOK
  <2> HIDE DEF U
  <2>4. completed_combinations' \in [Node -> SUBSET U]
    BY <2>2, <2>3
  <2> QED
    BY <2>4 DEF TypeOK, U
<1>4. ListsAreInboxes' /\ ClausesExcludeAnswers'
  BY DEF ListsAreInboxes, ClausesExcludeAnswers, Store!AdditionalClauses
<1>5. CompletedAreTuples'
  BY <1>1, <1>2 DEF CompletedAreTuples
<1>6. /\ GivenOut(n)' = GivenOut(n) \cup {MessageOf(n, t)}
      /\ \A k \in Node \ {n} : GivenOut(k)' = GivenOut(k)
  BY <1>1, <1>2 DEF GivenOut
<1> QED
  BY <1>3, <1>4, <1>5, <1>6

\* The table is what the answers make it.
THEOREM TableFollowsAnswers == Spec => []TableInv
<1>1. Init => TableInv
  BY InitTable
<1>2. ASSUME TableInv, [Next]_vars PROVE TableInv'
  <2>1. CASE OutputMessage
    <3> PICK n \in Node :
          /\ \E t \in NewTuples(n) :
               completed_combinations' = [completed_combinations EXCEPT ![n] = @ \cup {t}]
          /\ UNCHANGED <<messages, additional_clauses, inputs>>
      BY <2>1 DEF OutputMessage
    <3> QED
      BY <1>2, OutputTable
  <2>2. CASE \E n \in Node, q \in Cube : Input(n, q)
    BY <1>2, <2>2, InputTable
  <2>3. CASE UNCHANGED vars
    <3>1. UNCHANGED <<messages, completed_combinations, additional_clauses, inputs>>
      BY <2>3 DEF vars
    <3>2. TypeOK' /\ ListsAreInboxes'
      BY <1>2, <3>1 DEF TableInv, TypeOK, ListsAreInboxes
    <3>3. CompletedAreTuples'
      <4>1. \A n : Tuples(n)' = Tuples(n)
        BY <3>1 DEF Tuples, Compatible, Part
      <4> QED
        BY <1>2, <3>1, <4>1 DEF TableInv, CompletedAreTuples
    <3>4. ClausesExcludeAnswers'
      BY <1>2, <3>1 DEF TableInv, ClausesExcludeAnswers, Store!AdditionalClauses
    <3> QED
      BY <3>2, <3>3, <3>4 DEF TableInv
  <2> QED
    BY <1>2, <2>1, <2>2, <2>3 DEF Next
<1> QED
  BY <1>1, <1>2, PTL DEF Spec

-----------------------------------------------------------------------------
(* What follows                                                            *)

\* No two index tuples stand for the same message, however the lists grew
\* after they were remembered (TableSolutions.cpp:178-231).
THEOREM TuplesTellMessages == Spec => []TuplesAreMessages
<1>1. TableInv => TuplesAreMessages
  BY TuplesDiffer DEF TableInv, CompletedAreTuples, TuplesAreMessages
<1> QED
  BY <1>1, TableFollowsAnswers, PTL

\* The clauses that are left out as duplicates are not missed (TableSolutions.
\* cpp:110-126).
THEOREM ClausesAreExact == Spec => []ClausesExcludeAnswers
<1>1. TableInv => ClausesExcludeAnswers
  BY DEF TableInv
<1> QED
  BY <1>1, TableFollowsAnswers, PTL

\* What waits in the store is what the new tuples stand for.
LEMMA WaitingTuples ==
  ASSUME TableInv
  PROVE  /\ \A n \in Node : \A t \in NewTuples(n) :
              MessageOf(n, t) \in Store!Waiting /\ MessageOf(n, t).to = n
         /\ \A m \in Store!Waiting :
              m.to \in Node /\ \E t \in NewTuples(m.to) : MessageOf(m.to, t) = m
<1> USE DEF TableInv
<1>1. ASSUME NEW n \in Node, NEW t \in NewTuples(n)
      PROVE  MessageOf(n, t) \in Store!Waiting /\ MessageOf(n, t).to = n
  <2>1. t \in Tuples(n) /\ t \notin completed_combinations[n]
    BY DEF NewTuples
  <2>2. MessageOf(n, t) \in Combinations(inputs, n) /\ MessageOf(n, t).to = n
    BY <2>1, TupleIsCombination
  <2>3. ASSUME NEW k \in Node, MessageOf(n, t) \in GivenOut(k) PROVE FALSE
    <3>1. PICK u \in completed_combinations[k] : MessageOf(k, u) = MessageOf(n, t)
      BY <2>3 DEF GivenOut
    <3>2. u \in Tuples(k)
      BY DEF CompletedAreTuples
    <3>3. k = n
      BY <2>2, <3>1, <3>2, TupleIsCombination
    <3> QED
      BY <2>1, <3>1, <3>2, <3>3, TuplesDiffer
  <2> QED
    BY <2>2, <2>3, StoreTerms DEF Store!Waiting
<1>2. ASSUME NEW m \in Store!Waiting
      PROVE  m.to \in Node /\ \E t \in NewTuples(m.to) : MessageOf(m.to, t) = m
  <2>1. PICK n \in Node : m \in Combinations(inputs, n)
    BY StoreTerms DEF Store!Waiting
  <2>2. m.to = n
    BY <2>1, CombinationsType DEF TypeOK
  <2>3. PICK t \in Tuples(n) : MessageOf(n, t) = m
    BY <2>1, CombinationIsTuple
  <2>4. t \notin completed_combinations[n]
    BY <2>3 DEF Store!Waiting, GivenOut
  <2> QED
    BY <2>2, <2>3, <2>4 DEF NewTuples
<1> QED
  BY <1>1, <1>2

\* The scan meets any two nodes in one order.
LEMMA ScanOrder ==
  /\ \A n, k \in Node : Earlier(n, k) \/ Earlier(k, n)
  /\ \A n \in Node : Earlier(n, n)
  /\ \A i, n, k \in Node : ~Earlier(n, k) /\ ~Earlier(k, i) => ~Earlier(n, i)
<1>1. \A n \in Node : n \in Nat /\ Depth[n] \in Nat
  BY TableAssumption, DagAssumption
<1> QED
  BY <1>1 DEF Earlier

\* So of the nodes that have something to give out there is a first one.
LEMMA SomeFirstOpen ==
  ASSUME \E n \in Node : NewTuples(n) # {}
  PROVE  \E n \in Node : FirstOpen(n)
<1> DEFINE Open == {n \in Node : NewTuples(n) # {}}
           Ahead(n) == {k \in Open : ~Earlier(n, k)}
           Sizes == {Cardinality(Ahead(n)) : n \in Open}
<1>1. \A n : IsFiniteSet(Ahead(n)) /\ Cardinality(Ahead(n)) \in Nat
  <2>1. ASSUME NEW n PROVE IsFiniteSet(Ahead(n)) /\ Cardinality(Ahead(n)) \in Nat
    <3>1. Ahead(n) \in SUBSET Node
      OBVIOUS
    <3> HIDE DEF Ahead
    <3>2. IsFiniteSet(Ahead(n))
      BY <3>1, TableAssumption, FS_Subset
    <3> QED
      BY <3>2, FS_CardinalityType
  <2> QED
    BY <2>1
<1>2. PICK n \in Open : \A k \in Open : Cardinality(Ahead(n)) <= Cardinality(Ahead(k))
  <2>1. Sizes \in SUBSET Nat /\ Sizes # {}
    BY <1>1
  <2>2. PICK size \in Sizes : \A other \in Sizes : size <= other
    <3> HIDE DEF Sizes
    <3> QED
      BY <2>1, LeastNatural
  <2> QED
    BY <2>2
<1>3. Ahead(n) = {}
  <2> SUFFICES ASSUME NEW k \in Ahead(n) PROVE FALSE
    OBVIOUS
  <2>1. Ahead(k) \subseteq Ahead(n) /\ k \notin Ahead(k) /\ k \in Open
    BY ScanOrder
  <2>2. Cardinality(Ahead(k)) <= Cardinality(Ahead(n)) /\ Cardinality(Ahead(n)) # Cardinality(Ahead(k))
    <3> HIDE DEF Ahead
    <3> QED
      BY <1>1, <2>1, FS_Subset
  <2> HIDE DEF Ahead
  <2>3. Cardinality(Ahead(n)) <= Cardinality(Ahead(k))
    BY <1>2, <2>1
  <2> QED
    BY <1>1, <2>2, <2>3
<1> QED
  BY <1>3 DEF FirstOpen

\* NULL is said only when no combination of the answers is left to give out
\* (SolutionsInterface.h:119-135, Master.cpp:129-135).
THEOREM NullIsTheEnd == Spec => []NullMeansNone
<1>1. TableInv => NullMeansNone
  BY WaitingTuples, SomeFirstOpen DEF NullMeansNone
<1> QED
  BY <1>1, TableFollowsAnswers, PTL

-----------------------------------------------------------------------------
(* The table implements the store                                          *)

\* To give out the first new tuple is to give out one of the messages that
\* the store may give out.
LEMMA OutputIsStoreOutput ==
  ASSUME TableInv, OutputMessage
  PROVE  Store!StoreOutput
<1>1. PICK n \in Node :
        /\ FirstOpen(n)
        /\ \E t \in NewTuples(n) :
             completed_combinations' = [completed_combinations EXCEPT ![n] = @ \cup {t}]
        /\ UNCHANGED <<messages, additional_clauses, inputs>>
  BY DEF OutputMessage
<1>2. PICK t \in NewTuples(n) :
        completed_combinations' = [completed_combinations EXCEPT ![n] = @ \cup {t}]
  BY <1>1
<1> DEFINE m == MessageOf(n, t)
<1>3. /\ GivenOut(n)' = GivenOut(n) \cup {m}
      /\ \A k \in Node \ {n} : GivenOut(k)' = GivenOut(k)
  BY <1>1, <1>2, OutputTable
<1>4. m \in Store!Waiting /\ m.to = n
  BY WaitingTuples
<1> HIDE DEF m
<1>5. m \in Store!NextMessages
  <2> SUFFICES ASSUME NEW k \in Store!Waiting
               PROVE  IF BREADTH_FIRST_NODE_ALLOCATIONS
                      THEN Depth[m.to] <= Depth[k.to]
                      ELSE Depth[m.to] >= Depth[k.to]
    BY <1>4 DEF Store!NextMessages
  <2>1. k.to \in Node /\ NewTuples(k.to) # {}
    BY WaitingTuples
  <2>2. Earlier(n, k.to)
    BY <1>1, <2>1 DEF FirstOpen
  <2>3. Depth[n] \in Nat /\ Depth[k.to] \in Nat
    BY <2>1, DagAssumption
  <2> QED
    BY <1>4, <2>2, <2>3 DEF Earlier
<1>6. (UNION {GivenOut(k) : k \in Node})' = (UNION {GivenOut(k) : k \in Node}) \cup {m}
  <2>1. \A x : (\E k \in Node : x \in GivenOut(k)') <=> (\E k \in Node : x \in GivenOut(k)) \/ x = m
    BY <1>3
  <2> QED
    BY <2>1
<1> QED
  BY <1>1, <1>5, <1>6 DEF Store!StoreOutput

\* To take in an answer is to take it in, cut to what the node shows.
LEMMA InputIsStoreInput ==
  ASSUME TableInv, NEW n \in Node, NEW q \in Cube, Input(n, q)
  PROVE  Store!StoreInput(n, q)
<1>1. PICK m \in GivenOut(n) : q \in PossibleAnswers(m)
  BY DEF Input
<1>2. m.to = n /\ m \in UNION {GivenOut(k) : k \in Node}
  BY <1>1 DEF GivenOut, MessageOf
<1>3. inputs' = [inputs EXCEPT ![n] = @ \cup {MasterView(n, q)}]
  BY DEF Input
<1>4. \A k \in Node : GivenOut(k)' = GivenOut(k)
  BY InputTable
<1>5. (UNION {GivenOut(k) : k \in Node})' = UNION {GivenOut(k) : k \in Node}
  BY <1>4
<1> QED
  BY <1>1, <1>2, <1>3, <1>5, StoreTerms DEF Store!StoreInput, Store!InputMessage

\* Each step of the table is a step of the store that the master's proofs rely
\* on: with its lists, indices and tuples it gives out compatible combinations
\* of what was answered, each once, from the right depth (TableSolutions.cpp:
\* 60-231).
THEOREM TableIsStore == Spec => ImplementsStore
<1>1. Init => Store!StoreInit
  BY DEF Init, Store!StoreInit, GivenOut
<1>2. ASSUME TableInv, [Next]_vars PROVE [Store!StoreNext]_(Store!storeVars)
  <2>1. CASE OutputMessage
    BY <1>2, <2>1, OutputIsStoreOutput DEF Store!StoreNext
  <2>2. ASSUME NEW n \in Node, NEW q \in Cube, Input(n, q) PROVE Store!StoreNext
    <3>1. Store!StoreInput(n, q)
      BY <1>2, <2>2, InputIsStoreInput
    <3> QED
      BY <3>1 DEF Store!StoreNext, Store!Cube, Cube, Store!Literal, Literal
  <2>3. CASE UNCHANGED vars
    <3>1. UNCHANGED <<messages, completed_combinations, inputs>>
      BY <2>3 DEF vars
    <3>2. \A k : GivenOut(k)' = GivenOut(k)
      BY <3>1 DEF GivenOut, MessageOf, Part
    <3> QED
      BY <3>1, <3>2 DEF Store!storeVars
  <2> QED
    BY <1>2, <2>1, <2>2, <2>3 DEF Next
<1> QED
  BY <1>1, <1>2, TableFollowsAnswers, PTL DEF Spec, ImplementsStore, Store!StoreSpec
=============================================================================
