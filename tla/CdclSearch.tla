----------------------------- MODULE CdclSearch -----------------------------
(***************************************************************************)
(* The worker's own solver (CnfManager.cpp, SatSolver.cpp): it enumerates  *)
(* the answers to one message.  A search by decisions, unit propagation,   *)
(* clause learning and restarts finds a model, the model is trimmed to     *)
(* literals that satisfy every clause, and the clause that excludes it is  *)
(* added before the solver is reset and searches again.                    *)
(*                                                                         *)
(* A literal is a number or its negation, a clause a sequence of literals. *)
(* Of the watch lists only the result is kept: a clause with one literal   *)
(* left propagates, one with none is a conflict, in any order.  What code  *)
(* takes first from a clause whose literals they have moved is open, and   *)
(* so is the order in which it scores them.                                *)
(***************************************************************************)
EXTENDS Integers, Sequences, FiniteSets, FiniteSetsExt, SequencesExt

CONSTANTS
  vc,              \* the number of variables
  Cnfs,            \* the problems: sequences of clauses
  Reported,        \* the variables that answers are about
  ReportingTimes,  \* sat_reporting_time: decisions until a run is interrupted
  MaxPauses        \* bound: how often a run is interrupted

ASSUME CdclAssumption ==
  /\ vc \in Nat \ {0} /\ Reported \subseteq 1 .. vc /\ MaxPauses \in Nat
  /\ ReportingTimes \subseteq Nat \ {0, 1}
  /\ \A cs \in Cnfs : cs \in Seq(Seq((-vc .. vc) \ {0}))
  /\ \A cs \in Cnfs : \A i \in DOMAIN cs : IsInjective(cs[i])  \* Cnf.cpp refuses others

VARIABLES
  cnf, sat_reporting_time,
  pc,              \* "construct", "reset", "stopped", "selecting", "asserting",
                   \* "finished", "thrown"
  dLevel,
  trail,           \* the stack: literals with level and antecedent
  clauses,         \* added clauses, learnt or excluding an answer
  blocking,        \* solution_conflict_indices
  unit_conflicts,  \* excluding clauses of one literal
  order,           \* activity of each literal, varOrder, nextVar, and what is in
                   \* front of each implication list
  phase,           \* the value each variable is tried with
  nextClause,
  selected,        \* decisions of this run
  pauses,
  answers          \* reported so far

problem == <<cnf, sat_reporting_time>>
added == <<clauses, blocking, unit_conflicts>>
vars == <<problem, pc, dLevel, trail, added, order, phase, nextClause, selected, pauses, answers>>

Vars == 1 .. vc
Literals == Vars \cup {-v : v \in Vars}
VAR(l) == IF l > 0 THEN l ELSE -l
NEG(l) == -l
Assigned(t) == {t[i].lit : i \in DOMAIN t}
SET(l) == l \in Assigned(trail)
RESOLVED(l) == NEG(l) \in Assigned(trail)
FREE(l) == ~SET(l) /\ ~RESOLVED(l)
Satisfied(c) == \E i \in DOMAIN c : SET(c[i])

(* The elements of a sequence that are in a set, in their order.           *)
Only(s, S) == FoldLeft(LAMBDA out, e : IF e \in S THEN Append(out, e) ELSE out, << >>, s)

Units == Only(cnf, {c \in ToSet(cnf) : Len(c) = 1})
Others == Only(cnf, {c \in ToSet(cnf) : Len(c) > 1})

-----------------------------------------------------------------------------
(* The order in which variables are tried (updateScores).                  *)
SCORE(o, v) == o.activity[v] + o.activity[-v]

(* A literal's activity goes up and its variable is swapped with the first *)
(* in the order that has a lower score.                                    *)
Promoted(o, l) ==
  LET up == [o EXCEPT !.activity[l] = @ + 1]
      v == VAR(l)
      lower == {i \in DOMAIN o.varOrder : SCORE(up, o.varOrder[i]) < SCORE(up, v)}
      p == CHOOSE i \in DOMAIN o.varOrder : o.varOrder[i] = v
      q == Min(lower)
  IN  IF v \notin ToSet(o.varOrder) \/ lower = {} \/ q > p THEN up
      ELSE [up EXCEPT !.varOrder[p] = o.varOrder[q], !.varOrder[q] = v]

(* The literals of a clause are taken one after the other, in the order    *)
(* the watches and addClause have left them in: in any order.              *)
updateScores(o, c) == {FoldLeft(Promoted, o, s) : s \in SetToSeqs(ToSet(c))}

FreedAndLeft(o, v) == o

(* A variable is free again: the search starts from it or before.          *)
Freed(o, v) ==
  IF v \notin ToSet(o.varOrder) THEN [o EXCEPT !.nextVar = 1]
  ELSE LET p == CHOOSE i \in DOMAIN o.varOrder : o.varOrder[i] = v
       IN  [o EXCEPT !.nextVar = IF p < @ THEN p ELSE @]

-----------------------------------------------------------------------------
(* Propagation.  The antecedent is the clause, the implied literal first;  *)
(* for a clause of two literals in the problem it is an implication list,  *)
(* whose front is what was last put there for a conflict, or nothing.      *)
(* Where the literals behind the first one stand is never read.            *)
Entry(l, level, ante, binary) == [lit |-> l, dLevel |-> level, ante |-> ante, binary |-> binary]
Decision(l, level) == Entry(l, level, << >>, FALSE)

Pool == {<<Others[i], Len(Others[i]) = 2>> : i \in DOMAIN Others}
        \cup {<<clauses[i], FALSE>> : i \in DOMAIN clauses}
False(c) == \A i \in DOMAIN c : RESOLVED(c[i])
Implied(c) == {l \in ToSet(c) : FREE(l) /\ \A m \in ToSet(c) \ {l} : RESOLVED(m)}
Reasons(ante) == SubSeq(ante, 2, Len(ante))
First(c, l) == <<l>> \o Only(c, ToSet(c) \ {l})
ScoredClause(o, e) ==
  IF ~e.binary THEN e.ante
  ELSE IF o.front[e.ante[2]] = 0 THEN << >> ELSE <<o.front[e.ante[2]], e.ante[2]>>

(* assertLiteral, one implication at a time.                               *)
Propagate ==
  /\ pc \in {"construct", "reset", "asserting"}
  /\ \E k \in Pool : \E l \in Implied(k[1]) :
       trail' = Append(trail, Entry(l, dLevel, First(k[1], l), k[2]))
  /\ UNCHANGED <<problem, pc, dLevel, added, order, phase, nextClause, selected, pauses, answers>>

NoneLeft == \A k \in Pool : Implied(k[1]) = {} /\ ~False(k[1])

-----------------------------------------------------------------------------
(* Clause learning (learnClause).                                          *)

LevelOf(l) == (CHOOSE e \in ToSet(trail) : VAR(e.lit) = VAR(l)).dLevel
AnteOf(l) == (CHOOSE e \in ToSet(trail) : VAR(e.lit) = VAR(l)).ante

(* From the conflict clause, the stack is popped and every marked literal  *)
(* of the present level is replaced by its antecedent until one is left.   *)
(* Literals of level 1 are dropped.                                        *)
Marked(s, c) ==
  LET new == Only(c, {l \in ToSet(c) : LevelOf(l) > 1 /\ VAR(l) \notin s.mark})
  IN  [s EXCEPT !.mark = @ \cup {VAR(new[i]) : i \in DOMAIN new},
                !.lower = @ \o Only(new, {l \in ToSet(new) : LevelOf(l) < dLevel}),
                !.left = @ + Len(Only(new, {l \in ToSet(new) : LevelOf(l) = dLevel}))]
Popped(s, e) ==
  LET v == VAR(e.lit)
      scored == IF e.ante = << >> THEN s.orders
                ELSE UNION {updateScores(o, ScoredClause(o, e)) : o \in s.orders}
      freed(os) == {Freed(o, v) : o \in os}
  IN  IF s.uip # 0 THEN s
      ELSE IF v \notin s.mark THEN [s EXCEPT !.orders = freed(@)]
      ELSE IF s.left = 1 THEN [s EXCEPT !.orders = freed(scored), !.mark = @ \ {v}, !.uip = e.lit]
      ELSE Marked([s EXCEPT !.orders = freed(scored), !.mark = @ \ {v}, !.left = @ - 1], Reasons(e.ante))
Resolved(c, o) ==
  FoldLeft(Popped, Marked([mark |-> {}, lower |-> << >>, left |-> 0, uip |-> 0,
                           orders |-> updateScores(o, c)], c), Reverse(trail))

(* A literal goes if its antecedent is marked altogether.  The clause      *)
(* starts with the literal it implies and one of the assertion level.      *)
NotRedundantAtAll(s, l) == AnteOf(l) = << >> \/ \A m \in ToSet(Reasons(AnteOf(l))) : VAR(m) \notin s.mark
NotRedundant(s, l) == AnteOf(l) = << >> \/ \E m \in ToSet(Reasons(AnteOf(l))) : VAR(m) \notin s.mark
Kept(s) == Only(s.lower, {l \in ToSet(s.lower) : NotRedundant(s, l)})
aLevelOf(kept) == Max({1} \cup {LevelOf(kept[i]) : i \in DOMAIN kept})
LearntClause(s) ==
  LET kept == Kept(s)
      top == Only(kept, {l \in ToSet(kept) : LevelOf(l) = aLevelOf(kept)})
  IN  <<NEG(s.uip)>> \o (IF kept = << >> THEN << >> ELSE First(kept, top[1]))

(* The conflict clause: for an implication list the literal that is put in *)
(* front and then the one it belongs to, which is either of the two.       *)
Conflicts ==
  {[clause |-> k[1], order |-> order] : k \in {k \in Pool : False(k[1]) /\ ~k[2]}}
  \cup {[clause |-> c, order |-> [order EXCEPT !.front[c[2]] = c[1]]] :
          c \in UNION {{k[1], Reverse(k[1])} : k \in {k \in Pool : False(k[1]) /\ k[2]}}}

(* backtrack: what learning has popped is free already, the rest above the *)
(* level is freed now.  Variables of levels that are complete keep their   *)
(* value as the one to try first.                                          *)
Below(level) == Only(trail, {e \in ToSet(trail) : e.dLevel <= level})
Above(level) == Only(trail, {e \in ToSet(trail) : e.dLevel > level})
StillAbove(level, uip) ==
  Only(trail, {trail[i] : i \in {i \in DOMAIN trail :
                 trail[i].dLevel > level /\ \E j \in DOMAIN trail : i < j /\ trail[j].lit = uip}})
FreedAbove(s, level) ==
  {FoldLeft(LAMBDA p, e : Freed(p, VAR(e.lit)), o, StillAbove(level, s.uip)) : o \in s.orders}
PhaseAbove(level) ==
  [v \in Vars |-> IF \E e \in ToSet(Above(level)) : VAR(e.lit) = v /\ e.dLevel < dLevel
                  THEN SET(v) ELSE phase[v]]

(* A conflict in run(): the clause is learnt, the search goes back to its  *)
(* assertion level or, for a restart, to level 1, and the clause asserts   *)
(* its first literal unless that is not the level it asserts it at.        *)
LearnAndBacktrack ==
  /\ pc = "asserting" /\ dLevel > 1
  /\ \E c \in Conflicts, restart \in BOOLEAN :
       LET s == Resolved(c.clause, c.order)
           learnt == LearntClause(s)
           aLevel == aLevelOf(Kept(s))
           level == IF restart THEN 1 ELSE aLevel
       IN  /\ clauses' = IF Len(learnt) > 1 THEN Append(clauses, learnt) ELSE clauses
           /\ nextClause' = Len(clauses')
           /\ order' \in FreedAbove(s, level)
           /\ phase' = PhaseAbove(level)
           /\ dLevel' = level
           /\ IF level = aLevel
              THEN pc' = "asserting" /\ trail' = Append(Below(level), Entry(learnt[1], level, learnt, FALSE))
              ELSE pc' = "selecting" /\ trail' = Below(level)
  /\ UNCHANGED <<problem, blocking, unit_conflicts, selected, pauses, answers>>

(* A conflict at level 1: run() returns that there is no (other) answer;   *)
(* outside run() the level becomes 0, which the next run() finds.          *)
ConflictAtLevel1 ==
  /\ dLevel = 1 /\ pc \in {"construct", "reset", "asserting"} /\ Conflicts # {}
  /\ IF pc = "asserting"
     THEN pc' = "finished" /\ UNCHANGED <<dLevel, trail>>
     ELSE pc' = "stopped" /\ dLevel' = 0 /\ trail' = << >>
  /\ UNCHANGED <<problem, added, order, phase, nextClause, selected, pauses, answers>>

-----------------------------------------------------------------------------
(* The search.                                                             *)

Run ==
  /\ pc = "stopped"
  /\ pc' = (IF dLevel = 0 THEN "finished" ELSE "selecting") /\ selected' = 0
  /\ UNCHANGED <<problem, dLevel, trail, added, order, phase, nextClause, pauses, answers>>

(* selectLiteral: a best variable of the last added clause that is not     *)
(* satisfied, and otherwise the first in the order from nextVar on.        *)
OpenClauses == {i \in 1 .. nextClause : ~Satisfied(clauses[i])}
BestOf(c) ==
  LET free == {VAR(l) : l \in {l \in ToSet(c) : FREE(l)}}
  IN  {v \in free : \A w \in free : SCORE(order, w) <= SCORE(order, v)}
FreeInOrder == {i \in order.nextVar .. Len(order.varOrder) : FREE(order.varOrder[i])}
Selected ==
  IF OpenClauses # {} THEN BestOf(clauses[Max(OpenClauses)])
  ELSE IF FreeInOrder # {} THEN {order.varOrder[Min(FreeInOrder)]} ELSE {}

Advance ==
  IF OpenClauses # {} THEN nextClause' = Max(OpenClauses) /\ UNCHANGED order
  ELSE /\ nextClause' = IF nextClause = 0 THEN 0 ELSE 1
       /\ order' = IF FreeInOrder # {} THEN [order EXCEPT !.nextVar = Min(FreeInOrder) + 1] ELSE order

(* It is interrupted with a literal selected and not decided.              *)
Interrupted == selected + 1 = sat_reporting_time /\ pauses < MaxPauses
Pause ==
  /\ pc = "selecting" /\ Selected # {} /\ Interrupted
  /\ Advance /\ pauses' = pauses + 1 /\ pc' = "stopped"
  /\ UNCHANGED <<problem, dLevel, trail, added, phase, selected, answers>>

Decide ==
  /\ pc = "selecting" /\ Selected # {} /\ ~Interrupted
  /\ Advance /\ selected' = selected + 1
  /\ dLevel' = dLevel + 1
  /\ \E v \in Selected : trail' = Append(trail, Decision(IF phase[v] THEN v ELSE -v, dLevel + 1))
  /\ pc' = "asserting"
  /\ UNCHANGED <<problem, added, phase, pauses, answers>>

Propagated ==
  /\ pc = "asserting" /\ NoneLeft /\ pc' = "selecting"
  /\ UNCHANGED <<problem, dLevel, trail, added, order, phase, nextClause, selected, pauses, answers>>

-----------------------------------------------------------------------------
(* Answers.                                                                *)

(* verify_and_trim_Solution: for each clause of the problem, and each that *)
(* excludes an answer, one variable that satisfies it is kept: one that is *)
(* kept already, or else the last that is positive or smaller than the one *)
(* before, in the order in which the watches have left the literals.       *)
Verified == cnf \o [k \in DOMAIN blocking |-> clauses[blocking[k]]]
Picked(c) ==
  LET true == {l \in ToSet(c) : SET(l)}
      positive == {l \in true : l > 0}
  IN  positive \cup {VAR(l) : l \in {l \in true \ positive : \E p \in positive : p > VAR(l)}}
      \cup (IF positive = {} THEN {Min({VAR(l) : l \in true})} ELSE {})
Keeping(kept, c) ==
  IF \E l \in ToSet(c) : SET(l) /\ VAR(l) \in kept THEN {kept} ELSE {kept \cup {v} : v \in Picked(c)}
KeepingOne(ks, c) == UNION {Keeping(kept, c) : kept \in ks}
TrimmedToCnf == FoldLeft(KeepingOne, {{}}, cnf)
Trimmed ==
  {kept \cup {VAR(unit_conflicts[i]) : i \in DOMAIN unit_conflicts} :
     kept \in FoldLeft(KeepingOne, {{}}, Verified)}

(* The answer as a sequence in the order of its variables, and the clause  *)
(* that excludes it as addClause lays it out.                              *)
AnswerOf(kept) ==
  LET vs == Only([v \in Vars |-> v], {v \in Reported \cap kept : ~FREE(v)})
  IN  [i \in DOMAIN vs |-> IF SET(vs[i]) THEN vs[i] ELSE -vs[i]]
ExcludingMore(a) ==
  IF Len(a) < 3 THEN [i \in DOMAIN a |-> -a[i]]
  ELSE <<-a[Len(a)], -a[1]>> \o [i \in 1 .. Len(a) - 3 |-> -a[i + 1]]
Excluding(a) ==
  LET n == Len(a)
  IN  IF n = 1 THEN <<-a[1]>>
      ELSE <<-a[n], -a[1]>> \o [i \in 1 .. n - 2 |-> -a[i + 1]]

(* The literals set before propagation when a solver is made or reset, or  *)
(* nothing if they contradict each other.                                  *)
UnitTrail(units) ==
  FoldLeft(LAMBDA t, l : IF l \in Assigned(t) THEN t ELSE Append(t, Entry(l, 1, <<l>>, FALSE)), << >>, units)
Contradictory(units) == \E l \in ToSet(units) : NEG(l) \in ToSet(units)
CnfUnits == [i \in DOMAIN Units |-> Units[i][1]]

(* run() has found a model.  If it is not one after all that is an error;  *)
(* else the answer is reported, excluded, and the solver is reset          *)
(* (Worker.cpp:101-112, 147-162; SatSolver.cpp:720-785).                   *)
ResetTo(units) ==
  /\ dLevel' = 1 /\ nextClause' = Len(clauses') /\ order' = [order EXCEPT !.nextVar = 1]
  /\ IF Contradictory(units)
     THEN pc' = "finished" /\ trail' = << >>
     ELSE pc' = "reset" /\ trail' = UnitTrail(units)

FoundModel ==
  /\ pc = "selecting" /\ Selected = {}
  /\ IF \E i \in DOMAIN Verified : ~Satisfied(Verified[i])
     THEN pc' = "thrown" /\ UNCHANGED <<dLevel, trail, added, order, nextClause, answers>>
     ELSE \E kept \in Trimmed :
          LET a == AnswerOf(kept)
          IN  /\ answers' = Append(answers, a)
              /\ IF a = << >>
                 THEN pc' = "finished" /\ UNCHANGED <<dLevel, trail, added, order, nextClause>>
                 ELSE /\ clauses' = IF Len(a) > 1 THEN Append(clauses, Excluding(a)) ELSE clauses
                      /\ blocking' = IF Len(a) > 1 THEN Append(blocking, Len(clauses) + 1) ELSE blocking
                      /\ unit_conflicts' = IF Len(a) > 1 THEN unit_conflicts ELSE Append(unit_conflicts, -a[1])
                      /\ ResetTo(unit_conflicts' \o CnfUnits)
  /\ UNCHANGED <<problem, phase, selected, pauses>>

Ready ==
  /\ pc = "reset" /\ NoneLeft /\ pc' = "stopped"
  /\ UNCHANGED <<problem, dLevel, trail, added, order, phase, nextClause, selected, pauses, answers>>

-----------------------------------------------------------------------------
(* The constructors.  Activities count the occurrences in clauses of two   *)
(* literals or more; the order has the variables that units leave free,    *)
(* those of equal scores in any order.                                     *)
Occurrences(c, l) == Cardinality({i \in DOMAIN c : l \in ToSet(c[i])})
solver_unit_contradiction == << >> \in ToSet(cnf) \/ Contradictory(CnfUnits)

Init ==
  /\ cnf \in Cnfs /\ sat_reporting_time \in ReportingTimes
  /\ dLevel = 1 /\ clauses = << >> /\ blocking = << >> /\ unit_conflicts = << >>
  /\ nextClause = 0 /\ selected = 0 /\ pauses = 0 /\ answers = << >>
  /\ order = [activity |-> [l \in Literals |-> Occurrences(Others, l)], varOrder |-> << >>,
              nextVar |-> 1, front |-> [l \in Literals |-> 0]]
  /\ phase = [v \in Vars |-> FALSE]
  /\ IF solver_unit_contradiction THEN pc = "finished" /\ trail = << >>
     ELSE pc = "construct" /\ trail = UnitTrail(CnfUnits)

Constructed ==
  /\ pc = "construct" /\ NoneLeft /\ pc' = "stopped"
  /\ LET vs == {v \in Vars : FREE(v) /\ SCORE(order, v) > 0}
     IN  /\ \E s \in SetToSeqs(vs) :
              /\ \A i, j \in DOMAIN s : i < j => SCORE(order, s[i]) >= SCORE(order, s[j])
              /\ order' = [order EXCEPT !.varOrder = s]
         /\ phase' = [v \in Vars |-> v \in vs /\ order.activity[v] > order.activity[-v]]
  /\ UNCHANGED <<problem, dLevel, trail, added, nextClause, selected, pauses, answers>>

Rest == pc \in {"finished", "thrown"} /\ UNCHANGED vars

Search == \/ Propagate \/ Constructed \/ ConflictAtLevel1 \/ LearnAndBacktrack \/ Run
          \/ Pause \/ Decide \/ Propagated \/ FoundModel \/ Ready
Next == Search \/ Rest
Spec == Init /\ [][Next]_vars

-----------------------------------------------------------------------------
(* Properties.  An assignment is a set of literals, one for each variable. *)
Assignments == {{IF f[v] THEN v ELSE -v : v \in Vars} : f \in [Vars -> BOOLEAN]}
Models(cs) == {m \in Assignments : \A i \in DOMAIN cs : \E l \in ToSet(cs[i]) : l \in m}
Exclusions == [i \in DOMAIN answers |-> [k \in DOMAIN answers[i] |-> -answers[i][k]]]

(* What is found is a model (SatSolver.cpp:210): nothing is left free that *)
(* would have to be set, in whatever order variables have been tried.      *)
NeverThrows == pc # "thrown"

(* So it is while no run has been interrupted and no clause has two        *)
(* literals: interruptions lose the literal selected, and the front of an  *)
(* implication list can be a literal of an earlier conflict.               *)
LongClauses == \A i \in DOMAIN cnf : Len(cnf[i]) # 2
LongClausesFindModels == pauses = 0 /\ LongClauses => NeverThrows

(* A trimmed answer stands for all its extensions to the reported          *)
(* variables: each of them belongs to a model, and no two answers have one *)
(* in common.                                                              *)
AnswersAreDisjointCubes ==
  /\ LET models == Models(cnf)
     IN  \A i \in DOMAIN answers : \A r \in {m \cap (Reported \cup {-v : v \in Reported}) : m \in Assignments} :
           ToSet(answers[i]) \subseteq r => \E m \in models : r \subseteq m
  /\ \A i, j \in DOMAIN answers : i < j => \E l \in ToSet(answers[i]) : -l \in ToSet(answers[j])

(* Whatever has been learnt, dropped as redundant or lost in a reset, a    *)
(* learnt clause follows from the problem without the answers excluded.    *)
LearntFollows ==
  LET models == Models(cnf \o Exclusions)
  IN  \A i \in DOMAIN clauses \ ToSet(blocking) : \A m \in models : \E l \in ToSet(clauses[i]) : l \in m

(* When the worker asks for other work, its answers cover every model.     *)
FinishedIsComplete == pc = "finished" => Models(cnf \o Exclusions) = {}
=============================================================================
