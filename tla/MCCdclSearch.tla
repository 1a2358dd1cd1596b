---- MODULE MCCdclSearch ----
EXTENDS CdclSearch

(* Problems over five variables.  With all of eight clauses, deciding 1    *)
(* and 2 implies 3, deciding 4 then conflicts, and the clause that is      *)
(* learnt needs 3 although 1, in its antecedent, is in the clause as well. *)
(* Besides that: two or more of the first four, with units; some positive  *)
(* ones; an empty clause; and two where conflicts leave variables free     *)
(* that come before the place where the search for one has arrived, one of *)
(* them without clauses of two literals.                                   *)
Negative == << <<-1, -2, 3>>, <<-1, -3, -4, 5>>, <<-3, -4, -5>> >>
Positive == << <<1, 2, 4>>, <<1, 4>>, <<2, 4>>, <<1, 2>>, <<1, 2, 5>> >>
Returning == << <<-1, 2>>, <<3, 4>>, <<-3, 2>>, <<1, 3, 2>>, <<-4, 1, 3, -2>>, <<-2, 3, -1, -4>>, <<4, -2, -3>> >>
Long == << <<2, 4, -1>>, <<-4, -3, 2, 1>>, <<1, 3, 2>>, <<-1, 4, -3, -2>>, <<-2, -1, 3>>,
           <<-1, -3, -4, -2>>, <<-4, 1, -2>>, <<-2, 4, 3>>, <<-1, -4, 2>>, <<-3, 2, 1>> >>
UnitClauses == {<< <<3>>, <<-1>> >>, << <<4>>, <<-4>> >>}
PartsOf(cs) == {SelectSeq(cs, LAMBDA c : c \in s) : s \in SUBSET ToSet(cs) \ {{}}}
Problems ==
  {Negative \o Positive}
  \cup {c \o u : c \in {p \in PartsOf(Negative \o SubSeq(Positive, 1, 1)) : Len(p) >= 2},
                 u \in UnitClauses}
  \cup PartsOf(SubSeq(Positive, 3, 5)) \cup {<< << >>, <<1, 2>> >>, Returning, Long}
FirstThree == {1, 2, 3}

(* The variables are tried in the order of their numbers, and the last     *)
(* clause needs the second or the fourth.                                  *)
SecondOrFourth == {<< <<1, 2>>, <<1, 3>>, <<1, -3>>, <<2, 4>> >>}

(* Three conflicts follow each other.  What the second puts in front of    *)
(* the implication list of 3 is popped and then promoted in the third.     *)
StaleFront == {<< <<7, 4>>, <<-1, 2>>, <<-5, 2, 6>>, <<3, 1>>, <<-4, -7>>, <<-1, -5, -6>>,
                  <<-3, -7, -4>>, <<-5, -4, -3>>, <<7, -6>>, <<5, -7>>, <<-2, 3>>, <<5, 6>> >>}
====
