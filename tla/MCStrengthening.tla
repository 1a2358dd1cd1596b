---- MODULE MCStrengthening ----
EXTENDS Strengthening

Message(n, lengths) == [answers |-> n, lengths |-> lengths]

(* Six clauses of two literals in one phase, which wrap a ring of seven    *)
(* around; and a phase with replies that are used, after which the next    *)
(* message comes.                                                          *)
WrapOrNext == {<<Message(6, {2})>>, <<Message(3, {3}), Message(2, {3})>>}
====
