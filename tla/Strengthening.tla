--------------------------- MODULE Strengthening ---------------------------
(***************************************************************************)
(* Mode 3 (and the strengthener of mode 2): a worker's solver and its      *)
(* strengthener, a process that tries to shorten the solver's clauses      *)
(* (SatSolver.cpp, strengthener/SolRed.cc, StrengthenerInterface.cc).      *)
(* Each clause that excludes an answer goes to the strengthener through a  *)
(* work set and a ClauseBuffer; what comes back through the other names    *)
(* the clause by its position in the solver's memory.  With every message  *)
(* of the master, a phase, the worker makes a new solver and the           *)
(* strengthener starts again.                                              *)
(***************************************************************************)
EXTENDS Integers, Sequences, FiniteSets, SequencesExt

CONSTANTS
  sizeOut,            \* the size of the rings
  opt_reducer_work,   \* the size of the work set
  Plans               \* bounds: see plan

ASSUME StrengtheningAssumption ==
  /\ sizeOut \in Nat \ {0} /\ opt_reducer_work \in Nat \ {0}
  /\ \A p \in Plans : p \in Seq([answers : Nat, lengths : SUBSET (Nat \ {0})])

VARIABLES
  plan,      \* for each message of the master, how many answers are found
             \* at most and how many literals the clauses have that exclude them
  wpc,       \* the worker: "idle", "solving", "getting", "done"
  phase,     \* Worker::phase
  litPool,   \* the solver's clauses, by position
  work,      \* the work set, oldest first
  orders,    \* to the strengthener: lengths of CNFs, or the signal to end
  rpc,       \* the strengthener: "idle", "reducing", "unsat", "exit"
  rphase,    \* its own count of phases
  aborted,   \* MPI has met an error
  toOut, toWire, toIn,         \* the buffers to the strengthener
  backOut, backWire, backIn    \* and back

to == <<toOut, toWire, toIn>>
back == <<backOut, backWire, backIn>>
workerVars == <<wpc, phase, litPool, work>>
reducerVars == <<rpc, rphase>>
vars == <<plan, workerVars, orders, reducerVars, aborted, to, back>>

To   == INSTANCE ClauseBuffer WITH out <- toOut, wire <- toWire, in <- toIn
Back == INSTANCE ClauseBuffer WITH out <- backOut, wire <- backWire, in <- backIn

Init ==
  /\ plan \in Plans
  /\ wpc = "idle" /\ phase = -1 /\ litPool = << >> /\ work = << >>
  /\ orders = << >> /\ rpc = "idle" /\ rphase = -1 /\ aborted = FALSE
  /\ To!Init /\ Back!Init

-----------------------------------------------------------------------------
(* Clauses.  A literal is a number of its own for each phase, clause and   *)
(* place, so that a clause that is not what it should be shows; positions  *)
(* start from 0 in every phase, as litPools does.                          *)
LitsOf(p, pos, n) == [k \in 1 .. n |-> 100 * (p + 1) + 10 * pos + k]
WithPos(lits, pos) == lits \o <<0, pos>>
Lits(clause) == SubSeq(clause, 1, Len(clause) - 2)
litPoolOf(clause) == clause[Len(clause) - 1]
litPoolPosOf(clause) == clause[Len(clause)]
Thinned(lits) == {To!Selected(lits, f) : f \in To!Selections(Len(lits))}

(* The work set (Work.cc).  A full one loses its oldest element; get takes *)
(* the shortest clause, the newest of these.                               *)
Inserted(w, clause) == Append(IF Len(w) = opt_reducer_work THEN Tail(w) ELSE w, clause)
Best(w) ==
  CHOOSE i \in DOMAIN w : \A j \in DOMAIN w :
    Len(w[i]) < Len(w[j]) \/ (Len(w[i]) = Len(w[j]) /\ i >= j)
EverFits(clause) == Len(clause) < sizeOut

(* push_to_reducer when the other out buffer is free: the best clauses go  *)
(* as long as they fit; the first that does not goes back.                 *)
Drained(w, o) ==
  LET d[n \in 0 .. Len(w)] ==
        IF n = 0 THEN [work |-> w, out |-> o, full |-> FALSE]
        ELSE LET e == d[n - 1]
                 c == e.work[Best(e.work)]
                 rest == RemoveAt(e.work, Best(e.work))
             IN  IF e.full THEN e
                 ELSE IF Len(c) + 1 <= To!getRemainingOutSpace(e.out)
                      THEN [work |-> rest, out |-> To!Pushed(e.out, c), full |-> FALSE]
                      ELSE [e EXCEPT !.full = TRUE,
                                     !.work = IF EverFits(c) THEN Inserted(rest, c) ELSE rest]
  IN  d[Len(w)]

-----------------------------------------------------------------------------
(* The worker.                                                             *)

(* A message of the master: the old solver goes with its buffer, the CNF   *)
(* goes to the strengthener, and a new solver is made.                     *)
NewMessage ==
  /\ wpc \in {"idle", "solving"} /\ phase + 1 < Len(plan)
  /\ wpc' = "solving" /\ phase' = phase + 1
  /\ litPool' = << >> /\ work' = << >>
  /\ orders' = Append(orders, "cnf")
  /\ To!CloseOut(phase) /\ Back!CloseIn
  /\ UNCHANGED <<plan, reducerVars, aborted, toIn, backOut>>

(* run() has found an answer; solver_add_conflict_clause starts by reading *)
(* what the strengthener has sent.                                         *)
Solved ==
  /\ wpc = "solving" /\ Len(litPool) < plan[phase + 1].answers
  /\ wpc' = "getting"
  /\ UNCHANGED <<plan, phase, litPool, work, orders, reducerVars, aborted, to, back>>

(* add_arbitrary_clause: the clause in the pool loses the literals that    *)
(* are not in the shorter one; of its two watched literals those stay that *)
(* cannot be replaced by one that is true.  Clauses with fewer than two    *)
(* literals are not used.                                                  *)
Amended(old, lits) ==
  {new \in Thinned(old) :
     /\ ToSet(lits) \subseteq ToSet(new)
     /\ ToSet(new) \ ToSet(lits) \subseteq {old[1], old[2]}}

(* get_from_reducer: one call of getClause.  When there is nothing more,   *)
(* the new clause is added and pushed.                                     *)
GetFromReducer ==
  /\ wpc = "getting" /\ Back!ClauseRead # << >>
  /\ Back!GetClause(phase)
  /\ LET c == Back!ClauseRead
         pos == litPoolPosOf(c) + 1
     IN  IF Len(Lits(c)) < 2 \/ pos \notin DOMAIN litPool
         THEN UNCHANGED litPool
         ELSE \E new \in Amended(litPool[pos], Lits(c)) : litPool' = [litPool EXCEPT ![pos] = new]
  /\ UNCHANGED <<plan, wpc, phase, work, orders, reducerVars, aborted, to, backOut>>

PushToReducer(completed, lits) ==
  LET queued == Inserted(work, WithPos(lits, Len(litPool)))
      d == Drained(queued, To!Tested(completed))
  IN  /\ litPool' = Append(litPool, lits)
      /\ work' = IF completed THEN d.work ELSE queued
      /\ To!Push(completed, phase, IF completed THEN d.out ELSE toOut)

AddClause ==
  /\ wpc = "getting" /\ Back!ClauseRead = << >> /\ ~(Back!Overflows /\ ~Back!Unread)
  /\ Back!GetClause(phase)
  /\ \E n \in plan[phase + 1].lengths, completed \in BOOLEAN :
       PushToReducer(completed, LitsOf(phase, Len(litPool), n))
  /\ wpc' = "solving"
  /\ UNCHANGED <<plan, phase, orders, reducerVars, aborted, backOut>>

(* ~Worker: the solver goes, and the strengthener is told to end.          *)
EndWorker ==
  /\ wpc \in {"idle", "solving"}
  /\ wpc' = "done" /\ litPool' = << >> /\ work' = << >>
  /\ orders' = Append(orders, "end")
  /\ To!CloseOut(phase) /\ Back!CloseIn
  /\ UNCHANGED <<plan, phase, reducerVars, aborted, toIn, backOut>>

-----------------------------------------------------------------------------
(* The strengthener.                                                       *)

(* The next CNF, with new buffers.  Simplifying it may show that it has no *)
(* model; then there is nothing to do until the next.                      *)
StartReducer ==
  /\ rpc = "idle" /\ orders # << >>
  /\ orders' = Tail(orders)
  /\ IF Head(orders) = "cnf"
     THEN rpc' \in {"reducing", "unsat"} /\ rphase' = rphase + 1
     ELSE rpc' = "exit" /\ UNCHANGED rphase
  /\ UNCHANGED <<plan, workerVars, aborted, to, back>>

(* One turn of runReducingLoop: a clause is taken, and if the reducer can  *)
(* make it shorter that is pushed.  It may also find that the problem has  *)
(* no model, and then only waits.                                          *)
Shorter(lits) == {x \in Thinned(lits) : Len(x) \in 1 .. Len(lits) - 1}
Reduce ==
  /\ rpc = "reducing" /\ To!ClauseRead # << >>
  /\ To!GetClause(rphase)
  /\ LET c == To!ClauseRead
     IN  \/ /\ rpc' \in {"reducing", "unsat"} /\ UNCHANGED <<backOut, backWire>>
         \/ \E lits \in Shorter(Lits(c)), completed \in BOOLEAN :
              /\ rpc' = "reducing"
              /\ Back!Push(completed, rphase,
                           Back!Pushed(Back!Tested(completed), WithPos(lits, litPoolPosOf(c))))
  /\ UNCHANGED <<plan, workerVars, orders, rphase, aborted, toOut, backIn>>

AwaitClause ==
  /\ rpc = "reducing" /\ To!ClauseRead = << >> /\ ~(To!Overflows /\ ~To!Unread)
  /\ To!GetClause(rphase)
  /\ UNCHANGED <<plan, workerVars, orders, reducerVars, aborted, toOut, back>>

(* The length of the next CNF has come: the loop ends and the buffers go.  *)
StopReducerInLoop ==       \* a slip: after "unsat" nothing waits for the next CNF
  /\ rpc = "reducing" /\ orders # << >>
  /\ rpc' = "idle"
  /\ Back!CloseOut(rphase) /\ To!CloseIn
  /\ UNCHANGED <<plan, workerVars, orders, rphase, aborted, toOut, backIn>>
StopReducer ==
  /\ rpc \in {"reducing", "unsat"} /\ orders # << >>
  /\ rpc' = "idle"
  /\ Back!CloseOut(rphase) /\ To!CloseIn
  /\ UNCHANGED <<plan, workerVars, orders, rphase, aborted, toOut, backIn>>

(* An error in MPI ends all processes.                                     *)
Abort ==
  /\ \/ rpc = "reducing" /\ ~To!Unread /\ To!Overflows
     \/ wpc = "getting" /\ ~Back!Unread /\ Back!Overflows
  /\ ~aborted /\ aborted' = TRUE
  /\ UNCHANGED <<plan, workerVars, orders, reducerVars, to, back>>

WorkerStep == ~aborted /\ (NewMessage \/ Solved \/ GetFromReducer \/ AddClause \/ EndWorker)
ReducerStep == ~aborted /\ (StartReducer \/ Reduce \/ AwaitClause \/ StopReducer)
Ended == aborted \/ (wpc = "done" /\ rpc = "exit")
Rest == Ended /\ UNCHANGED vars

Next == WorkerStep \/ ReducerStep \/ Abort \/ Rest
Spec == Init /\ [][Next]_vars
FairSpec == Spec /\ WF_vars(WorkerStep) /\ WF_vars(ReducerStep)

-----------------------------------------------------------------------------
(* Properties.                                                             *)

(* The assertions of MpiBuffer::getClause hold on both sides: whatever has *)
(* been wrapped around, switched or skipped, a clause is read from its     *)
(* first literal to its zero.                                              *)
ReadsWholeClauses == To!ReadsWholeClause /\ Back!ReadsWholeClause

(* What comes back is used on the clause it was made from: the position is *)
(* one in the present solver's pool and the literals are among those of    *)
(* the clause there (the assertion of SatSolver::add_arbitrary_clause).    *)
(* Answers from an earlier phase would name memory of a deleted solver.    *)
ShortensOwnClause ==
  wpc = "getting" /\ Back!ClauseRead # << >> =>
    LET c == Back!ClauseRead
    IN  /\ litPoolOf(c) = 0
        /\ litPoolPosOf(c) + 1 \in DOMAIN litPool
        /\ ToSet(Lits(c)) \subseteq ToSet(litPool[litPoolPosOf(c) + 1])

(* The strengthener takes notice of the end: once the worker is done it    *)
(* leaves its loop, whatever clauses are still under way.                  *)
StrengthenerEnds == wpc = "done" ~> (rpc = "exit" \/ aborted)

(* Each direction is a channel that may lose clauses and does nothing else *)
(* to them (ClauseChannel): none is altered, doubled or moved before an    *)
(* older one, however the rings have wrapped around.                       *)
ToChannel   == INSTANCE ClauseChannel WITH transit <- To!InTransit
BackChannel == INSTANCE ClauseChannel WITH transit <- Back!InTransit
BothImplementChannels == ToChannel!Spec /\ BackChannel!Spec

(* Every message fits the buffer that is posted for it, a ring and its     *)
(* PADDING (MpiBuffer.h:37-42).                                            *)
EveryMessageFits == ~To!Overflows /\ ~Back!Overflows
=============================================================================
