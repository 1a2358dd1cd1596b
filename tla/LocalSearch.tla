---------------------------- MODULE LocalSearch ----------------------------
(***************************************************************************)
(* Mode 1 (and the local searches of mode 2): a worker's solver and its    *)
(* helpers, gNovelty processes that look for answers to the same problem   *)
(* by local search (SatSolver.cpp, gnovelty/gnovelty_main.cc).             *)
(* The worker sends each helper the problem, and as it decides literals it *)
(* sends them, in turn, prefixes to search under; helpers send it answers. *)
(* For every message of the master there is a new solver; a prefix of      *)
(* length 0 makes a helper leave its search, and both sides free and       *)
(* allocate the window that holds the suggestions, which is collective.    *)
(***************************************************************************)
EXTENDS Integers, Sequences, FiniteSets, Functions, SequencesExt

CONSTANTS
  Plans,       \* bounds: see plan
  Buffered     \* MPI_Send of prefixes and answers returns before they are received

ASSUME LocalSearchAssumption ==
  /\ Buffered \in BOOLEAN
  /\ Plans \subseteq [numSLSProcesses : Nat \ {0}, prefixes : Nat,
                      messages : Seq([answers : Nat, unit : BOOLEAN])]

VARIABLES
  plan,       \* helpers, prefixes per message, and the master's messages:
              \* how many answers, and whether they are of one literal
  wpc,        \* the worker: "idle", "allocating", "checking", "running", "prefixing",
              \* "polling", "finished", "deleting", "ending", "done"
  phase,      \* Worker::phase
  request,    \* sls_solution_request: null, posted, or the answer received
  given,      \* the answers to this message, in order
  sent,       \* how many prefixes have been sent for this message
  currentSLS, \* the helper that the next prefix is for
  orders,     \* to each helper: phases of problems, or -1
  prefixes,   \* to each helper: prefixes not received
  sols,       \* from each helper: answers not received
  hpc,        \* each helper: "idle", "allocating", "searching", "testing",
              \* "sending", "freeing", "exit"
  search      \* what a helper knows; see NewSearch

workerVars == <<wpc, phase, request, given, sent, currentSLS>>
wires == <<orders, prefixes, sols>>
vars == <<plan, workerVars, wires, hpc, search>>

Helpers == 1 .. plan.numSLSProcesses
Problem == plan.messages[phase + 1]
Answers(p) == {<<p, a>> : a \in 1 .. plan.messages[p + 1].answers}

(* A helper's problem, the answers it excludes from now on, whether the    *)
(* present assignment is an answer, the persistent receive (whether it has *)
(* been started and not completed, the buffer, the length of the last      *)
(* message), the length it has taken note of, and the prefix it is under.  *)
(* A prefix is a number and its length.  An answer is a phase and a number.*)
NoPrefix == [id |-> 0, len |-> 0]
Null == <<-1, 0>>            \* two requests without an answer
Posted == <<-1, 1>>
NewSearch(p) == [phase |-> p, nogoods |-> {}, found |-> FALSE, active |-> TRUE,
                 buffer |-> 0, len |-> 0, got |-> 0, loaded |-> NoPrefix]

Init ==
  /\ plan \in Plans
  /\ wpc = "idle" /\ phase = -1 /\ request = Null /\ given = << >>
  /\ sent = 0 /\ currentSLS = 1
  /\ orders = [h \in Helpers |-> << >>]
  /\ prefixes = [h \in Helpers |-> << >>]
  /\ sols = [h \in Helpers |-> << >>]
  /\ hpc = [h \in Helpers |-> "idle"]
  /\ search = [h \in Helpers |-> NewSearch(-1)]

-----------------------------------------------------------------------------
(* The worker.                                                             *)

SendOrders(o) == orders' = [h \in Helpers |-> Append(orders[h], o)]

(* initialise_solver_from_message and the constructor of SatSolver up to   *)
(* the allocation of the window.                                           *)
NewSolver ==
  /\ wpc' = "allocating" /\ phase' = phase + 1
  /\ SendOrders(phase + 1)
  /\ request' = Null /\ given' = << >> /\ sent' = 0 /\ currentSLS' = 1

(* ~SatSolver: a prefix of length 0 to each helper, and then it frees the  *)
(* window.                                                                 *)
SignalAllButLast ==          \* a slip
  [h \in Helpers |-> IF h < plan.numSLSProcesses THEN Append(prefixes[h], NoPrefix) ELSE prefixes[h]]
SignalCompletion == [h \in Helpers |-> Append(prefixes[h], NoPrefix)]

ReceiveAssignment ==
  /\ phase + 1 < Len(plan.messages)
  /\ \/ /\ wpc = "idle" /\ NewSolver /\ UNCHANGED <<plan, prefixes, sols, hpc, search>>
     \/ /\ wpc \in {"polling", "finished"}
        /\ wpc' = "deleting" /\ prefixes' = SignalCompletion
        /\ UNCHANGED <<plan, phase, request, given, sent, currentSLS, orders, sols, hpc, search>>

ReceiveKill ==
  \/ /\ wpc = "idle"
     /\ wpc' = "done" /\ SendOrders(-1)
     /\ UNCHANGED <<plan, phase, request, given, sent, currentSLS, prefixes, sols, hpc, search>>
  \/ /\ wpc \in {"polling", "finished"}
     /\ wpc' = "ending" /\ prefixes' = SignalCompletion
     /\ UNCHANGED <<plan, phase, request, given, sent, currentSLS, orders, sols, hpc, search>>

(* A poll that the master sends back: run() again.                         *)
ReceivePoll ==
  /\ wpc = "polling" /\ wpc' = "checking"
  /\ UNCHANGED <<plan, phase, request, given, sent, currentSLS, wires, hpc, search>>

(* The collective calls.  Once the window is free the receive is cancelled *)
(* and what it has received is lost.                                       *)
WinAllocate ==
  /\ wpc = "allocating" /\ \A h \in Helpers : hpc[h] = "allocating"
  /\ wpc' = "checking"
  /\ hpc' = [h \in Helpers |-> "searching"]
  /\ UNCHANGED <<plan, phase, request, given, sent, currentSLS, wires, search>>

WinFree ==
  /\ \A h \in Helpers : hpc[h] = "freeing"
  /\ hpc' = [h \in Helpers |-> "idle"]
  /\ \/ wpc = "deleting" /\ NewSolver
     \/ /\ wpc = "ending" /\ wpc' = "done" /\ SendOrders(-1) /\ request' = Null
        /\ UNCHANGED <<phase, given, sent, currentSLS>>
  /\ UNCHANGED <<plan, prefixes, sols, search>>

(* sls__get_solutions, at the start of run() and every so many decisions.  *)
(* An answer of another phase is dropped, and so is one that a clause      *)
(* rules out.  A clause of one literal is not in clauses but in            *)
(* unit_conflicts, where the check does not look.                          *)
Excluded == IF Problem.unit THEN {} ELSE ToSet(given)
NovelIfCurrent(answer) == answer[1] = phase                     \* two slips
NovelInAnyPhase(answer) == answer \notin Excluded
Novel(answer) == answer[1] = phase /\ answer \notin Excluded

Answer(answer) ==
  /\ given' = Append(given, answer)
  /\ wpc' \in {"checking", "polling", "finished"}

CheckSolutions ==
  /\ wpc = "checking"
  /\ \/ request = Null /\ request' = Posted /\ UNCHANGED <<wpc, given>>
     \/ request = Posted /\ wpc' = "running" /\ UNCHANGED <<request, given>>
     \/ /\ request \notin {Null, Posted} /\ Novel(request)
        /\ Answer(request) /\ request' = Null
     \/ /\ request \notin {Null, Posted} /\ ~Novel(request)
        /\ request' = Posted /\ wpc' = "running" /\ UNCHANGED given
  /\ UNCHANGED <<plan, phase, sent, currentSLS, wires, hpc, search>>

(* get_suggestion at the first decision of a tier: the literals that are   *)
(* set go to the next helper.  Which suggestions are read is left out.     *)
SendPrefix ==
  /\ wpc = "running" /\ sent < plan.prefixes
  /\ wpc' = "prefixing" /\ sent' = sent + 1
  /\ \E len \in 1 .. 2 :
       prefixes' = [prefixes EXCEPT ![currentSLS] = Append(@, [id |-> sent + 1, len |-> len])]
  /\ UNCHANGED <<plan, phase, request, given, currentSLS, orders, sols, hpc, search>>

PrefixSent ==
  /\ wpc = "prefixing" /\ (Buffered \/ prefixes[currentSLS] = << >>)
  /\ wpc' = "running" /\ currentSLS' = (currentSLS % plan.numSLSProcesses) + 1
  /\ UNCHANGED <<plan, phase, request, given, sent, wires, hpc, search>>

(* The search of the solver itself: it finds an answer, shows that there   *)
(* are no more, is interrupted, or goes on until the next check.           *)
Run ==
  /\ wpc = "running"
  /\ \/ \E answer \in Answers(phase) \ ToSet(given) : Answer(answer)
     \/ Answers(phase) \subseteq ToSet(given) /\ wpc' = "finished" /\ UNCHANGED given
     \/ wpc' \in {"polling", "checking"} /\ UNCHANGED given
  /\ UNCHANGED <<plan, phase, request, sent, currentSLS, wires, hpc, search>>

-----------------------------------------------------------------------------
(* MPI.                                                                    *)

(* The posted receive takes an answer of any helper, the oldest of its.    *)
MatchSolution(h) ==
  /\ request = Posted /\ sols[h] # << >>
  /\ request' = Head(sols[h]) /\ sols' = [sols EXCEPT ![h] = Tail(@)]
  /\ UNCHANGED <<plan, wpc, phase, given, sent, currentSLS, orders, prefixes, hpc, search>>

(* The persistent receive fills the buffer at any time it is active; an    *)
(* empty message leaves it as it is.                                       *)
MatchPrefix(h) ==
  /\ search[h].active /\ prefixes[h] # << >> /\ hpc[h] \in {"searching", "testing", "sending"}
  /\ LET m == Head(prefixes[h])
     IN  search' = [search EXCEPT ![h].active = FALSE, ![h].len = m.len,
                                  ![h].buffer = IF m.len = 0 THEN @ ELSE m.id]
  /\ prefixes' = [prefixes EXCEPT ![h] = Tail(@)]
  /\ UNCHANGED <<plan, workerVars, orders, sols, hpc>>

-----------------------------------------------------------------------------
(* Helper h.                                                               *)

Goto(h, pc) == hpc' = [hpc EXCEPT ![h] = pc]

ReceiveOrder(h) ==
  /\ hpc[h] = "idle" /\ orders[h] # << >>
  /\ orders' = [orders EXCEPT ![h] = Tail(@)]
  /\ IF Head(orders[h]) = -1
     THEN Goto(h, "exit") /\ UNCHANGED search
     ELSE Goto(h, "allocating") /\ search' = [search EXCEPT ![h] = NewSearch(Head(orders[h]))]
  /\ UNCHANGED <<plan, workerVars, prefixes, sols>>

(* Some flips, which may end in an answer.                                 *)
Flip(h) ==
  /\ hpc[h] = "searching" /\ Goto(h, "testing")
  /\ \E f \in {FALSE} \cup (IF Answers(search[h].phase) \subseteq search[h].nogoods
                            THEN {} ELSE {TRUE}) :
       search' = [search EXCEPT ![h].found = f, ![h].got = 0]
  /\ UNCHANGED <<plan, workerVars, wires>>

(* MPI_Test has a prefix: an empty one ends the search; otherwise the      *)
(* receive is started again and tested again.                              *)
TestPrefix(h) ==
  /\ hpc[h] = "testing" /\ ~search[h].active
  /\ IF search[h].len = 0
     THEN Goto(h, "freeing") /\ UNCHANGED search
     ELSE search' = [search EXCEPT ![h].active = TRUE, ![h].got = search[h].len] /\ UNCHANGED hpc
  /\ UNCHANGED <<plan, workerVars, wires>>

(* loadPrefix, the last thing in the loop: what is in the buffer by now,   *)
(* with the length of the message that was tested.                         *)
LoadUnlessFound(s) ==        \* a slip: it is the present assignment that is sent
  IF s.got = 0 \/ s.found THEN s ELSE [s EXCEPT !.loaded = [id |-> s.buffer, len |-> s.got]]
LoadPrefix(s) ==
  IF s.got = 0 THEN s ELSE [s EXCEPT !.loaded = [id |-> s.buffer, len |-> s.got]]

NoAnswer(h) ==
  /\ hpc[h] = "testing" /\ search[h].active /\ ~search[h].found
  /\ search' = [search EXCEPT ![h] = LoadPrefix(@)]
  /\ Goto(h, "searching")
  /\ UNCHANGED <<plan, workerVars, wires>>

SendAnswer(h) ==
  /\ hpc[h] = "testing" /\ search[h].active /\ search[h].found
  /\ \E answer \in Answers(search[h].phase) \ search[h].nogoods :
       /\ search' = [search EXCEPT ![h].nogoods = @ \cup {answer}]
       /\ sols' = [sols EXCEPT ![h] = Append(@, answer)]
  /\ Goto(h, "sending")
  /\ UNCHANGED <<plan, workerVars, orders, prefixes>>

AnswerSent(h) ==
  /\ hpc[h] = "sending" /\ (Buffered \/ sols[h] = << >>)
  /\ search' = [search EXCEPT ![h] = LoadPrefix(@)]
  /\ Goto(h, "searching")
  /\ UNCHANGED <<plan, workerVars, wires>>

-----------------------------------------------------------------------------
Collective == WinAllocate \/ WinFree
MasterStep == ReceiveAssignment \/ ReceiveKill \/ ReceivePoll
SolverStep == CheckSolutions \/ SendPrefix \/ PrefixSent \/ Run
HelperStep(h) == \/ ReceiveOrder(h) \/ Flip(h) \/ TestPrefix(h) \/ NoAnswer(h)
                 \/ SendAnswer(h) \/ AnswerSent(h)
Progress(h) == MatchSolution(h) \/ MatchPrefix(h)

Rest == wpc = "done" /\ (\A h \in Helpers : hpc[h] = "exit") /\ UNCHANGED vars

Next == MasterStep \/ SolverStep \/ Collective \/ Rest
        \/ \E h \in Helpers : HelperStep(h) \/ Progress(h)
Spec == Init /\ [][Next]_vars

(* Every helper takes its steps, MPI delivers what it can to a receive     *)
(* that is waiting, and a collective call that all have entered returns.   *)
(* Nothing is asked of the solver's search or of the master.               *)
AnyHelper == UNION {1 .. p.numSLSProcesses : p \in Plans}
FairSpec ==
  /\ Spec /\ WF_vars(Collective)
  /\ \A h \in AnyHelper : /\ WF_vars(h \in Helpers /\ HelperStep(h))
                          /\ WF_vars(h \in Helpers /\ Progress(h))

-----------------------------------------------------------------------------
(* Properties.                                                             *)

(* The answers the worker reports for a message are answers to that        *)
(* message, whatever is still under way from helpers that were working on  *)
(* the last one when the solver was replaced.                              *)
AnswersFitMessage == \A i \in DOMAIN given : given[i][1] = phase

(* No answer is reported twice for one message, whether solver or helpers  *)
(* find it.  The exception is an answer of one literal: its clause is not  *)
(* among those that a helper's answer is compared with.                    *)
AnswersOnce == phase >= 0 /\ ~Problem.unit => IsInjective(given)

(* A helper that goes on with its search and has no prefix left to take    *)
(* note of is under the last one it was sent.  It may for a while be under *)
(* one that was never sent, with the literals of one message and the       *)
(* length of another, but not for good.                                    *)
LastSent(h) ==
  LET n == plan.numSLSProcesses
      mine == {k \in 1 .. sent : ((k - 1) % n) + 1 = h}
  IN  IF mine = {} THEN 0 ELSE CHOOSE k \in mine : \A l \in mine : l <= k
PrefixUpToDate ==
  \A h \in Helpers :
    hpc[h] = "searching" /\ search[h].phase = phase /\ search[h].active /\ prefixes[h] = << >>
      => search[h].loaded.id = LastSent(h)

(* A solver can be replaced, and a worker can end: its helpers leave their *)
(* search for the collective call, and then go on or exit with it.         *)
HelpersFollow ==
  /\ wpc = "deleting" ~> wpc = "checking"
  /\ wpc \in {"ending", "done"} ~> (wpc = "done" /\ \A h \in Helpers : hpc[h] = "exit")
=============================================================================
