----------------------------- MODULE MasterWorker -----------------------------
(***************************************************************************)
(* The Dagster core: the master loop (Master.cpp) hands messages to        *)
(* workers (Worker.cpp) over MPI, collects their solutions, builds new     *)
(* messages from them and shuts everything down.                           *)
(*                                                                         *)
(* The master is sequential; pc says where in its loop it is.  Between two *)
(* receives nothing another process does can be seen by it, so each of its *)
(* inner loops is a few steps and the blocking receive a choice among the  *)
(* workers that have sent something (MPI_ANY_SOURCE).  MPI keeps the order *)
(* of the messages of one sender: each direction of each worker is a       *)
(* sequence.                                                               *)
(***************************************************************************)
EXTENDS MasterOrganiser, SolutionsStore, Sequences

CONSTANTS
  Modes,                           \* the values ENUMERATE_SOLUTIONS may have
  sat_solution_interrupt,          \* solutions a worker reports between two polls
  MaxPauses                        \* bound: pauses (run() = 2) of one search

ASSUME ModeAssumption ==
  /\ Modes \subseteq 0 .. 3
  /\ sat_solution_interrupt \in Nat \ {0}
  /\ MaxPauses \in Nat

VARIABLES
  ENUMERATE_SOLUTIONS, \* fixed at the start; 0: first, 1: all, 2: one per
                       \* subgraph, 3: first, of the first of each message
  (* master *)
  pc,                \* where the master loop is
  terminate_trigger,
  subgraph_finished,
  solutions,         \* what the terminal nodes answered
  given,             \* dag_nodes_given_assignments
  generated,         \* dag_nodes_generated_solutions
  (* workers *)
  wstate,            \* what each worker is doing, or why it waits
  work,              \* its working_message
  learnt,            \* additional clauses and negated answers in its solver
  solution_count,
  pauses,            \* pauses its present search may still take
  (* MPI *)
  toWorker, toMaster

masterVars == <<pc, terminate_trigger, registered, issued, subgraph_finished,
                solutions, given, generated>>
workerVars == <<wstate, work, learnt, solution_count, pauses>>
channels   == <<toWorker, toMaster>>
vars       == <<ENUMERATE_SOLUTIONS, organiserVars, masterVars, workerVars, channels>>

-----------------------------------------------------------------------------
(* Messages on the wire, by their tag                                      *)

Assignment(m, cls) == [tag |-> "NEW_ASSIGNMENT", msg |-> m, clauses |-> cls]
Poll                == [tag |-> "POLL_FOR_REASSIGNMENT"]
Kill                == [tag |-> "KILL"]
Request             == [tag |-> "REQUEST_FOR_ASSIGNMENT"]
Solution(n, q)      == [tag |-> "SOLUTION", from |-> n, lits |-> q]

MasterMessage == [tag : {"NEW_ASSIGNMENT"}, msg : Message, clauses : SUBSET Cube]
                   \cup {Poll, Kill}
WorkerMessage == [tag : {"SOLUTION"}, from : Node, lits : Cube] \cup {Poll, Request}

WorkerStates == {"idle",     \* waits, its search ended or never began
                 "paused",   \* waits, its search can be continued
                 "solving", "exited"}

TypeOK ==
  /\ ENUMERATE_SOLUTIONS \in Modes
  /\ OrganiserTypeOK
  /\ pc \in {"fill", "allocate", "send", "receive", "exit", "done"}
  /\ terminate_trigger \in BOOLEAN
  /\ registered \in [Node -> SUBSET Cube]
  /\ issued \in SUBSET Message
  /\ subgraph_finished \in SUBSET Nat
  /\ solutions \in SUBSET [from : Node, lits : Cube]
  /\ given \in SUBSET Node
  /\ generated \in SUBSET Node
  /\ wstate \in [Worker -> WorkerStates]
  /\ work \in [Worker -> Message \cup {NULL}]
  /\ learnt \in [Worker -> SUBSET Cube]
  /\ solution_count \in [Worker -> Nat]
  /\ pauses \in [Worker -> Nat]
  /\ toWorker \in [Worker -> Seq(MasterMessage)]
  /\ toMaster \in [Worker -> Seq(WorkerMessage)]

Init ==
  /\ ENUMERATE_SOLUTIONS \in Modes
  /\ OrganiserInit
  /\ pc = "fill"
  /\ terminate_trigger = FALSE
  /\ StoreInit
  /\ subgraph_finished = {}
  /\ solutions = {}
  /\ given = {}
  /\ generated = {}
  /\ wstate = [w \in Worker |-> "idle"]
  /\ work = [w \in Worker |-> NULL]
  /\ learnt = [w \in Worker |-> {}]
  /\ solution_count = [w \in Worker |-> 0]
  /\ pauses = [w \in Worker |-> 0]
  /\ toWorker = [w \in Worker |-> <<>>]
  /\ toMaster = [w \in Worker |-> <<>>]

-----------------------------------------------------------------------------
(* Master: fill the message buffer                                         *)

BufferFull == Cardinality(message_buffer) >= NumWorkers

\* A message for a finished subgraph is dropped as soon as it is output.
PullMessage ==
  /\ pc = "fill" /\ ~terminate_trigger /\ ~BufferFull
  /\ \E m \in NextMessages :
       /\ issued' = issued \cup {m}
       /\ IF Subgraph[m.to] \in subgraph_finished
          THEN UNCHANGED message_buffer
          ELSE AddMessage(m)
  /\ UNCHANGED <<ENUMERATE_SOLUTIONS, assigned, to_be_assigned, polled,
                 needs_refresh, pc, terminate_trigger, registered,
                 subgraph_finished, solutions, given, generated, workerVars,
                 channels>>

\* (mutant: nothing more to pull, but the buffer still holds messages)
NothingToPull == Waiting = {}
OutOfWork == message_buffer = {}

\* (mutant: the exit loop stops at the first polled worker)
SomePolled == \E w \in Worker : polled[w]
AllPolled == \A w \in Worker : polled[w]

\* No work left raises the trigger; with it up and everyone polled, leave.
EndFill ==
  /\ pc = "fill"
  /\ terminate_trigger \/ BufferFull \/ Waiting = {}
  /\ terminate_trigger' = (terminate_trigger \/ OutOfWork)
  /\ pc' = IF terminate_trigger' /\ AllPolled THEN "exit" ELSE "allocate"
  /\ UNCHANGED <<ENUMERATE_SOLUTIONS, organiserVars, registered, issued,
                 subgraph_finished, solutions, given, generated, workerVars,
                 channels>>

-----------------------------------------------------------------------------
(* Master: allocate and send                                               *)

Allocate(w) ==
  /\ pc = "allocate"
  /\ DishOut(w) \/ Rebalance(w)
  /\ UNCHANGED <<ENUMERATE_SOLUTIONS, masterVars, workerVars, channels>>

EndAllocate ==
  /\ pc = "allocate" /\ AllocationDone
  /\ pc' = "send"
  /\ UNCHANGED <<ENUMERATE_SOLUTIONS, organiserVars, terminate_trigger,
                 registered, issued, subgraph_finished, solutions, given,
                 generated, workerVars, channels>>

SendAssignment(w) ==
  LET m == to_be_assigned[w]
  IN  /\ m # NULL
      /\ toWorker' = [toWorker EXCEPT ![w] =
                        Append(@, Assignment(m, AdditionalClauses(m.to)))]
      /\ given' = given \cup {m.to}
      /\ assigned' = [assigned EXCEPT ![w] = m]
      /\ to_be_assigned' = [to_be_assigned EXCEPT ![w] = NULL]
      /\ needs_refresh' = [needs_refresh EXCEPT ![w] = FALSE]

SendPoll(w) ==
  /\ to_be_assigned[w] = NULL
  /\ toWorker' = [toWorker EXCEPT ![w] = Append(@, Poll)]
  /\ UNCHANGED <<given, assigned, to_be_assigned, needs_refresh>>

Send(w) ==
  /\ pc = "send" /\ ~terminate_trigger
  /\ IsFirst(w, {v \in Worker : polled[v]})
  /\ SendAssignment(w) \/ SendPoll(w)
  /\ polled' = [polled EXCEPT ![w] = FALSE]
  /\ UNCHANGED <<ENUMERATE_SOLUTIONS, message_buffer, pc, terminate_trigger,
                 registered, issued, subgraph_finished, solutions, generated,
                 workerVars, toMaster>>

EndSend ==
  /\ pc = "send"
  /\ terminate_trigger \/ \A w \in Worker : ~polled[w]
  /\ pc' = "receive"
  /\ UNCHANGED <<ENUMERATE_SOLUTIONS, organiserVars, terminate_trigger,
                 registered, issued, subgraph_finished, solutions, given,
                 generated, workerVars, channels>>

-----------------------------------------------------------------------------
(* Master: receive from any worker                                         *)

Receive(w, tag) ==
  /\ pc = "receive"
  /\ toMaster[w] # <<>>
  /\ Head(toMaster[w]).tag = tag
  /\ toMaster' = [toMaster EXCEPT ![w] = Tail(@)]
  /\ pc' = "fill"

\* The worker is done with its message, and so is everybody else.
ReceiveRequest(w) ==
  /\ Receive(w, "REQUEST_FOR_ASSIGNMENT")
  /\ RemoveMessages({assigned[w]} \ {NULL})
  /\ polled' = [polled EXCEPT ![w] = TRUE]
  /\ UNCHANGED <<ENUMERATE_SOLUTIONS, needs_refresh, terminate_trigger,
                 registered, issued, subgraph_finished, solutions, given,
                 generated, workerVars, toWorker>>

\* A worker whose clauses are stale is freed from its message.
ReceivePoll(w) ==
  /\ Receive(w, "POLL_FOR_REASSIGNMENT")
  /\ assigned' = [assigned EXCEPT ![w] = IF needs_refresh[w] THEN NULL ELSE @]
  /\ polled' = [polled EXCEPT ![w] = TRUE]
  /\ UNCHANGED <<ENUMERATE_SOLUTIONS, message_buffer, to_be_assigned,
                 needs_refresh, terminate_trigger, registered, issued,
                 subgraph_finished, solutions, given, generated, workerVars,
                 toWorker>>

\* (mutant: only the worker's own message is destroyed)
DestroyOwnOnly(w, g) ==
  IF assigned[w] = NULL
  THEN UNCHANGED <<message_buffer, assigned, to_be_assigned, subgraph_finished>>
  ELSE /\ RemoveMessages({assigned[w]})
       /\ subgraph_finished' = subgraph_finished \cup {g}

\* Mode 2: the subgraph is finished and its messages are destroyed, unless
\* the worker's message was taken from it meanwhile.
FinishSubgraph(w, g) ==
  IF assigned[w] = NULL
  THEN UNCHANGED <<message_buffer, assigned, to_be_assigned, subgraph_finished>>
  ELSE /\ RemoveMessages({assigned[w]} \cup {m \in message_buffer : Subgraph[m.to] = g})
       /\ subgraph_finished' = subgraph_finished \cup {g}

\* (mutant: mode 3 is forgotten)
StopsInMode0 == ENUMERATE_SOLUTIONS = 0
StopsAtFirst == ENUMERATE_SOLUTIONS \in {0, 3}

\* The answer of a terminal node is a solution of the problem.
Solved(w, n, q) ==
  /\ solutions' = solutions \cup {[from |-> n, lits |-> MasterView(n, q)]}
  /\ terminate_trigger' = StopsAtFirst
  /\ IF ENUMERATE_SOLUTIONS = 2
     THEN FinishSubgraph(w, Subgraph[n])
     ELSE UNCHANGED <<message_buffer, assigned, to_be_assigned, subgraph_finished>>

ReceiveSolution(w) ==
  /\ Receive(w, "SOLUTION")
  /\ LET s == Head(toMaster[w])
     IN  /\ RefreshExcept(w)
         /\ generated' = generated \cup {s.from}
         /\ IF terminate_trigger
            THEN UNCHANGED registered
            ELSE InputMessage(s.from, s.lits)
         /\ IF ~terminate_trigger /\ Terminal(s.from)
            THEN Solved(w, s.from, s.lits)
            ELSE UNCHANGED <<solutions, terminate_trigger, message_buffer, assigned,
                             to_be_assigned, subgraph_finished>>
  /\ UNCHANGED <<ENUMERATE_SOLUTIONS, polled, issued, given, workerVars,
                 toWorker>>

\* send_exit
SendKill ==
  /\ pc = "exit"
  /\ toWorker' = [w \in Worker |-> Append(toWorker[w], Kill)]
  /\ pc' = "done"
  /\ UNCHANGED <<ENUMERATE_SOLUTIONS, organiserVars, terminate_trigger,
                 registered, issued, subgraph_finished, solutions, given,
                 generated, workerVars, toMaster>>

-----------------------------------------------------------------------------
(* Worker                                                                  *)

WorkerReceive(w, tag) ==
  /\ wstate[w] \in {"idle", "paused"}
  /\ toWorker[w] # <<>>
  /\ Head(toWorker[w]).tag = tag
  /\ toWorker' = [toWorker EXCEPT ![w] = Tail(@)]

\* A new solver, with the message and the additional clauses loaded.
StartSearch(w) ==
  /\ WorkerReceive(w, "NEW_ASSIGNMENT")
  /\ work' = [work EXCEPT ![w] = Head(toWorker[w]).msg]
  /\ learnt' = [learnt EXCEPT ![w] = Head(toWorker[w]).clauses]
  /\ wstate' = [wstate EXCEPT ![w] = "solving"]
  /\ solution_count' = [solution_count EXCEPT ![w] = 0]
  /\ pauses' = [pauses EXCEPT ![w] = MaxPauses]
  /\ UNCHANGED <<ENUMERATE_SOLUTIONS, organiserVars, masterVars, toMaster>>

ContinueSearch(w) ==
  /\ WorkerReceive(w, "POLL_FOR_REASSIGNMENT")
  /\ wstate' = [wstate EXCEPT ![w] = "solving"]
  /\ solution_count' = [solution_count EXCEPT ![w] = 0]
  /\ UNCHANGED <<ENUMERATE_SOLUTIONS, organiserVars, masterVars, work, learnt,
                 pauses, toMaster>>

Exit(w) ==
  /\ WorkerReceive(w, "KILL")
  /\ wstate' = [wstate EXCEPT ![w] = "exited"]
  /\ UNCHANGED <<ENUMERATE_SOLUTIONS, organiserVars, masterVars, work, learnt,
                 solution_count, pauses, toMaster>>

\* run() = 0
SearchUnsat(w) ==
  /\ wstate[w] = "solving"
  /\ Models(work[w], learnt[w]) = {}
  /\ toMaster' = [toMaster EXCEPT ![w] = Append(@, Request)]
  /\ wstate' = [wstate EXCEPT ![w] = "idle"]
  /\ UNCHANGED <<ENUMERATE_SOLUTIONS, organiserVars, masterVars, work, learnt,
                 solution_count, pauses, toWorker>>

\* run() = 2
SearchPause(w) ==
  /\ wstate[w] = "solving"
  /\ pauses[w] > 0
  /\ pauses' = [pauses EXCEPT ![w] = @ - 1]
  /\ toMaster' = [toMaster EXCEPT ![w] = Append(@, Poll)]
  /\ wstate' = [wstate EXCEPT ![w] = "paused"]
  /\ UNCHANGED <<ENUMERATE_SOLUTIONS, organiserVars, masterVars, work, learnt,
                 solution_count, toWorker>>

\* (mutant: the closing tag overtakes the answer)
TagThenAnswer(answer, tag) == <<tag, answer>>
AnswerThenTag(answer, tag) == <<answer, tag>>

\* run() = 1: report the answer, exclude it, and go on, ask whether to go on,
\* or finish.  The reset may or may not notice that nothing is left.
SearchSat(w) ==
  /\ wstate[w] = "solving"
  /\ \E q \in Answers(work[w], learnt[w]) :
       LET answer  == Solution(work[w].to, q)
           count   == solution_count[w] + 1
           learnt1 == IF q = {} THEN learnt[w] ELSE learnt[w] \cup {Negated(q)}
           over    == q = {} \/ ENUMERATE_SOLUTIONS = 3
       IN  /\ learnt' = [learnt EXCEPT ![w] = learnt1]
           /\ solution_count' = [solution_count EXCEPT ![w] = count]
           /\ \/ /\ over \/ Models(work[w], learnt1) = {}
                 /\ toMaster' = [toMaster EXCEPT ![w] = @ \o AnswerThenTag(answer, Request)]
                 /\ wstate' = [wstate EXCEPT ![w] = "idle"]
              \/ /\ ~over /\ count >= sat_solution_interrupt
                 /\ toMaster' = [toMaster EXCEPT ![w] = @ \o AnswerThenTag(answer, Poll)]
                 /\ wstate' = [wstate EXCEPT ![w] = "paused"]
              \/ /\ ~over /\ count < sat_solution_interrupt
                 /\ toMaster' = [toMaster EXCEPT ![w] = Append(@, answer)]
                 /\ UNCHANGED wstate
  /\ UNCHANGED <<ENUMERATE_SOLUTIONS, organiserVars, masterVars, work, pauses,
                 toWorker>>

-----------------------------------------------------------------------------
Search(w) == SearchUnsat(w) \/ SearchPause(w) \/ SearchSat(w)

WorkerStep(w) == StartSearch(w) \/ ContinueSearch(w) \/ Exit(w) \/ Search(w)

MasterStep ==
  \/ PullMessage \/ EndFill
  \/ \E w \in Worker : Allocate(w)
  \/ EndAllocate
  \/ \E w \in Worker : Send(w)
  \/ EndSend
  \/ \E w \in Worker : ReceiveRequest(w) \/ ReceivePoll(w) \/ ReceiveSolution(w)
  \/ SendKill

Terminated ==
  /\ pc = "done" /\ \A w \in Worker : wstate[w] = "exited"
  /\ UNCHANGED vars

Next == MasterStep \/ (\E w \in Worker : WorkerStep(w)) \/ Terminated

Spec == Init /\ [][Next]_vars

\* MPI delivers, and no process stops in the middle of its loop.
FairSpec ==
  Spec /\ WF_vars(MasterStep) /\ \A w \in Worker : WF_vars(WorkerStep(w))
=============================================================================
