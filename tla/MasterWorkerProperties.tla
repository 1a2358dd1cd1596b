------------------------ MODULE MasterWorkerProperties ------------------------
(***************************************************************************)
(* What the master and its workers must never do, what they must have      *)
(* achieved when they stop, and that they stop.                            *)
(***************************************************************************)
EXTENDS MasterWorker

-----------------------------------------------------------------------------
(* The conversation between the master and one worker                      *)

\* One side at a time has the turn, and polled says which: while a worker is
\* polled it waits and nothing is in flight; otherwise it has been sent
\* something, is solving, or has sent a request or a poll that closes its
\* turn.  So neither end's blocking MPI_Send can meet an end that is itself
\* sending (Master.cpp:147-177 against Worker.cpp:86-112).
Rendezvous ==
  \A w \in Worker :
    /\ Len(toWorker[w]) <= 1
    /\ toWorker[w] # <<>> => toMaster[w] = <<>> /\ wstate[w] \in {"idle", "paused"}
    /\ polled[w] /\ pc # "done" =>
         toWorker[w] = <<>> /\ toMaster[w] = <<>> /\ wstate[w] \in {"idle", "paused"}
    /\ ~polled[w] =>
         \/ toWorker[w] # <<>>
         \/ wstate[w] = "solving"
         \/ toMaster[w] # <<>> /\ toMaster[w][Len(toMaster[w])] \in {Request, Poll}

\* The message a worker will be working on once it has read its channel.
CurrentWork(w) ==
  IF toWorker[w] # <<>> /\ Head(toWorker[w]).tag = "NEW_ASSIGNMENT"
  THEN Head(toWorker[w]).msg
  ELSE work[w]

\* If the master thinks a worker has a message, the worker has that message,
\* so a REQUEST (Master.cpp:178-187) removes the message that was really
\* exhausted; and no pointer of the organiser outlives its message.
AssignedIsCurrent ==
  \A w \in Worker :
    /\ assigned[w] # NULL => assigned[w] = CurrentWork(w) /\ assigned[w] \in message_buffer
    /\ to_be_assigned[w] # NULL => to_be_assigned[w] \in message_buffer

\* A worker told to keep going (Master.cpp:169) has a search to keep going
\* with: it loaded a solver and has not already asked for other work.
ContinuesLiveSearch ==
  \A w \in Worker :
    toWorker[w] # <<>> /\ Head(toWorker[w]).tag = "POLL_FOR_REASSIGNMENT" =>
      wstate[w] = "paused" /\ work[w] # NULL

\* Once one worker has been killed nobody has anything left to say: no
\* answer stays unread in a channel (Master.cpp:136-142, 238-244).
KillIsLast ==
  pc = "done" => \A w \in Worker : toMaster[w] = <<>> /\ wstate[w] # "solving"

-----------------------------------------------------------------------------
(* Work is neither lost nor left aside                                     *)

\* A message that was taken from the solutions object is in the buffer, or
\* every answer to it has been registered, or its subgraph is finished.  One
\* worker's REQUEST removes the message from all workers (MasterOrganiser.cpp:
\* 66-74), so what the others on it still report must already be known.
\* (In modes 0 and 3 the search is cut short on purpose.)
NoWorkLost ==
  ENUMERATE_SOLUTIONS \in {1, 2} =>
    \A m \in issued :
      \/ m \in message_buffer
      \/ Subgraph[m.to] \in subgraph_finished
      \/ Covered(m, registered[m.to])

\* When assignments go out, every buffered message has a worker, no worker is
\* without one and the shares differ by at most one (MasterOrganiser.cpp:
\* 104-134); in particular a polled worker with nothing new has a message.
EveryMessageHeld ==
  pc = "send" /\ ~terminate_trigger =>
    /\ Idle = {}
    /\ \A m \in message_buffer : Holders(m) # {}
    /\ Balanced

\* While the master drains its workers in mode 1 the answers it throws away
\* are all known already (Master.cpp:193).
DrainedIsKnown ==
  ENUMERATE_SOLUTIONS = 1 /\ terminate_trigger =>
    \A w \in Worker : \A i \in DOMAIN toMaster[w] :
      LET s == toMaster[w][i]
      IN  s.tag = "SOLUTION" =>
            \A a \in TotalAssignments :
              MasterView(s.from, s.lits) \subseteq a
                => \E q \in registered[s.from] : q \subseteq a

\* A worker is moved off a message that is still to be done only if another
\* worker stays with it (the rebalancing of MasterOrganiser.cpp:113-133).
MovesLeaveSomeoneBehind ==
  [][\A w \in Worker : \A m \in message_buffer :
       assigned[w] = m /\ assigned'[w] \notin {NULL, m} => Holders(m)' # {}]_vars

\* What Master.cpp:220 says of the POLL branch: a worker is freed from its
\* message only when it is not the only one left on it.
RefreshLeavesSomeoneBehind ==
  [][\A w \in Worker :
       assigned[w] # NULL /\ assigned'[w] = NULL /\ assigned[w] \in message_buffer' =>
         \E v \in Worker \ {w} : assigned'[v] = assigned[w]]_vars

-----------------------------------------------------------------------------
(* The result                                                              *)

\* Whatever is reported for a terminal node is a solution of that node
\* together with all it depends on, however the unreported rest is chosen.
Sound ==
  \A s \in solutions : \A t \in TotalAssignments :
    s.lits \subseteq t =>
      \E a \in GlobalModels(s.from) : Project(a, Reporting) = Project(t, Reporting)

Satisfiable(t) == GlobalModels(t) # {}
TerminalNodes == {t \in Node : Terminal(t)}

\* Every solution of every terminal node has been reported.
AllReported ==
  \A t \in TerminalNodes : \A a \in GlobalModels(t) :
    \E s \in solutions : s.from = t /\ s.lits \subseteq a

\* At exit: every solution has been reported (mode 1), every satisfiable
\* subgraph has one (mode 2), there is one if there can be one (mode 0).  In
\* each of these modes no solution at exit (last_call_unsat) means unsatisfiable.
Complete ==
  pc = "done" =>
    CASE ENUMERATE_SOLUTIONS = 1 -> AllReported
      [] ENUMERATE_SOLUTIONS = 2 ->
           \A t \in TerminalNodes : Satisfiable(t) =>
             \E s \in solutions : Subgraph[s.from] = Subgraph[t]
      [] ENUMERATE_SOLUTIONS = 0 ->
           (\E t \in TerminalNodes : Satisfiable(t)) => solutions # {}
      [] OTHER -> TRUE

\* Modes 0 and 3 race to the first solution: there is never a second one,
\* though the other workers go on reporting until they are drained
\* (Master.cpp:62, 189-216).  From the first on answers are thrown away, so
\* that it is not pushed to the back of the vector again either.
SingleSolution == ENUMERATE_SOLUTIONS \in {0, 3} => Cardinality(solutions) <= 1
AtMostOne ==
  /\ SingleSolution
  /\ ENUMERATE_SOLUTIONS \in {0, 3} /\ solutions # {} => terminate_trigger

\* On a DAG in one piece mode 2 does the same (Master.cpp:64): the trigger is
\* raised before another answer is read.
AtMostOneConnected ==
  ENUMERATE_SOLUTIONS = 2 /\ (\A n, k \in Node : Subgraph[n] = Subgraph[k]) =>
    Cardinality(solutions) <= 1 /\ (solutions # {} => terminate_trigger \/ pc = "fill")

\* What Master.cpp:64 says of mode 2: one solution on each disjoint subgraph.
OnePerSubgraph ==
  ENUMERATE_SOLUTIONS = 2 =>
    \A s, t \in solutions : Subgraph[s.from] = Subgraph[t.from] => s = t

-----------------------------------------------------------------------------
(* Progress                                                                *)

\* Every run ends: the master leaves its loop and every worker exits.
Terminates == <>(pc = "done" /\ \A w \in Worker : wstate[w] = "exited")

\* What Master.cpp:63 says of mode 1: the work continues until every solution
\* has been found, and so not beyond.
StopsWhenComplete == (ENUMERATE_SOLUTIONS = 1 /\ AllReported) ~> (pc = "done")

\* In mode 1 the master and its workers are an enumeration of the DAG.
Enumeration == INSTANCE DagEnumeration WITH found <- registered, done <- (pc = "done")

\* What the solutions object has registered grows only by answers to
\* combinations of registered answers, and the loop is left exactly once and
\* only when nothing is missing (Master.cpp:73-236).
EnumeratesDag == Enumeration!FairSpec
=============================================================================
