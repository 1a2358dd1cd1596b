# Dagster in TLA+

Dagster solves a large SAT problem by cutting it into subproblems on the nodes
of a directed acyclic graph (DAG). An MPI master hands combinations of the
parents' answers to workers, collects what they find and feeds it to the nodes
below. This directory holds a specification of that program, the model-checking
runs over it, and proofs about it. File and line references are to
`src/dagster/`.

## 1. The system: inventory

| Part | Where | State | Operations |
|---|---|---|---|
| Master | `Master.cpp` | terminate trigger, finished subgraphs, solutions, nodes given work and nodes that answered | fill the buffer, allocate, send, receive (request, solution, poll), kill, dump and load a checkpoint |
| Organiser | `MasterOrganiser.cpp`, `DisorderedArray.h` | buffer of live messages; per worker: assigned, to_be_assigned, polled, needs_refresh | add, remove, allocate_assignments, refresh_except |
| Solutions store | `SolutionsInterface.h`, `TableSolutions.cpp`, `BDDSolutions.cpp` | answers per arc, combinations already given out, clauses against the answers of a node | input_message, output_message, get_additional_clauses, checkpoint |
| Worker | `Worker.cpp` | message in work, solver, count of solutions since the last poll, phase | receive assignment, poll or kill; run; reset for the next solution; drive helpers |
| Messages, MPI | `Message.cpp`, `MPICommsInterface.cpp` | one buffer | send, receive any source/any tag (in order per sender) |
| DAG and its CNFs | `Dag.cpp`, `CnfHolder.cpp`, `Cnf.cpp`, `RangeSet.h` | arcs, what they carry, clauses per node, depths, subgraphs | parse, check, assign depths, compile a message into a CNF |
| CDCL solver | `SatSolver.cpp`, `CnfManager.cpp` | trail, clauses, scores and order of variables, phases, suggestions | run (0 unsat, 1 sat, 2 paused), add clause, reset, trim a solution |
| Local search helpers | `gnovelty/`, `SatSolver.cpp` | prefix with its persistent receive, suggestion window, phase | accept a CNF or a prefix; publish suggestions, send answers |
| Strengthener | `strengthener/`, `SatSolver.cpp` | double ring buffers in both directions, work set, phase | take clauses, return shorter ones |
| Minisat back end | `minisat_solver/` | a solver per node | run, append clauses |
| Start-up and process groups | `main.cpp` | communicators | split the ranks into groups, seed the base nodes |
| Interactive decomposition | `interactive_functions.cpp` | – | find unsatisfiable nodes, split a node |

The master and a worker talk over MPI only, and so do a worker and its helpers,
in communicators of their own. The master receives from any worker;
a worker is either waiting for the master or solving. A worker's turn ends with
a REQUEST (its message is exhausted) or a POLL (it wants to know whether to go
on), possibly after SOLUTIONs. Several workers may be on the same message; an
answer of one makes the additional clauses of the others stale, so they are
freed at their next poll and restarted with newer clauses. The master talks to
the organiser and the store by calls, within one process.

What makes it hard: the master's idea of what a worker is doing may be outdated
when its answer arrives; one request removes a message from every worker;
refreshes and rebalancing throw searches away; answers keep coming while the
run is being shut down; checkpoints are cut while workers are busy. Below the
worker: answers, prefixes and clauses of one message are still under way when
the next has begun; rings of clauses overwrite their oldest ones; the solver is
interrupted anywhere and goes on, or is reset under a growing set of clauses.
`PROJECT.json` lists these hazards line by line, with the property that would
catch each or the reason none does. What correctness means for each part:

* master, organiser, workers: no message or solution is lost, none is reported
  that is not one, the racing modes report one, the run ends, sends never cross;
* store: each compatible combination is given out once and none is left behind;
* depths: every arc goes deeper, every depth is searched;
* helpers and strengthener: nothing from an earlier phase is used in a later
  one, no clause is altered on its way, no side waits for ever;
* solver: its answers are disjoint and together cover every model, what it
  learns follows, it never takes an open assignment for a model;
* process groups: every helper has one worker, and everyone is told to stop.

## 2. The modules

| Module | Models |
|---|---|
| `DagProblem` | arcs, messages as combinations of answers, compiling into a CNF, what a solver may answer, what worker and master cut from an answer; the meaning of the whole problem |
| `DagEnumeration` | abstract: what enumeration promises, without processes |
| `SolutionsStore` | abstract: what the master asks of its solutions object |
| `TableSolutions` | that object as the program has it by default: lists per arc, index tuples, pruned clauses |
| `MasterOrganiser` | the organiser's variables and operations |
| `MasterWorker` | master loop, worker loop and channels, over `MasterOrganiser` and `SolutionsStore` |
| `MasterWorkerProperties` | properties of `MasterWorker`, and its instance of `DagEnumeration` |
| `Checkpoint` | `MasterWorker` with a checkpoint file, crashes and restarts |
| `DagDepths` | `Dag::assign_depths_and_status`, step by step |
| `LocalSearch` | a worker's solver and its gNovelty processes: problems, prefixes, answers, the collective window |
| `ClauseBuffer` | one direction of an `MpiBuffer`: two rings on each side and what MPI carries |
| `ClauseChannel` | abstract: a channel that may lose clauses and does nothing else to them |
| `Strengthening` | a worker's solver and its strengthener over two `ClauseBuffer`s, implementing two `ClauseChannel`s |
| `CdclSearch` | the solver's own search, from the construction to the last answer of a message |
| `ProcessGroups` | how `main.cpp` divides the processes, the collective splits, and the kills at the end |
| `DagProblemProofs` | lemmas on the operators of `DagProblem`: literals, cubes, messages, what a search that ends has found |
| `MasterWorkerProofs` | proofs: the conversation of master and workers; every message held, safe moves; no work lost, completeness, soundness, the refinement of `DagEnumeration`; the same over crashes and restarts |
| `TableProofs` | proofs: the table and its refinement of `SolutionsStore` |
| `DagDepthsProofs` | proofs: depths and subgraphs |
| `LocalSearchProofs` | proofs: a worker and its gNovelty processes |
| `CdclSearchProofs` | proofs: folds, conflict analysis, trimming and resets; what the solver learns and answers, and when it loses no variable |
| `StrengtheningProofs` | proofs: the rings between a worker and its strengthener, what is read from them and whose clauses these are |
| `ProcessGroupsProofs` | proofs: the order of ranks in a communicator, groups and their members |
| `SmallDags`, `MC*` | the instances for TLC |

Correspondence with the code:

* **Literals and answers.** A literal is an integer as in DIMACS, a clause and
  an assignment a set of literals. With `-t 1` an answer is a cube that still
  satisfies the clauses (`verify_and_trim_Solution`), with `-t 0` a total
  assignment over the variables the CNF mentions. The solver appears by what
  `run()` may return: any answer that satisfies the clauses loaded, unsat when
  there is none, or a pause.
* **Messages.** A message is its destination and what came along each arc, so
  it is the pointer of the C++ code as well: the store gives out each
  combination once (`TableSolutions` shows that it does).
* **Master.** `pc` stands for the place in the loop. `PullMessage`/`EndFill` are
  lines 120–142, `Allocate`/`EndAllocate` are `allocate_assignments`,
  `Send`/`EndSend` lines 147–174, the three `Receive…` actions the branches from
  178, `SendKill` is `send_exit`. Workers are served in index order as in the
  code; the buffer is a set, since `DisorderedArray` reorders at every removal,
  and ties between messages of equal count are open.
* **Worker.** `StartSearch`, `ContinueSearch` and `Exit` are the three tags;
  `SearchUnsat`, `SearchPause`, `SearchSat` the outcomes of `run()`. `SearchSat`
  sends the answer, excludes it, and closes the turn or goes on; whether the
  reset notices that nothing is left is open.
* **Store.** `InputMessage` cuts an answer to what the node shows and registers
  it; `NextMessages` are the combinations not yet given out at the first depth,
  from one end, that has any; `AdditionalClauses` negates the registered answers.
  The table refines this: what `Identical` prunes from the clauses changes none
  of their models (`ClausesExcludeAnswers`).
* **Checkpoint.** `DumpCheckpoint` at the top of the loop saves what
  `dump_checkpoint` of master, store and organiser write; `CrashAndRestart` reads
  it back and sets the rest as on a first start. The six rotating files are one
  here: as a dump is optional at every turn, the file may be of any age.
* **Depths.** One step per node of a scan. The graph is any acyclic one.
* **Local search.** `wpc` is where the worker is in `SatSolver`: the constructor
  up to the collective `MPI_Win_allocate`, `sls__get_solutions`
  (`CheckSolutions`), `get_suggestion` when it sends a prefix, the destructor up
  to `MPI_Win_free`. A helper alternates `Flip` and `TestPrefix`, sends an answer
  if it has one, and loads the prefix last, from the buffer of a persistent
  receive that has been started again before (`MatchPrefix` fills it at any time
  it is active). The worker's own search is one action, `Run`.
* **Strengthener.** A clause is its literals and the two integers that say where
  the solver keeps it. Every literal is a number of its own for phase, clause
  and place, so that a clause that is not what it should be shows.
  `Solved`, `GetFromReducer` and `AddClause` are
  `solver_add_conflict_clause` (first all replies are read, then the clause is
  pushed); `Reduce`/`AwaitClause` a turn of `runReducingLoop`. What the reducer
  makes of a clause is any proper part of it, or nothing. `CloseOut`, `CloseIn`
  are the destructor of `MpiBuffer`: each message whose send or receive is
  cancelled may be lost or not.
* **Solver.** One implied literal per `Propagate`; `LearnAndBacktrack` is
  `learnClause`, `addClause`, `backtrack` and `assertCL`, with or without a
  restart; `Pause` is line 153 of `SatSolver.cpp`; `FoundModel` goes from
  `verify_and_trim_Solution` over `solver_add_conflict_clause` to
  `reset_solver`. Of the watch lists only the result is kept; where their order
  decides (which literal the trimming keeps, which of a clause's best variables
  is taken, in which order the literals of a clause are scored) the choice is open.
* **Groups.** A process works out group, index and role from its rank
  (`GroupOf`, `RoleOf`) and makes its `Splits` in the order of its branch of
  `main`; the k-th call of all is one collective operation, and `RanksIn` is the
  communicator that comes of it.

## 3. The runs

| Run | Instance | Question |
|---|---|---|
| `Join_modes` | two nodes joined by a third that refuses one combination; 2 workers; modes 0–3; a poll after each answer | conversation, book-keeping, no work lost, complete result, one winner |
| `Chain_trimmed` | two nodes in a chain, cubes as answers, 2 answers between polls, mode 1 | soundness, completeness, drained answers, refinement of `DagEnumeration` with liveness |
| `Islands_subgraphs` | two subgraphs, breadth first, one pause per search, modes 0–3 | the run ends despite refreshes and rebalancing |
| `Restart_enumerates` | the chain with one crash anywhere | nothing is lost over a restart |
| `Table_funnel` | a join whose parents' answers partly conflict, cubes | the table implements the store |
| `Depths_all` | all 543 acyclic graphs on 4 nodes | depths and subgraphs, and that the scans end |
| `Strengthener_ring` | rings of seven integers, a work set of two; six clauses in one message, or three and a next message with two | clauses are read whole, replies meet their own clause, both directions implement the channel, the strengthener ends |
| `Local_search` | two helpers with one and the same answer over two messages; one helper with three prefixes | answers fit the message and come once, the last prefix wins, helpers follow |
| `Cdcl_search` | 32 problems of up to ten clauses over five variables, answers over three of them; interrupted after three or four decisions | the answers are right, disjoint and complete, learnt clauses follow; until it is interrupted, the search of a problem without two-literal clauses takes models only |
| `Process_groups` | five modes, up to eleven processes, up to three local searches per worker | groups are complete and everyone finishes |
| `Ring_overflow` | the instance of `Strengthener_ring` | *violated*: every message fits its receive |
| `Paused_search` | four clauses over four variables, two interruptions | *violated*: the search never throws |

**Bounds and why they are enough.** Two workers are the least that can share a
message, make each other's clauses stale, take each other's message away and be
moved by rebalancing. The DAGs have the shapes that matter: chain
(an answer becomes work), join (combinations, some refused), two pieces
(subgraphs, mode 2). Two variables give nodes three answers, more than the
workers. `sat_solution_interrupt` is 1 or 2 so that polls fall between answers
(the program's default of 100 only makes them rarer). `MaxPauses` bounds the
pauses of one search; it starts again with every assignment. `MaxCrashes` is 1;
the state after a restart is a state like any other, but with an older store.
The graphs of `Depths_all` are all those with four nodes because a piece must be
able to grow upwards twice from its starting node and past a neighbour placed
before; for every larger number there are the proofs.

In `Strengthening` a ring holds one clause of two literals, its two positions and
its zero, and part of a second one, so that the second clause in one buffer wraps
it; within six answers wrapped rings are sent and received (`Ring_overflow` is
one of them) and buffers are switched with clauses left in the work set. The second
plan has a clause of three literals that
can be shortened and a reply that is under way when the phase changes.
`LocalSearch` needs two helpers for an answer to be found twice, three prefixes
for one to overtake the one being read, and two messages for a phase to be
stale. The problems of `Cdcl_search` are chosen such that a learnt clause has a
literal that looks redundant and is not, that a conflict leaves variables free
behind the place where the search for one goes on, that answers overlap unless
they are trimmed to the excluding clauses as well, and that unit clauses
conflict with each other; one has an empty clause; ten clauses of three and four
literals (`Long`) make several conflicts that leave variables free before `nextVar`,
with no clause of two. `MaxPauses` is one because an
interruption can make the search throw (`Paused_search`); its answers are right all the same. Eleven processes make two groups of the
largest kind, with every remainder.

**Deadlock** is checked in every run: `Terminated`, `Done`, `Rest` and
`Finalized` are the only ways to rest. (The table as a store never rests: an answer may be repeated.)

**Fairness.** `FairSpec` is weak fairness of the master's step and of each
worker's: each is a process in a loop without locks, MPI delivers what was sent,
and a blocking receive is just disabled while nothing is there. No fairness is
asked of which worker's message the master receives first. A search pauses only
finitely often before it answers (`MaxPauses`), which stands for a solver that
makes progress between two pauses. `DagDepths` is one function; its fairness is
that it runs.

`LocalSearch` is fair to each helper's steps, to the delivery of a message to a
receive that is posted, and to a collective call that all have entered; nothing
is asked of the worker's search or the master. `Strengthening` is fair to the
worker and to the strengthener as two processes in loops that never block
without polling. `ProcessGroups` asks that some process that can take a step
does. `CdclSearch` states no fairness: that its state graph is finite says that
clauses, answers and interruptions come to an end, and deadlock that it does not
stop before `finished` or `thrown`.

**What the two violated runs say.** They are the `findings` of `PROJECT.json`.

* `Ring_overflow`: `MpiBuffer.h:37` pads the buffers by 3 and every receive is
  posted for a ring and that padding; `sendBufferOut` (`MpiBuffer.cc:272`) sends
  one integer more whenever the end is not behind the beginning, as in a ring
  that has wrapped around. `Strengthening` goes on to model what follows: MPI
  reports the truncation and the program aborts (`Abort`).
* `Paused_search`: `run()` returns at `SatSolver.cpp:153` with a literal
  selected and not decided, and `nextVar` past its variable. The next `run()`
  does not come back to it unless a conflict lowers `nextVar`; when two
  interruptions skip both variables of a clause the search takes an assignment
  that leaves it open for a model, and line 210 throws.
  A search that is never interrupted can come to the same exception by another
  way, which `Stale_front` below shows.

**Configurations kept beside the runs.** Each is violated too, by a difference
that is narrower or that a comment states in passing; they can be checked by
hand with the module named.

| Configuration | Module | What it shows |
|---|---|---|
| `Islands_once` | `MCMasterWorker` | mode 2 can report more than one solution for a subgraph (`OnePerSubgraph`); what holds is `AtMostOneConnected` |
| `Refresh_alone` | `MCMasterWorker` | a worker is freed at its poll though nobody else works on its message (`RefreshLeavesSomeoneBehind`, against the comment on `refresh_except`) |
| `Bare_arc` | `MCMasterWorker` | with an arc that carries nothing, two workers restart each other for ever (`StopsWhenComplete`): the answers kept are empty and give no clause |
| `Restart_first` | `MCCheckpoint` | mode 0 can report two solutions over a restart (`SingleSolution`): the trigger is not in the checkpoint |
| `Helper_deadlock` | `MCLocalSearch` | if MPI does not buffer an answer (`Buffered = FALSE`), a helper in `MPI_Send` and a worker in the collective `MPI_Win_free` wait for each other (`HelpersFollow`) |
| `Stale_front` | `MCCdclSearch` | `NeverThrows` without any interruption, on a satisfiable problem with seven variables and twelve clauses (two minutes, trace below) |

In `Stale_front` the solver learns 5 from the decision of -5 and 7 from that of
-7, which implies -4; the second conflict puts -2 in front of the implication
list of 3. It decides -3, which implies 1 and -2, and meets a conflict. While
this is analysed 2 is popped, and scoring the antecedent of 1, that list, reads
the -2 (`CnfManager.cpp:308`): 2 is promoted, and as it is free now it stands
before `nextVar`, where nothing looks for it. The solver learns 3 and decides -1;
all other variables have been tried, 2 and 6 are free, and 2 ∨ 6 (after -5) is
open. Line 210 throws.

## 4. The proofs

All theorems hold for every value of the constants that the named assumptions
allow, and TLC evaluates these assumptions on its instances: `DagAssumption`,
`OrganiserAssumption`, `StoreAssumption`, `ModeAssumption`, `CrashAssumption`,
`TableAssumption`, `DepthsAssumption`, `LocalSearchAssumption`, `CdclAssumption`,
`StrengtheningAssumption` and `GroupsAssumption`. They are the types of what the program is given; that
there is at least one worker, that `NULL` is no message, and that nodes are
numbers and finitely many (the table scans them up to `dag->no_nodes`). The one that is more than a type is that arcs
go to a deeper node of the same subgraph, which `ArcsAlwaysGoDeeper` proves of
the code that computes depths and subgraphs. Of the clauses
`CdclAssumption` says that no literal is repeated in one, which the parser
refuses (`Cnf.cpp:367-374`). One theorem, `SolutionsAreSound`, has a hypothesis
of its own on what the arcs carry (`Decomposes`, below); beyond this nothing is
assumed of the clauses, of the arcs or of the answers.

**The problem** (`DagProblemProofs`). Three facts carry the rest.
`PossibleIsCovered`: a search that ends, having been told to avoid a set of
answers, has met every model that shows none of them. `Views`: what worker and
master cut from an answer, by tests that differ, comes to the same.
`ClosedFindsAll`: if every combination of registered answers is answered
completely, then every solution of a node has a registered answer (else one of
the shallowest nodes without would have a combination to go on).

**The conversation** (`MasterWorkerProofs`; any number of workers, any DAG, any
mode). The inductive invariant is `ConversationInv`:

* `TypeOK`;
* `Turns`: each worker is in exactly one situation – it is polled with empty
  channels (`MastersTurn`), it has one order unread (`Ordered`), it is solving
  and has sent only solutions (`Searching`), it has closed its turn with a tag
  that fits its state (`Closing`), or the run is over (`Killed`). `Rendezvous`
  alone is not inductive: it does not say what a closing tag tells about the
  worker, or that only solutions come before it;
* `HasWork`: who can go on has a message. With `MastersTurn` (a polled worker
  that is assigned something is paused) this is why a poll never meets a worker
  without a search;
* `AssignedIsCurrent`, and `Phases`, what the master knows in each part of its
  loop (at "send", unless it is stopping, nobody is idle, which the previous
  point needs).

There is one lemma per action, and lemmas on the sequences of a channel. From
the invariant follow `TypeCorrect`, `TakesTurns` (no two blocking sends meet),
`RequestsAreCurrent`, `ContinuesWithWork`, `NothingUnread`; `OneWinner` adds an
invariant of its own: in modes 0 and 3 there is no solution before the trigger
is up.

**The work** (in `MasterWorkerProofs`). `NoWorkLost` is far from inductive: that a REQUEST
finds every answer registered depends on what the worker had been told to avoid
when it started, on what it has added to that since, and on what is still in
its channel. `WorkInv` says it in thirteen parts, of which the central ones are
`LearntIsKnown` (each clause a search has been given or has added excludes an
answer that is registered or on its way), `ExhaustedIsKnown` (a worker that asks
for other work has found everything, as far as the master knows or will have
read by then), and `FreedIsGone` (a worker at work that the master thinks free
is on a message that is gone). `Drained` and `StopsAtOnce` say when the trigger
is up. It is inductive together with `ConversationInv`, again one lemma per
action. From it: `NothingLost`; `ReportsComplete`, by `ClosedFindsAll` when
nothing is waiting and nothing is in the buffer; `DrainsOnlyKnown`;
`OneWinnerConnected`; and `Enumerates`, the refinement of `DagEnumeration` by the
mapping of `Enumeration`: a step of the master that takes in a solution registers
an answer to a combination, the first kill is the halt, and every other step is
a stutter.

**Soundness** (`SolutionsAreSound`). An answer satisfies its own
node, given what came along the arcs. That the answers behind a reported solution
fit together to one assignment of all the nodes it depends on is more, and does
not follow from the code: two nodes may share a variable that no arc carries, and
the program takes for granted that the user's DAG is a decomposition. The theorem has
this as its hypothesis, `Decomposes` (`DagProblem`), one node at a time: an
assignment that satisfies a node, and agrees on each arc into it with one that
satisfies all that the parent depends on, agrees on what the node shows with one
that satisfies all that the node depends on. `SharedDecomposes` derives it from a
condition that can be read off the DAG, `SharedIsCarried`: each arc carries what
is shared across it. TLC evaluates that the instances decompose
(`InstancesDecompose`), except for `Bare_arc`, whose arc carries nothing. `FollowInv`
says that registered answers answer messages that were given out, and reported ones
are registered; from there the proof goes by induction over the
depth of the nodes (`DagProblemProofs`).

**The allocation** (in `MasterWorkerProofs`). `EveryMessageHeld` is a pigeonhole: as
shares differ by at most one and no worker is idle, a message without a worker
would leave at most one holder to each of the others, and they are fewer than
the workers. `AllocationInv` gives what that needs: no more messages
than workers in the buffer (it is filled only up to them), and balance from the
end of the allocation to the last send. `MovesAreSafe` is the action property
of the run `Islands_subgraphs`: only `Send` moves a worker, and it does so
within that balance.

**Crashes** (in `MasterWorkerProofs`; any number of crashes). `CheckpointInv` adds to
the two invariants above that the file, if there is one, satisfies `StoredInv`,
which is what `WorkInv` says of the variables that are dumped. Since a restart
empties the channels and frees the workers, this is enough for `WorkInv` to hold
again afterwards. `CrashesLoseNothing`, `RestartsComplete`, `RestartsAreSound` and
`RestartsOneWinnerConnected` are the earlier theorems for `CSpec`. (`AtMostOne`
is not among them and does not hold over a restart: `Restart_first`.)

**The table** (`TableProofs`). `TableInv`: the list of an arc is what the answers
show along it, each once; tuples done are indices into these lists; the clauses
exclude just the answers. New answers go to the ends of lists, so that a tuple
means the same message for ever (`TuplesStay`), and different tuples mean
different messages (`TuplesDiffer`). `TableIsStore` shows that `InputMessage`
and `NextMessages` of the abstract store are what the table does, the order of
depths included (`SomeFirstOpen`).

**Depths** (`DagDepthsProofs`; any number of nodes, any acyclic graph).
`DepthsInv`: nodes
have a depth exactly if they have an index (`Marked`); finished pieces are
closed under the arcs, ordered and in range; depths of the piece in progress lie
between the two recorded extremes; the nodes the present scan has passed are
closed and ordered as long as the scan has changed nothing (`PassedClosed`,
which makes a scan without change the end of the piece); `sum_allocated` counts
the nodes with a depth. `ArcsAlwaysGoDeeper` and `DepthsAlwaysInRange` follow.
For `SubgraphsHangTogether` a piece is shown to stay, at all times, on one side
of any set that no arc leaves or enters (`Separated`).

**Local searches** (`LocalSearchProofs`; any number of helpers, prefixes and
messages, with or without buffering by MPI). `LocalInv` says where worker and
helper can be at the same time (`InStep`), that the prefixes under way end with
the last one sent, or that this is in the helper's buffer, and that the prefix
of length 0 comes last (`HearsLast`); that what is in the buffer has been loaded
or will be at the end of the loop (`LoadsIt`); and whose turn it is (`InTurn`, over remainders).
`PrefixUpToDate` alone is not inductive: a prefix left over from the last message
would be taken for one of this, which only the order of the empty prefix and the
collective call rules out. `LateAnswersDropped`, `AnswersReportedOnce` and
`LastPrefixLoaded` follow.

**The solver** (`CdclSearchProofs`; any number of variables, any problems, any
number of interruptions and restarts). Scores, marks, trimming and the trail of a
reset are folds. `Folding` and `FoldedSoFar` turn a fold of the community modules
into a function on `0 .. n` with its steps; it is shown to exist by induction
over sets of numbers (`InductionUpTo`, from `LeastNatural`), which needs no
operator as a parameter. Each fold then has a lemma with its steps
(`OnlySteps`, `PopsSteps`, `KeepingsSteps` and so on) and one with what it
preserves.

* `TrailOK`: no variable twice; levels grow; an antecedent has its literal first
  and the negations of the others before it; a decision opens a level; and every
  model that is left satisfies the antecedents and what is set on level 1.
* `Learning` is the invariant of conflict analysis while the stack is popped:
  the marked variables are on what is left of the stack, those of lower levels are
  in the clause, the counter is the number of marked ones at this level, and
  every model falsifies a marked literal; at the end the clause is complete with
  the negation of one literal of this level. `RedundantFacts`: a literal
  whose antecedent is all marked is not needed (the model's first true literal
  of the clause, in the order of the trail, is kept). `LearntFacts`
  puts this together: what is learnt follows, is false but for
  its first literal at the assertion level, and has no repetition.
* `Inv` adds that each clause holds in every model left (`ClausesOK`), that a
  false clause has a literal of the present level, and none is false where the
  search selects (`ConflictsOK`, without which conflict analysis would have no
  literal to end at); that the units of excluded answers are on the trail at
  level 1 (`UnitsOK`); and of each answer that its extensions are models and that
  a clause or unit excludes it, so that the next one is kept apart from it
  (`AnswersOK`, `DisjointOK`).

`SolverInvariant` has one lemma per action; from it follow `LearntClausesFollow`,
`FinishedSearchesAreComplete` and `AnswersAreCubes`.

`LongClausesAreSearched` is about the order in which variables are tried. Not
every free variable is behind `nextVar`: what implies a variable of the first
level may have been dropped from the order for good. The invariant is `Complete`,
while nothing has been interrupted and the problem has no clause of two literals.
It says that no antecedent is an implication list, that variables on the trail,
in clauses and in the order are the problem's (`KnownOK`); that every
variable of the order before `nextVar` is on the trail (`OrderOK`), which has to be carried
through each single promotion, swap and pop of a conflict; and that a
variable which is not in the order is forced by the problem's clauses alone, so that it is on
the trail at level 1 whenever propagation has come to its end (`FirstLevelOK`).
When nothing is left to select every variable is therefore assigned, and as no
clause is false the assignment is a model. The order in which literals are scored
does not matter, only that a variable is still on the stack when it is
(`PromotedPassed`): just what an implication list's stale front fails to be.

**The rings** (`StrengtheningProofs`; rings and work sets of any size, any number
of messages and answers). `RingsInvariant` says of a ring what has been written
since it last wrapped around (`LapOK`): it ends with a zero, after each zero but
the last there come a literal and two positions at least, before each the two
positions, shifted so that none is zero; and if it has not wrapped yet it starts
with a literal. Of the older part nothing is said or needed: a message that the
receiver has room for starts behind a zero of the present lap (`MessageFacts`;
the others are those of `Ring_overflow`). So it carries whole clauses
(`SegmentOK`), and reading one leaves whole clauses (`ReadFacts`). `PushedLap`
is the step that wraps around; `Remainders` and `LeastNatural` replace what is
usually done by induction, and `DrainedFacts` shows that the recursive function
behind `push_to_reducer` exists and keeps all this. What holds of one buffer is
stated of any value of its variables, and `ToSide` and `BackSide` carry it to the
two instances. `ReadsAreWhole` follows.

Whose clauses these are is a second invariant (`PlacesInvariant`), needed because a
reply must fit the clause its position names *now*, after shortenings by other
replies and after a new message. It says that the strengthener is as many phases
behind as there are CNFs on their way to it, that no message is of a later phase
than its sender, and that a function gives each position of the present solver's
pool a place (work set, ring, wire, or none) such that every clause that can still
be read lies in the place of its position and is the only one there to name it,
with literals of the clause in the pool only. Clauses of earlier phases need no
place, as they are skipped. How an ownership moves is said once for any buffers
(`PushedHolds`, `SentHolds`, `TakenHolds`, `ReadHolds`, `DrainedHolds`); each action
then has a lemma that names the new places. Two replies must never name one
position: the first would shorten a clause that the second still takes for the
longer one. `ClausesKeepTheirPlace` is the invariant and
`ShorteningsAreOwn` the property, `ShortensOwnClause`, that follows.

**Groups** (`ProcessGroupsProofs`; any number of processes and of local
searches). Nothing that `GroupsComplete` speaks of changes after the start
(`Static`), so that the proof is of what each process computes from its own rank.
`RanksInOrder`: the numbering of a communicator's members is a bijection, and the
member with the least key is rank 0. `GroupIsFull`: a process, left over or not,
has the number of a group all of whose ranks exist. `GroupIsMade`: each of these
finds itself in that group, at its place. Hence, in each communicator, the leader
(the master, or the process at place 0) and its helpers are there and nobody
else; a lemma for each of the three says so, and `GroupsAreComplete` follows.

**Model-checked only**, and why:

* Liveness under fairness – `Terminates`, `DepthsAssigned`, `StrengthenerEnds`,
  `HelpersFollow`, `EveryoneFinishes`, and the fair part of `EnumeratesDag` – is
  outside the prover's reach.
* Of `Strengthening`, the refinement of `ClauseChannel`, which reads rings back as
  sequences of sequences of clauses; and `EveryMessageFits`, which is violated.

`NeverThrows` of `CdclSearch` is neither proved nor true: interruptions break it
(`Paused_search`), and so does the front of an implication list (`Stale_front`).
`LongClausesFindModels` says that nothing else does.

## 5. Not modelled, and assumptions

* Statistics, logging, timing messages, option parsing, file formats. The text
  of a checkpoint (its loader calls itself a draft, `TableSolutions.cpp:269`).
* Minisat mode: it adds the literals of the message to its answers
  (`minisat_solver.cc:180-189`), keeps solvers over messages, never pauses.
* The BDD store (diagrams of a library, to be compared as sets of cubes), the
  interval merging of `RangeSet`, and interactive mode (a console dialogue).
* `solutions` is a set where `Master.cpp:196` pushes to the back of a vector. A
  solution that is pushed twice would not show; `AtMostOne` and
  `AtMostOneConnected` therefore say of the trigger that nothing is pushed after
  the first. In mode 1 the order of the vector and repetitions in it are left out.
* **Local search.** Which literal is flipped; the suggestions in the window:
  whatever they hold is checked to be free before it is decided
  (`SatSolver.cpp:709`). Prefixes and answers are taken as buffered by MPI
  (`Buffered`), and so are prefixes of length zero and the problems, always.
  `MPI_Win_allocate` and `MPI_Win_free` are taken to wait for all processes.
* **Strengthener.** How a clause is shortened (a solver of its own in `SolRed`).
  `MpiBuffer`'s destructor frees the buffers before it cancels the requests that
  use them; a message is then taken as sent intact or lost. Positions are counted
  from 0 in each phase, as `litPools` does, with one pool. In mode 2 strengthener
  and local searches share nothing but the worker, so each is modelled alone.
* **Solver.** Options as they are by default: `solution_trimming` 1, no
  `pure_literal_assertion`, no `short_stopping`. The decay of scores (every 128
  conflicts) and the activity threshold `_DT` are left out; a restart may happen
  at any conflict. The order of propagation, of the literals that
  the watches and `addClause` move (and so in which a clause is scored and which
  of its equals is taken first), and of variables with equal scores at the
  start is open; the order of parsing is that of the problem. No liveness is stated for
  it, as said under fairness.
* **Groups.** Mode 2 starts from one local search per worker, as the user's
  documentation says ("one or more", `src/README.md:26`). With none, a process
  left over would be in the worker's communicator of local searches and leave at
  once (`main.cpp:202`), while the worker waits for it in the collective
  `MPI_Win_allocate` (`SatSolver.cpp:516`).
* `dumb_mode` of the table, and `solution_trimming = 2`
  (`purge_negative_literals`).
* The order of a node's parents in the table's search is that of their numbers
  (in the program, of the file).
* `_recursive_forward` also refuses very deep DAGs (`MAX_DAG_DEPTH`); the
  graphs here are below that.

## 6. Plan

Done: the distributed core (`DagProblem`, `MasterOrganiser`, `MasterWorker`,
`Checkpoint`, `SolutionsStore`, `TableSolutions`, `DagDepths`), the worker's side
(`LocalSearch`, `ClauseBuffer`, `Strengthening`, `CdclSearch`) and the start-up
(`ProcessGroups`); proofs of every safety property of the core, of the local
searches, of the start-up, of what the strengthener and its worker read from each
other, and of the solver, as far as they hold.

A theorem to come: that both directions of the rings implement `ClauseChannel`.

Modules that could follow: `BDDSolutions` as the second implementation of
`SolutionsStore`; `RangeSets` against sets; `UnsatNodes`, the analysis behind
interactive decomposition; the suggestion window of the local searches.
