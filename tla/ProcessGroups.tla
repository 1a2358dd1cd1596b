---------------------------- MODULE ProcessGroups ----------------------------
(***************************************************************************)
(* How main.cpp divides the processes: rank 0 is the master, the others    *)
(* form groups of a worker and its helpers, and what is left of a group at *)
(* the end joins the one before.  Each process finds its group, its index  *)
(* in it and its part from its own rank, and makes a sequence of calls of  *)
(* MPI_Comm_split, which are collective: the k-th call of all processes is *)
(* one operation.  At the end the master kills the workers and each worker *)
(* its helpers.                                                            *)
(***************************************************************************)
EXTENDS Integers, Sequences, FiniteSets, Functions

CONSTANTS
  MaxWorldSize,      \* bound: processes
  MaxNoveltyNumber   \* bound: local searches asked for per worker (-k)

ASSUME GroupsAssumption == MaxWorldSize \in Nat /\ MaxNoveltyNumber \in Nat

VARIABLES
  mode, world_size, novelty_number,
  role,      \* rank -> what the process is
  splits,    \* rank -> the calls of MPI_Comm_split it will make
  calls,     \* rank -> the calls of MPI_Comm_split it has made
  killed,    \* ranks that have been sent a kill
  exited     \* ranks that have reached MPI_Finalize

arguments == <<mode, world_size, novelty_number, role, splits>>
vars == <<arguments, calls, killed, exited>>

MPI_UNDEFINED == -1
Mode == 0 .. 4       \* 0: workers, 1: with local searches, 2: and a strengthener
                     \* each, 3: with a strengthener each, 4: workers, by Minisat
NoveltyNumber(m) == IF m = 1 THEN 0 .. MaxNoveltyNumber ELSE IF m = 2 THEN 1 .. MaxNoveltyNumber ELSE {0}
Rank == 0 .. world_size - 1

(* Processes in a full group.                                              *)
GroupSize ==
  CASE mode \in {0, 4} -> 1
    [] mode = 1 -> 1 + novelty_number
    [] mode = 2 -> 2 + novelty_number
    [] mode = 3 -> 2

(* The program does not start on fewer processes.                          *)
Starts ==
  /\ world_size >= 1 + GroupSize
  /\ mode = 3 => (world_size - 1) % 2 = 0

(* The last group is not full; in modes 0, 3 and 4 there is no such group. *)
UnderfullByTwo(group) == (group + 1) * GroupSize >= world_size + 1
Underfull(group) == (group + 1) * GroupSize >= world_size

GroupOf(rank) ==
  LET group == (rank - 1) \div GroupSize
      index == (rank - 1) % GroupSize
  IN  IF Underfull(group) THEN [number |-> group - 1, index |-> index + GroupSize]
      ELSE [number |-> group, index |-> index]

RoleOf(rank) ==
  LET index == GroupOf(rank).index IN
  CASE rank = 0 -> "master"
    [] rank > 0 /\ index = 0 -> "worker"
    [] rank > 0 /\ index = 1 /\ mode \in {2, 3} -> "strengthener"
    [] OTHER -> "gnovelty"

(* The calls of MPI_Comm_split in their order: the communicator they make, *)
(* the colour and the key.                                                 *)
Split(comm, color, key) == [comm |-> comm, color |-> color, key |-> key]
SplitUnless(out, comm, color, key) ==
  IF out THEN Split(comm, MPI_UNDEFINED, 0) ELSE Split(comm, color, key)

Splits(rank) ==
  LET g == GroupOf(rank)
      own == RoleOf(rank)
      master == SplitUnless(own \notin {"master", "worker"}, "mastercommunicator", 0,
                            IF rank = 0 THEN 0 ELSE IF mode \in {0, 4} THEN rank ELSE g.number + 1)
      sls == SplitUnless(own \in {"master", "strengthener"}, "subcommunicator_sls", g.number, g.index)
      strengthener == SplitUnless(own \in {"master", "gnovelty"}, "subcommunicator_strengthener", g.number, g.index)
  IN  CASE mode \in {0, 4} -> <<master>>
        [] mode = 1 -> <<sls, master>>
        [] mode = 2 -> <<master, sls, strengthener>>
        [] mode = 3 -> <<master, strengthener>>

-----------------------------------------------------------------------------
(* The processes in a communicator of a process, made by its k-th call, in *)
(* the order of their ranks there.                                         *)
Made(rank, comm) == CHOOSE k \in DOMAIN splits[rank] : splits[rank][k].comm = comm
In(rank, comm) ==
  /\ \E k \in DOMAIN splits[rank] : splits[rank][k].comm = comm
  /\ splits[rank][Made(rank, comm)].color # MPI_UNDEFINED
RanksIn(rank, comm) ==
  LET k == Made(rank, comm)
      members == {r \in Rank : splits[r][k].color = splits[rank][k].color}
      place == [r \in members |-> Cardinality({m \in members :
                  splits[m][k].key < splits[r][k].key \/ (splits[m][k].key = splits[r][k].key /\ m <= r)})]
  IN  Inverse(place, members, 1 .. Cardinality(members))

Init ==
  /\ mode \in Mode /\ novelty_number \in NoveltyNumber(mode)
  /\ world_size \in 1 .. MaxWorldSize /\ Starts
  /\ role = [r \in Rank |-> RoleOf(r)] /\ splits = [r \in Rank |-> Splits(r)]
  /\ calls = [r \in Rank |-> 0] /\ killed = {} /\ exited = {}

(* A process makes its next call of MPI_Comm_split when the last has       *)
(* returned, which all have to make.                                       *)
CommSplit(rank) ==
  /\ calls[rank] < Len(splits[rank]) /\ \A r \in Rank : calls[r] >= calls[rank]
  /\ calls' = [calls EXCEPT ![rank] = @ + 1]
  /\ UNCHANGED <<arguments, killed, exited>>

InLoop(rank) == calls[rank] = Len(splits[rank]) /\ (\A r \in Rank : calls[r] >= calls[rank]) /\ rank \notin exited

(* Master and workers leave their loops, and kill: the master all workers, *)
(* a worker every local search and the strengthener, rank 1 of the two.    *)
KilledByAllButLast(rank, comm) == {RanksIn(rank, comm)[i] : i \in 2 .. Len(RanksIn(rank, comm)) - 1}
KilledBy(rank, comm) ==
  {RanksIn(rank, comm)[i] : i \in 2 .. IF comm = "subcommunicator_strengthener" THEN 2 ELSE Len(RanksIn(rank, comm))}
Leave(rank) ==
  /\ InLoop(rank) /\ (rank \in killed \/ role[rank] = "master")
  /\ killed' = killed \cup
       CASE role[rank] = "master" -> KilledBy(rank, "mastercommunicator")
         [] role[rank] = "worker" -> UNION {KilledBy(rank, comm) : comm \in
              {comm \in {"subcommunicator_sls", "subcommunicator_strengthener"} : In(rank, comm)}}
         [] OTHER -> {}
  /\ exited' = exited \cup {rank}
  /\ UNCHANGED <<arguments, calls>>

Finalized == exited = Rank /\ UNCHANGED vars

Step == \E rank \in Rank : CommSplit(rank) \/ Leave(rank)
Next == Step \/ Finalized
Spec == Init /\ [][Next]_vars
FairSpec == Spec /\ WF_vars(Step)

-----------------------------------------------------------------------------
(* Properties.                                                             *)

(* When the processes are in their loops the master is rank 0 among all    *)
(* the workers; each worker is rank 0 among its local searches, at least   *)
(* as many as asked for, and of two with a strengthener; no helper lacks a *)
(* worker, and nobody is in a communicator whose leader does not use it.   *)
Leads(comm) == IF comm = "mastercommunicator" THEN "master" ELSE "worker"
Helps == [mastercommunicator |-> "worker", subcommunicator_sls |-> "gnovelty",
          subcommunicator_strengthener |-> "strengthener"]
GroupsComplete ==
  \A rank \in Rank : InLoop(rank) => \A comm \in {splits[rank][k].comm : k \in DOMAIN splits[rank]} :
    IF ~In(rank, comm) THEN role[rank] \notin {Leads(comm), Helps[comm]}
    ELSE LET ranks == RanksIn(rank, comm)
         IN  /\ role[ranks[1]] = Leads(comm)
             /\ \A i \in 2 .. Len(ranks) : role[ranks[i]] = Helps[comm]
             /\ Len(ranks) > (IF comm = "subcommunicator_sls" THEN novelty_number ELSE 1)
             /\ comm = "subcommunicator_strengthener" => Len(ranks) = 2

(* Whatever the numbers of processes, all of them make the same calls and  *)
(* in the end all are told to stop: nobody waits for ever in a collective  *)
(* call or a loop.                                                         *)
EveryoneFinishes == <>(exited = Rank)
=============================================================================
