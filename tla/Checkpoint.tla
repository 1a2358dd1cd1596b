------------------------------ MODULE Checkpoint ------------------------------
(***************************************************************************)
(* Checkpoints: the master dumps its state to a file at the top of its     *)
(* loop, every so many seconds (-v); after a crash of the MPI job a new    *)
(* one may be started from the file (-u).                                  *)
(*                                                                         *)
(* The code rotates through six files and the user names the one to load.  *)
(* As whether a dump happens is open here, the one file that is kept may   *)
(* be any of the recent ones.                                              *)
(***************************************************************************)
EXTENDS MasterWorkerProperties

CONSTANT MaxCrashes  \* bound: how often the job crashes

ASSUME CrashAssumption == MaxCrashes \in Nat

VARIABLES
  atTop,       \* the master is at the top of its loop
  checkpoint,  \* the file, or NULL
  crashes

checkpointVars == <<atTop, checkpoint, crashes>>
allVars == <<vars, checkpointVars>>

Snapshot ==
  [registered : [Node -> SUBSET Cube], issued : SUBSET Message,
   message_buffer : SUBSET Message, solutions : SUBSET [from : Node, lits : Cube],
   generated : SUBSET Node, given : SUBSET Node, subgraph_finished : SUBSET Nat]

CheckpointTypeOK ==
  /\ TypeOK
  /\ atTop \in BOOLEAN
  /\ checkpoint \in Snapshot \cup {NULL}
  /\ crashes \in 0 .. MaxCrashes

CInit == Init /\ atTop = TRUE /\ checkpoint = NULL /\ crashes = 0

-----------------------------------------------------------------------------
Run == Next /\ atTop' = (pc = "receive") /\ UNCHANGED <<checkpoint, crashes>>

\* dump_checkpoint of the master, its solutions object and its organiser
DumpOf(buffer, sols) ==
  [registered |-> registered, issued |-> issued, message_buffer |-> buffer,
   solutions |-> sols, generated |-> generated, given |-> given,
   subgraph_finished |-> subgraph_finished]

\* (mutants: what the workers are on is dumped in place of the buffer; only the
\* buffer's messages that have no worker are; the solutions are not dumped)
DumpOfAssigned == DumpOf({assigned[w] : w \in Worker}, solutions)
DumpOfUnassigned == DumpOf({m \in message_buffer : Holders(m) = {}}, solutions)
DumpWithoutSolutions == DumpOf(message_buffer, {})
Dump == DumpOf(message_buffer, solutions)

DumpCheckpoint ==
  /\ pc = "fill" /\ atTop
  /\ checkpoint' = Dump
  /\ UNCHANGED <<vars, atTop, crashes>>

\* The job dies and is started again with the same arguments: load_checkpoint
\* reads back what was dumped, all the rest is as in a first start.
CrashAndRestart ==
  /\ pc # "done" /\ checkpoint # NULL /\ crashes < MaxCrashes
  /\ crashes' = crashes + 1
  (* read back *)
  /\ registered' = checkpoint.registered
  /\ issued' = checkpoint.issued
  /\ message_buffer' = checkpoint.message_buffer
  /\ solutions' = checkpoint.solutions
  /\ generated' = checkpoint.generated
  /\ given' = checkpoint.given
  /\ subgraph_finished' = checkpoint.subgraph_finished
  (* fresh *)
  /\ assigned' = [w \in Worker |-> NULL]
  /\ to_be_assigned' = [w \in Worker |-> NULL]
  /\ polled' = [w \in Worker |-> TRUE]
  /\ needs_refresh' = [w \in Worker |-> FALSE]
  /\ pc' = "fill" /\ atTop' = TRUE
  /\ terminate_trigger' = FALSE
  /\ wstate' = [w \in Worker |-> "idle"]
  /\ work' = [w \in Worker |-> NULL]
  /\ learnt' = [w \in Worker |-> {}]
  /\ solution_count' = [w \in Worker |-> 0]
  /\ pauses' = [w \in Worker |-> 0]
  /\ toWorker' = [w \in Worker |-> <<>>]
  /\ toMaster' = [w \in Worker |-> <<>>]
  /\ UNCHANGED <<ENUMERATE_SOLUTIONS, checkpoint>>

CNext == Run \/ DumpCheckpoint \/ CrashAndRestart

CSpec == CInit /\ [][CNext]_allVars
=============================================================================
