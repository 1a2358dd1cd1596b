--------------------------- MODULE MasterOrganiser ---------------------------
(***************************************************************************)
(* The master's book-keeping of which worker has which message             *)
(* (MasterOrganiser.cpp).  Per worker it keeps the message the worker was  *)
(* last given, the one it is to be given at its next poll, whether it is   *)
(* waiting for the master, and whether a solution that arrived from        *)
(* another worker made its clauses stale.                                  *)
(*                                                                         *)
(* message_buffer is a DisorderedArray: its order carries no meaning and   *)
(* changes at every removal, so it is a set here, and where the code takes *)
(* the first message with the smallest (largest) count any such message    *)
(* may be taken.  Workers are scanned in index order, as in the code.      *)
(***************************************************************************)
EXTENDS DagProblem

CONSTANTS
  NumWorkers,  \* organiser->num_workers = comms->world_size - 1
  NULL         \* the NULL message pointer

ASSUME OrganiserAssumption ==
  /\ NumWorkers \in Nat \ {0}
  /\ NULL \notin Message

Worker == 1 .. NumWorkers

VARIABLES
  message_buffer,  \* messages given out or waiting to be
  assigned,        \* MasterUnit::assigned
  to_be_assigned,  \* MasterUnit::to_be_assigned
  polled,          \* MasterUnit::polled: the worker waits for the master
  needs_refresh    \* MasterUnit::needs_refresh

organiserVars == <<message_buffer, assigned, to_be_assigned, polled, needs_refresh>>

OrganiserTypeOK ==
  /\ message_buffer \in SUBSET Message
  /\ assigned \in [Worker -> Message \cup {NULL}]
  /\ to_be_assigned \in [Worker -> Message \cup {NULL}]
  /\ polled \in [Worker -> BOOLEAN]
  /\ needs_refresh \in [Worker -> BOOLEAN]

OrganiserInit ==
  /\ message_buffer = {}
  /\ assigned = [w \in Worker |-> NULL]
  /\ to_be_assigned = [w \in Worker |-> NULL]
  /\ polled = [w \in Worker |-> TRUE]
  /\ needs_refresh = [w \in Worker |-> FALSE]

-----------------------------------------------------------------------------
\* (mutant: a worker that is about to leave m is still counted)
PresentHolders(m) == {w \in Worker : to_be_assigned[w] = m \/ assigned[w] = m}

\* The workers that will be on m once every pending allocation is carried out.
Holders(m) ==
  {w \in Worker : \/ to_be_assigned[w] = m
                  \/ to_be_assigned[w] = NULL /\ assigned[w] = m}

Count(m) == Cardinality(Holders(m))

MinMessages == {m \in message_buffer : \A k \in message_buffer : Count(m) <= Count(k)}
MaxMessages == {m \in message_buffer : \A k \in message_buffer : Count(k) <= Count(m)}

\* No message has two workers more than another.
Balanced == \A m, k \in message_buffer : Count(m) - Count(k) < 2

Idle == {w \in Worker : assigned[w] = NULL /\ to_be_assigned[w] = NULL}

IsFirst(w, S) == w \in S /\ \A v \in S : w <= v

-----------------------------------------------------------------------------
(* allocate_assignments(): one step per turn of its two loops              *)

\* An idle worker is to be given a message with the fewest workers.
DishOut(w) ==
  /\ IsFirst(w, Idle)
  /\ \E m \in MinMessages : to_be_assigned' = [to_be_assigned EXCEPT ![w] = m]
  /\ UNCHANGED <<message_buffer, assigned, polled, needs_refresh>>

\* A worker moves from a fullest message to an emptiest one; one that is not
\* yet at work on the fullest message is preferred to one that is.
Rebalance(w) ==
  /\ Idle = {}
  /\ ~Balanced
  /\ \E max \in MaxMessages, min \in MinMessages :
       /\ LET pending == {v \in Worker : to_be_assigned[v] = max}
          IN  IsFirst(w, IF pending # {} THEN pending ELSE Holders(max))
       /\ to_be_assigned' = [to_be_assigned EXCEPT ![w] = min]
  /\ UNCHANGED <<message_buffer, assigned, polled, needs_refresh>>

\* (mutants: no balancing; nothing is dished out to the idle workers)
DishedOut == message_buffer # {} => Idle = {}
Rebalanced == message_buffer # {} => Balanced

AllocationDone == message_buffer # {} => Idle = {} /\ Balanced

-----------------------------------------------------------------------------
(* The other operations, as the updates they make                          *)

\* (mutant: the NULL that ends the filling is buffered too)
AddMessageAndNull(m) == message_buffer' = message_buffer \cup {m, NULL}

AddMessage(m) == message_buffer' = message_buffer \cup {m}

\* (mutant: to_be_assigned keeps its pointer)
RemoveAssignedOnly(M) ==
  /\ message_buffer' = message_buffer \ M
  /\ assigned' = [w \in Worker |-> IF assigned[w] \in M THEN NULL ELSE assigned[w]]
  /\ UNCHANGED to_be_assigned

\* remove_message for each message of M: no worker keeps a pointer to it.
RemoveMessages(M) ==
  /\ message_buffer' = message_buffer \ M
  /\ assigned' = [w \in Worker |-> IF assigned[w] \in M THEN NULL ELSE assigned[w]]
  /\ to_be_assigned' =
       [w \in Worker |-> IF to_be_assigned[w] \in M THEN NULL ELSE to_be_assigned[w]]

\* Every other worker at work on the node of worker w has stale clauses.
RefreshExcept(w) ==
  needs_refresh' =
    [v \in Worker |->
       \/ needs_refresh[v]
       \/ /\ v # w
          /\ assigned[v] # NULL
          /\ assigned[w] # NULL
          /\ assigned[v].to = assigned[w].to]
=============================================================================
