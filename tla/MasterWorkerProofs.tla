-------------------------- MODULE MasterWorkerProofs --------------------------
(***************************************************************************)
(* Proofs about the master and its workers, for any number of workers, any *)
(* DAG and any mode: first their conversation and how the master shares    *)
(* out its messages; then that no work is lost (what a search has been     *)
(* told to avoid is known to the master or on its way to it, so the        *)
(* REQUEST that ends a message finds every answer to it registered), that  *)
(* the master stops when nothing is left to do and what it reports is      *)
(* complete, and that the same holds of a run that crashes, any number of  *)
(* times, and is started again from a checkpoint.                          *)
(***************************************************************************)
EXTENDS Checkpoint, DagProblemProofs, SequenceTheorems, FiniteSetTheorems, TLAPS

-----------------------------------------------------------------------------
(* The inductive invariant                                                 *)

\* Whose turn it is between the master and worker w, and what it has left in
\* the channels.
MastersTurn(w) ==
  /\ polled[w]
  /\ toWorker[w] = <<>> /\ toMaster[w] = <<>>
  /\ wstate[w] \in {"idle", "paused"}
  /\ assigned[w] # NULL => wstate[w] = "paused"

Ordered(w) ==
  /\ ~polled[w]
  /\ Len(toWorker[w]) = 1 /\ toMaster[w] = <<>>
  /\ wstate[w] \in {"idle", "paused"}
  /\ \/ toWorker[w][1].tag = "NEW_ASSIGNMENT"
     \/ toWorker[w][1].tag = "POLL_FOR_REASSIGNMENT" /\ wstate[w] = "paused"

Reports(s, last) == \A i \in 1 .. last : s[i].tag = "SOLUTION"

Searching(w) ==
  /\ ~polled[w]
  /\ toWorker[w] = <<>>
  /\ wstate[w] = "solving"
  /\ Reports(toMaster[w], Len(toMaster[w]))

Closing(w) ==
  /\ ~polled[w]
  /\ toWorker[w] = <<>> /\ toMaster[w] # <<>>
  /\ Reports(toMaster[w], Len(toMaster[w]) - 1)
  /\ \/ toMaster[w][Len(toMaster[w])] = Request /\ wstate[w] = "idle"
     \/ toMaster[w][Len(toMaster[w])] = Poll /\ wstate[w] = "paused"

Killed(w) ==
  /\ polled[w]
  /\ toMaster[w] = <<>>
  /\ \/ toWorker[w] = <<Kill>> /\ wstate[w] \in {"idle", "paused"}
     \/ toWorker[w] = <<>> /\ wstate[w] = "exited"

Turns ==
  \A w \in Worker :
    IF pc = "done" THEN Killed(w)
    ELSE MastersTurn(w) \/ Ordered(w) \/ Searching(w) \/ Closing(w)

\* A worker with a search to continue has a message.
HasWork == \A w \in Worker : wstate[w] \in {"paused", "solving"} => work[w] \in Message

\* What the master knows when it is past the filling of the buffer.
Phases ==
  /\ pc \in {"allocate", "send"} /\ ~terminate_trigger => message_buffer # {}
  /\ pc = "send" /\ ~terminate_trigger => Idle = {}
  /\ pc \in {"exit", "done"} => terminate_trigger /\ AllPolled

ConversationInv ==
  /\ TypeOK
  /\ Turns
  /\ HasWork
  /\ AssignedIsCurrent
  /\ Phases

-----------------------------------------------------------------------------
(* What the operators of the problem return                                *)

\* What output_message may return is a message.
LEMMA WaitingType ==
  ASSUME registered \in [Node -> SUBSET Cube]
  PROVE  Waiting \subseteq Message
BY CombinationsType DEF Waiting

\* The clauses that go with an assignment are clauses.
LEMMA AdditionalClausesType ==
  ASSUME registered \in [Node -> SUBSET Cube], NEW n \in Node
  PROVE  AdditionalClauses(n) \in SUBSET Cube
BY NegatedType DEF AdditionalClauses

-----------------------------------------------------------------------------
(* What is in the channels                                                 *)

\* Taking the first of a sequence.
LEMMA HeadTail ==
  ASSUME NEW S, NEW s \in Seq(S), s # <<>>
  PROVE  /\ Len(s) \in Nat \ {0}
         /\ Head(s) = s[1] /\ Head(s) \in S
         /\ Tail(s) \in Seq(S) /\ Len(Tail(s)) = Len(s) - 1
         /\ \A i \in 1 .. Len(s) - 1 : Tail(s)[i] = s[i + 1]
         /\ Len(s) = 1 => Tail(s) = <<>>
         /\ Len(s) > 1 => Tail(s) # <<>>
<1>1. Len(s) \in Nat \ {0}
  BY EmptySeq
<1>2. /\ Head(s) = s[1] /\ Head(s) \in S
      /\ Tail(s) \in Seq(S) /\ Len(Tail(s)) = Len(s) - 1
  BY HeadTailProperties
<1>3. \A i \in 1 .. Len(s) - 1 : Tail(s)[i] = s[i + 1]
  BY <1>2, HeadTailProperties
<1>4. Len(s) = 1 => Tail(s) = <<>>
  <2>1. Len(s) = 1 => Len(Tail(s)) = 0
    BY <1>2
  <2> QED
    BY <1>2, <2>1, EmptySeq
<1>5. Len(s) > 1 => Tail(s) # <<>>
  <2>1. Len(s) > 1 => Len(Tail(s)) # 0
    BY <1>1, <1>2
  <2> QED
    BY <2>1, EmptySeq
<1> QED
  BY <1>1, <1>2, <1>3, <1>4, <1>5

\* The kinds of message on the wire are told apart by their tag.
LEMMA Tags ==
  /\ \A x \in MasterMessage :
       /\ x.tag \in {"NEW_ASSIGNMENT", "POLL_FOR_REASSIGNMENT", "KILL"}
       /\ x.tag = "NEW_ASSIGNMENT" => x.msg \in Message /\ x.clauses \in SUBSET Cube
  /\ \A x \in WorkerMessage :
       /\ x.tag \in {"SOLUTION", "POLL_FOR_REASSIGNMENT", "REQUEST_FOR_ASSIGNMENT"}
       /\ x.tag = "SOLUTION" => x.from \in Node /\ x.lits \in Cube
       /\ x.tag = "POLL_FOR_REASSIGNMENT" => x = Poll
       /\ x.tag = "REQUEST_FOR_ASSIGNMENT" => x = Request
BY DEF MasterMessage, WorkerMessage, Poll, Kill, Request

-----------------------------------------------------------------------------
(* Type correctness                                                        *)

\* The operations of the organiser keep its types.
LEMMA OrganiserTypes ==
  ASSUME OrganiserTypeOK
  PROVE  /\ \A w \in Worker : DishOut(w) \/ Rebalance(w) => OrganiserTypeOK'
         /\ \A M : RemoveMessages(M) =>
              /\ message_buffer' \in SUBSET Message
              /\ assigned' \in [Worker -> Message \cup {NULL}]
              /\ to_be_assigned' \in [Worker -> Message \cup {NULL}]
         /\ \A w \in Worker : RefreshExcept(w) => needs_refresh' \in [Worker -> BOOLEAN]
<1>1. ASSUME NEW w \in Worker, DishOut(w) \/ Rebalance(w) PROVE OrganiserTypeOK'
  <2>1. MinMessages \subseteq Message
    BY DEF OrganiserTypeOK, MinMessages
  <2>2. \E m \in MinMessages : to_be_assigned' = [to_be_assigned EXCEPT ![w] = m]
    BY <1>1 DEF DishOut, Rebalance
  <2>3. UNCHANGED <<message_buffer, assigned, polled, needs_refresh>>
    BY <1>1 DEF DishOut, Rebalance
  <2> QED
    BY <2>1, <2>2, <2>3 DEF OrganiserTypeOK
<1>2. ASSUME NEW M, RemoveMessages(M)
      PROVE  /\ message_buffer' \in SUBSET Message
             /\ assigned' \in [Worker -> Message \cup {NULL}]
             /\ to_be_assigned' \in [Worker -> Message \cup {NULL}]
  BY <1>2 DEF OrganiserTypeOK, RemoveMessages
<1>3. ASSUME NEW w \in Worker, RefreshExcept(w)
      PROVE  needs_refresh' \in [Worker -> BOOLEAN]
  BY <1>3 DEF OrganiserTypeOK, RefreshExcept
<1> QED
  BY <1>1, <1>2, <1>3

\* What the master receives is a message of a worker, and the rest stays.
LEMMA ReceiveTypes ==
  ASSUME TypeOK, NEW w \in Worker, NEW tag, Receive(w, tag)
  PROVE  /\ Head(toMaster[w]) \in WorkerMessage /\ Head(toMaster[w]).tag = tag
         /\ toMaster' \in [Worker -> Seq(WorkerMessage)]
         /\ pc' = "fill"
BY HeadTail DEF TypeOK, Receive

\* The same for a worker.
LEMMA WorkerReceiveTypes ==
  ASSUME TypeOK, NEW w \in Worker, NEW tag, WorkerReceive(w, tag)
  PROVE  /\ Head(toWorker[w]) \in MasterMessage /\ Head(toWorker[w]).tag = tag
         /\ toWorker' \in [Worker -> Seq(MasterMessage)]
BY HeadTail DEF TypeOK, WorkerReceive

\* What the master registers and reports are cubes.
LEMMA SolvedTypes ==
  ASSUME TypeOK, NEW w \in Worker, NEW n \in Node, NEW q \in Cube
  PROVE  /\ InputMessage(n, q) => registered' \in [Node -> SUBSET Cube]
         /\ Solved(w, n, q) =>
              /\ solutions' \in SUBSET [from : Node, lits : Cube]
              /\ terminate_trigger' \in BOOLEAN
              /\ message_buffer' \in SUBSET Message
              /\ assigned' \in [Worker -> Message \cup {NULL}]
              /\ to_be_assigned' \in [Worker -> Message \cup {NULL}]
              /\ subgraph_finished' \in SUBSET Nat
<1>1. MasterView(n, q) \in Cube
  BY ProjectType DEF MasterView
<1>2. ASSUME InputMessage(n, q) PROVE registered' \in [Node -> SUBSET Cube]
  BY <1>1, <1>2 DEF InputMessage, TypeOK
<1>3. ASSUME Solved(w, n, q)
      PROVE  /\ message_buffer' \in SUBSET Message
             /\ assigned' \in [Worker -> Message \cup {NULL}]
             /\ to_be_assigned' \in [Worker -> Message \cup {NULL}]
             /\ subgraph_finished' \in SUBSET Nat
  <2>1. CASE FinishSubgraph(w, Subgraph[n]) /\ assigned[w] # NULL
    BY <2>1, OrganiserTypes, DagAssumption DEF FinishSubgraph, TypeOK
  <2>2. CASE UNCHANGED <<message_buffer, assigned, to_be_assigned, subgraph_finished>>
    BY <2>2 DEF TypeOK, OrganiserTypeOK
  <2> QED
    BY <1>3, <2>1, <2>2 DEF Solved, FinishSubgraph
<1>4. ASSUME Solved(w, n, q)
      PROVE  /\ solutions' \in SUBSET [from : Node, lits : Cube]
             /\ terminate_trigger' \in BOOLEAN
  BY <1>1, <1>4 DEF Solved, TypeOK, StopsAtFirst
<1> QED
  BY <1>2, <1>3, <1>4
-----------------------------------------------------------------------------
(* The invariant holds at the start and is kept by every action            *)

\* All the workers wait for the master, which has an empty buffer.
LEMMA InitConversation == Init => ConversationInv
<1> SUFFICES ASSUME Init PROVE ConversationInv
  OBVIOUS
<1>1. TypeOK
  BY EmptySeq DEF Init, OrganiserInit, StoreInit, TypeOK, OrganiserTypeOK, WorkerStates
<1>2. Turns
  BY DEF Init, OrganiserInit, Turns, MastersTurn
<1>3. HasWork
  BY DEF Init, HasWork
<1>4. AssignedIsCurrent
  BY DEF Init, OrganiserInit, AssignedIsCurrent
<1>5. Phases
  BY DEF Init, Phases
<1> QED
  BY <1>1, <1>2, <1>3, <1>4, <1>5 DEF ConversationInv

\* Whose turn it is depends on a worker's own part of the state only.
LEMMA TurnsKept ==
  ASSUME Turns, pc # "done", pc' # "done", NEW S \in SUBSET Worker,
         \A v \in Worker \ S :
           /\ polled'[v] = polled[v] /\ wstate'[v] = wstate[v]
           /\ toWorker'[v] = toWorker[v] /\ toMaster'[v] = toMaster[v]
           /\ assigned'[v] \in {NULL, assigned[v]},
         \A w \in S : (MastersTurn(w) \/ Ordered(w) \/ Searching(w) \/ Closing(w))'
  PROVE  Turns'
<1> SUFFICES ASSUME NEW v \in Worker \ S
             PROVE  (MastersTurn(v) \/ Ordered(v) \/ Searching(v) \/ Closing(v))'
  BY DEF Turns
<1>1. CASE MastersTurn(v)
  BY <1>1 DEF MastersTurn
<1>2. CASE Ordered(v)
  BY <1>2 DEF Ordered
<1>3. CASE Searching(v)
  BY <1>3 DEF Searching, Reports
<1>4. CASE Closing(v)
  BY <1>4 DEF Closing, Reports
<1> QED
  BY <1>1, <1>2, <1>3, <1>4 DEF Turns

\* A step that touches none of it changes no turn.
LEMMA TurnsUnchanged ==
  ASSUME Turns, pc # "done", pc' # "done",
         UNCHANGED <<polled, wstate, toWorker, toMaster, assigned>>
  PROVE  Turns'
<1>1. \A v \in Worker \ {} :
        /\ polled'[v] = polled[v] /\ wstate'[v] = wstate[v]
        /\ toWorker'[v] = toWorker[v] /\ toMaster'[v] = toMaster[v]
        /\ assigned'[v] \in {NULL, assigned[v]}
  OBVIOUS
<1>2. {} \in SUBSET Worker
  OBVIOUS
<1>3. \A w \in {} : (MastersTurn(w) \/ Ordered(w) \/ Searching(w) \/ Closing(w))'
  OBVIOUS
<1> HIDE DEF Turns
<1> QED
  BY <1>1, <1>2, <1>3, TurnsKept

\* A step on behalf of one worker changes the turn of that one only.
LEMMA TurnsKeptBut ==
  ASSUME Turns, pc # "done", pc' # "done", NEW w \in Worker,
         \A v \in Worker \ {w} :
           /\ polled'[v] = polled[v] /\ wstate'[v] = wstate[v]
           /\ toWorker'[v] = toWorker[v] /\ toMaster'[v] = toMaster[v]
           /\ assigned'[v] \in {NULL, assigned[v]},
         (MastersTurn(w) \/ Ordered(w) \/ Searching(w) \/ Closing(w))'
  PROVE  Turns'
<1>1. {w} \in SUBSET Worker
  OBVIOUS
<1>2. \A v \in {w} : (MastersTurn(v) \/ Ordered(v) \/ Searching(v) \/ Closing(v))'
  OBVIOUS
<1> QED
  BY <1>1, <1>2, TurnsKept

\* Pulling a message adds to the buffer and leaves the conversation alone.
LEMMA PullMessageKeeps ==
  ASSUME ConversationInv, PullMessage
  PROVE  ConversationInv'
<1> USE DEF ConversationInv
<1>1. PICK m \in Message : /\ issued' = issued \cup {m}
                           /\ message_buffer' \in {message_buffer, message_buffer \cup {m}}
  BY WaitingType DEF PullMessage, NextMessages, AddMessage, TypeOK
<1>2. TypeOK'
  BY <1>1 DEF PullMessage, TypeOK, OrganiserTypeOK, workerVars, channels
<1>3. Turns'
  BY TurnsUnchanged DEF PullMessage, workerVars, channels
<1>4. HasWork'
  BY DEF PullMessage, HasWork, workerVars
<1>5. AssignedIsCurrent'
  BY <1>1 DEF PullMessage, AssignedIsCurrent, CurrentWork, workerVars, channels
<1>6. Phases'
  BY DEF PullMessage, Phases
<1> QED
  BY <1>2, <1>3, <1>4, <1>5, <1>6

\* The master leaves the filling with a message to give out, or to stop.
LEMMA EndFillKeeps ==
  ASSUME ConversationInv, EndFill
  PROVE  ConversationInv'
<1> USE DEF ConversationInv
<1>1. TypeOK'
  BY DEF EndFill, TypeOK, OrganiserTypeOK, organiserVars, workerVars, channels, OutOfWork
<1>2. Turns'
  BY TurnsUnchanged DEF EndFill, organiserVars, workerVars, channels
<1>3. HasWork'
  BY DEF EndFill, HasWork, workerVars
<1>4. AssignedIsCurrent'
  BY DEF EndFill, AssignedIsCurrent, CurrentWork, organiserVars, workerVars, channels
<1>5. Phases'
  BY DEF EndFill, Phases, OutOfWork, AllPolled, organiserVars, TypeOK
<1> QED
  BY <1>1, <1>2, <1>3, <1>4, <1>5

\* What is allocated is in the buffer.
LEMMA AllocateKeeps ==
  ASSUME ConversationInv, NEW w \in Worker, Allocate(w)
  PROVE  ConversationInv'
<1> USE DEF ConversationInv
<1>1. /\ UNCHANGED <<message_buffer, assigned, polled, needs_refresh>>
      /\ \E m \in message_buffer : to_be_assigned' = [to_be_assigned EXCEPT ![w] = m]
  BY DEF Allocate, DishOut, Rebalance, MinMessages
<1>2. TypeOK'
  <2>1. OrganiserTypeOK'
    BY OrganiserTypes DEF Allocate, TypeOK
  <2> QED
    BY <2>1 DEF Allocate, TypeOK, masterVars, workerVars, channels
<1>3. Turns'
  BY <1>1, TurnsUnchanged DEF Allocate, masterVars, workerVars, channels
<1>4. HasWork'
  BY DEF Allocate, HasWork, workerVars
<1>5. AssignedIsCurrent'
  BY <1>1 DEF Allocate, AssignedIsCurrent, CurrentWork, workerVars, channels, TypeOK,
              OrganiserTypeOK
<1>6. Phases'
  BY <1>1 DEF Allocate, Phases, masterVars
<1> QED
  BY <1>2, <1>3, <1>4, <1>5, <1>6

\* The allocation ends when no worker is without a message.
LEMMA EndAllocateKeeps ==
  ASSUME ConversationInv, EndAllocate
  PROVE  ConversationInv'
<1> USE DEF ConversationInv
<1>1. TypeOK'
  BY DEF EndAllocate, TypeOK, OrganiserTypeOK, organiserVars, workerVars, channels
<1>2. Turns'
  BY TurnsUnchanged DEF EndAllocate, organiserVars, workerVars, channels
<1>3. HasWork'
  BY DEF EndAllocate, HasWork, workerVars
<1>4. AssignedIsCurrent'
  BY DEF EndAllocate, AssignedIsCurrent, CurrentWork, organiserVars, workerVars, channels
<1>5. Phases'
  BY DEF EndAllocate, Phases, AllocationDone, Idle, organiserVars
<1> QED
  BY <1>1, <1>2, <1>3, <1>4, <1>5

\* What the master sends to a worker that waits for it.
Order(w) ==
  IF to_be_assigned[w] # NULL
  THEN Assignment(to_be_assigned[w], AdditionalClauses(to_be_assigned[w].to))
  ELSE Poll

\* It is a NEW_ASSIGNMENT if a message is pending, otherwise a POLL.
LEMMA OrderTypes ==
  ASSUME TypeOK, NEW w \in Worker
  PROVE  /\ Order(w) \in MasterMessage
         /\ IF to_be_assigned[w] # NULL
            THEN /\ to_be_assigned[w] \in Message /\ to_be_assigned[w].to \in Node
                 /\ Order(w).tag = "NEW_ASSIGNMENT" /\ Order(w).msg = to_be_assigned[w]
            ELSE Order(w).tag = "POLL_FOR_REASSIGNMENT"
<1>1. CASE to_be_assigned[w] # NULL
  <2>1. to_be_assigned[w] \in Message
    BY <1>1 DEF TypeOK, OrganiserTypeOK
  <2>2. to_be_assigned[w].to \in Node
    BY <2>1, MessageToNode
  <2>3. AdditionalClauses(to_be_assigned[w].to) \in SUBSET Cube
    BY <2>2, AdditionalClausesType DEF TypeOK
  <2>4. Order(w) = [tag |-> "NEW_ASSIGNMENT", msg |-> to_be_assigned[w],
                    clauses |-> AdditionalClauses(to_be_assigned[w].to)]
    BY <1>1 DEF Order, Assignment
  <2>5. Order(w) \in MasterMessage
    BY <2>1, <2>3, <2>4 DEF MasterMessage
  <2> QED
    BY <1>1, <2>1, <2>2, <2>4, <2>5
<1>2. CASE to_be_assigned[w] = NULL
  BY <1>2 DEF Order, Poll, MasterMessage
<1> QED
  BY <1>1, <1>2

\* The order goes to a worker that has the turn, whose channel is empty.
LEMMA OrderSent ==
  ASSUME ConversationInv, NEW w \in Worker, Send(w)
  PROVE  /\ pc = "send" /\ ~terminate_trigger /\ polled[w] /\ MastersTurn(w)
         /\ polled' = [polled EXCEPT ![w] = FALSE]
         /\ toWorker' = [toWorker EXCEPT ![w] = <<Order(w)>>]
         /\ IF to_be_assigned[w] # NULL
            THEN /\ given' = given \cup {to_be_assigned[w].to}
                 /\ assigned' = [assigned EXCEPT ![w] = to_be_assigned[w]]
                 /\ to_be_assigned' = [to_be_assigned EXCEPT ![w] = NULL]
                 /\ needs_refresh' = [needs_refresh EXCEPT ![w] = FALSE]
            ELSE UNCHANGED <<given, assigned, to_be_assigned, needs_refresh>>
         /\ UNCHANGED <<ENUMERATE_SOLUTIONS, message_buffer, pc, terminate_trigger,
                        registered, issued, subgraph_finished, solutions, generated,
                        workerVars, toMaster>>
<1> USE DEF ConversationInv
<1>1. /\ pc = "send" /\ ~terminate_trigger /\ polled[w]
      /\ polled' = [polled EXCEPT ![w] = FALSE]
      /\ UNCHANGED <<ENUMERATE_SOLUTIONS, message_buffer, pc, terminate_trigger,
                     registered, issued, subgraph_finished, solutions, generated,
                     workerVars, toMaster>>
  BY DEF Send, IsFirst
<1>2. MastersTurn(w)
  BY <1>1 DEF Turns, Ordered, Searching, Closing
<1>3. toWorker' = [toWorker EXCEPT ![w] = <<Order(w)>>]
  <2>1. toWorker' = [toWorker EXCEPT ![w] = Append(toWorker[w], Order(w))]
    BY DEF Send, SendAssignment, SendPoll, Order
  <2>2. Append(toWorker[w], Order(w)) = <<Order(w)>>
    BY <1>2 DEF MastersTurn
  <2> QED
    BY <2>1, <2>2
<1>4. IF to_be_assigned[w] # NULL
      THEN /\ given' = given \cup {to_be_assigned[w].to}
           /\ assigned' = [assigned EXCEPT ![w] = to_be_assigned[w]]
           /\ to_be_assigned' = [to_be_assigned EXCEPT ![w] = NULL]
           /\ needs_refresh' = [needs_refresh EXCEPT ![w] = FALSE]
      ELSE UNCHANGED <<given, assigned, to_be_assigned, needs_refresh>>
  BY DEF Send, SendAssignment, SendPoll
<1> QED
  BY <1>1, <1>2, <1>3, <1>4

\* A POLL goes only to a worker that has a message, so a search it can continue
\* (this is where Phases is needed).
LEMMA SendKeeps ==
  ASSUME ConversationInv, NEW w \in Worker, Send(w)
  PROVE  ConversationInv'
<1> USE DEF ConversationInv
<1>1. /\ pc = "send" /\ ~terminate_trigger /\ polled[w]
      /\ polled' = [polled EXCEPT ![w] = FALSE]
      /\ UNCHANGED <<ENUMERATE_SOLUTIONS, message_buffer, pc, terminate_trigger,
                     registered, issued, subgraph_finished, solutions, generated,
                     workerVars, toMaster>>
  BY OrderSent
<1>2. MastersTurn(w)
  BY OrderSent
<1>3. toWorker' = [toWorker EXCEPT ![w] = <<Order(w)>>]
  BY OrderSent
<1>4. IF to_be_assigned[w] # NULL
      THEN /\ given' = given \cup {to_be_assigned[w].to}
           /\ assigned' = [assigned EXCEPT ![w] = to_be_assigned[w]]
           /\ to_be_assigned' = [to_be_assigned EXCEPT ![w] = NULL]
           /\ needs_refresh' = [needs_refresh EXCEPT ![w] = FALSE]
      ELSE UNCHANGED <<given, assigned, to_be_assigned, needs_refresh>>
  BY OrderSent
<1>5. TypeOK'
  <2>1. toWorker' \in [Worker -> Seq(MasterMessage)]
    BY <1>3, OrderTypes DEF TypeOK
  <2>2. /\ given' \in SUBSET Node
        /\ assigned' \in [Worker -> Message \cup {NULL}]
        /\ to_be_assigned' \in [Worker -> Message \cup {NULL}]
        /\ needs_refresh' \in [Worker -> BOOLEAN]
        /\ polled' \in [Worker -> BOOLEAN]
    <3>1. CASE to_be_assigned[w] # NULL
      <4>1. to_be_assigned[w] \in Message /\ to_be_assigned[w].to \in Node
        BY <3>1, OrderTypes
      <4>2. given' \in SUBSET Node
        BY <1>4, <3>1, <4>1 DEF TypeOK
      <4>3. /\ assigned' \in [Worker -> Message \cup {NULL}]
            /\ to_be_assigned' \in [Worker -> Message \cup {NULL}]
        BY <1>4, <3>1, <4>1 DEF TypeOK, OrganiserTypeOK
      <4>4. needs_refresh' \in [Worker -> BOOLEAN] /\ polled' \in [Worker -> BOOLEAN]
        BY <1>1, <1>4, <3>1 DEF TypeOK, OrganiserTypeOK
      <4> QED
        BY <4>2, <4>3, <4>4
    <3>2. CASE to_be_assigned[w] = NULL
      <4>1. UNCHANGED <<given, assigned, to_be_assigned, needs_refresh>>
        BY <1>4, <3>2
      <4> QED
        BY <1>1, <4>1 DEF TypeOK, OrganiserTypeOK
    <3> QED
      BY <3>1, <3>2
  <2> QED
    BY <1>1, <2>1, <2>2 DEF TypeOK, OrganiserTypeOK, workerVars
<1>6. Turns'
  <2>1. to_be_assigned[w] = NULL => wstate[w] = "paused"
    BY <1>1, <1>2 DEF Phases, Idle, MastersTurn
  <2>2. Ordered(w)'
    <3>1. polled'[w] = FALSE /\ toWorker'[w] = <<Order(w)>>
      BY <1>1, <1>3 DEF TypeOK, OrganiserTypeOK
    <3>2. toMaster'[w] = <<>> /\ wstate'[w] = wstate[w] /\ wstate[w] \in {"idle", "paused"}
      BY <1>1, <1>2 DEF MastersTurn, workerVars
    <3> QED
      BY <2>1, <3>1, <3>2, OrderTypes DEF Ordered
  <2>3. \A v \in Worker \ {w} :
          /\ polled'[v] = polled[v] /\ wstate'[v] = wstate[v]
          /\ toWorker'[v] = toWorker[v] /\ toMaster'[v] = toMaster[v]
          /\ assigned'[v] \in {NULL, assigned[v]}
    BY <1>1, <1>3, <1>4 DEF workerVars, TypeOK, OrganiserTypeOK
  <2> QED
    BY <1>1, <2>2, <2>3, TurnsKeptBut
<1>7. HasWork'
  BY <1>1 DEF HasWork, workerVars
<1>8. AssignedIsCurrent'
  <2>1. UNCHANGED <<message_buffer, work>>
    BY <1>1 DEF workerVars
  <2>2. ASSUME NEW v \in Worker, v # w PROVE CurrentWork(v)' = CurrentWork(v)
    BY <1>3, <2>1, <2>2 DEF CurrentWork, TypeOK
  <2>3. toWorker[w] = <<>> /\ toWorker'[w] = <<Order(w)>>
    BY <1>2, <1>3 DEF MastersTurn, TypeOK
  <2>4. CurrentWork(w)' = IF to_be_assigned[w] # NULL THEN to_be_assigned[w] ELSE CurrentWork(w)
    BY <2>1, <2>3, OrderTypes DEF CurrentWork
  <2> QED
    BY <1>4, <2>1, <2>2, <2>4 DEF AssignedIsCurrent, TypeOK, OrganiserTypeOK
<1>9. Phases'
  BY <1>1, <1>4 DEF Phases, Idle, TypeOK, OrganiserTypeOK
<1> QED
  BY <1>5, <1>6, <1>7, <1>8, <1>9

\* The master turns to its blocking receive.
LEMMA EndSendKeeps ==
  ASSUME ConversationInv, EndSend
  PROVE  ConversationInv'
<1> USE DEF ConversationInv
<1>1. TypeOK'
  BY DEF EndSend, TypeOK, OrganiserTypeOK, organiserVars, workerVars, channels
<1>2. Turns'
  BY TurnsUnchanged DEF EndSend, organiserVars, workerVars, channels
<1>3. HasWork'
  BY DEF EndSend, HasWork, workerVars
<1>4. AssignedIsCurrent'
  BY DEF EndSend, AssignedIsCurrent, CurrentWork, organiserVars, workerVars, channels
<1>5. Phases'
  BY DEF EndSend, Phases
<1> QED
  BY <1>1, <1>2, <1>3, <1>4, <1>5

\* The KILL goes to workers that all wait and have nothing in flight.
LEMMA SendKillKeeps ==
  ASSUME ConversationInv, SendKill
  PROVE  ConversationInv'
<1> USE DEF ConversationInv
<1>1. \A w \in Worker : MastersTurn(w)
  BY DEF SendKill, Phases, AllPolled, Turns, Ordered, Searching, Closing
<1>2. toWorker' = [w \in Worker |-> <<Kill>>]
  <2>1. ASSUME NEW w \in Worker PROVE Append(toWorker[w], Kill) = <<Kill>>
    <3>1. toWorker[w] = <<>>
      BY <1>1 DEF MastersTurn
    <3> QED
      BY <3>1
  <2> QED
    BY <2>1 DEF SendKill
<1>3. TypeOK'
  BY <1>2 DEF SendKill, TypeOK, OrganiserTypeOK, organiserVars, workerVars, MasterMessage
<1>4. Turns'
  BY <1>1, <1>2 DEF SendKill, Turns, Killed, MastersTurn, organiserVars, workerVars
<1>5. HasWork'
  BY DEF SendKill, HasWork, workerVars
<1>6. AssignedIsCurrent'
  <2>1. UNCHANGED <<assigned, to_be_assigned, message_buffer, work>>
    BY DEF SendKill, organiserVars, workerVars
  <2>2. ASSUME NEW v \in Worker PROVE CurrentWork(v)' = CurrentWork(v)
    BY <1>1, <1>2, <2>1 DEF CurrentWork, MastersTurn, Kill
  <2> QED
    BY <2>1, <2>2 DEF AssignedIsCurrent
<1>7. Phases'
  BY DEF SendKill, Phases, AllPolled, organiserVars
<1> QED
  BY <1>3, <1>4, <1>5, <1>6, <1>7

\* Arithmetic on the indexes of a sequence.
LEMMA Bounds == \A n \in Nat \ {0} : n # 1 => 1 \in 1 .. n - 1 /\ n - 1 \in 1 .. n - 1
OBVIOUS

\* A request or a poll is the last thing its worker had to say.
LEMMA ClosingReceived ==
  ASSUME TypeOK, Turns, NEW w \in Worker,
         NEW tag \in {"REQUEST_FOR_ASSIGNMENT", "POLL_FOR_REASSIGNMENT"}, Receive(w, tag)
  PROVE  /\ ~polled[w] /\ toWorker[w] = <<>>
         /\ toMaster' = [toMaster EXCEPT ![w] = <<>>]
         /\ wstate[w] = IF tag = "REQUEST_FOR_ASSIGNMENT" THEN "idle" ELSE "paused"
         /\ toMaster[w][Len(toMaster[w])] =
              IF tag = "REQUEST_FOR_ASSIGNMENT" THEN Request ELSE Poll
<1> DEFINE s == toMaster[w]
<1>1. /\ s \in Seq(WorkerMessage) /\ s # <<>> /\ Head(s).tag = tag
      /\ pc = "receive"
      /\ toMaster' = [toMaster EXCEPT ![w] = Tail(s)]
  BY DEF Receive, TypeOK
<1>2. /\ Len(s) \in Nat \ {0} /\ s[1].tag = tag
      /\ Len(s) = 1 => Tail(s) = <<>>
  BY <1>1, HeadTail
<1>3. Closing(w)
  <2>1. ~MastersTurn(w) /\ ~Ordered(w)
    BY <1>1 DEF MastersTurn, Ordered
  <2>2. ~Searching(w)
    BY <1>2 DEF Searching, Reports
  <2> QED
    BY <1>1, <2>1, <2>2 DEF Turns
<1>4. Len(s) = 1
  <2>1. Len(s) # 1 => 1 \in 1 .. Len(s) - 1
    BY <1>2, Bounds
  <2> QED
    BY <1>2, <1>3, <2>1 DEF Closing, Reports
<1>5. Request.tag = "REQUEST_FOR_ASSIGNMENT" /\ Poll.tag = "POLL_FOR_REASSIGNMENT"
  BY DEF Request, Poll
<1> QED
  BY <1>1, <1>2, <1>3, <1>4, <1>5 DEF Closing

\* A solution is followed by the rest of its worker's turn.
LEMMA SolutionReceived ==
  ASSUME TypeOK, Turns, NEW w \in Worker, Receive(w, "SOLUTION"),
         UNCHANGED <<polled, wstate, toWorker>>
  PROVE  (Searching(w) \/ Closing(w))'
<1> DEFINE s == toMaster[w]
<1>1. /\ s \in Seq(WorkerMessage) /\ s # <<>> /\ Head(s).tag = "SOLUTION"
      /\ pc = "receive"
      /\ toMaster'[w] = Tail(s)
  BY DEF Receive, TypeOK
<1>2. /\ Len(s) \in Nat \ {0} /\ s[1].tag = "SOLUTION"
      /\ Tail(s) \in Seq(WorkerMessage) /\ Len(Tail(s)) = Len(s) - 1
      /\ \A i \in 1 .. Len(s) - 1 : Tail(s)[i] = s[i + 1]
      /\ Len(s) > 1 => Tail(s) # <<>>
  BY <1>1, HeadTail
<1>3. CASE Searching(w)
  BY <1>1, <1>2, <1>3 DEF Searching, Reports
<1>4. CASE Closing(w)
  <2>1. Len(s) # 1
    BY <1>2, <1>4 DEF Closing, Request, Poll
  <2>2. Tail(s) # <<>> /\ Tail(s)[Len(Tail(s))] = s[Len(s)]
    <3>1. Len(s) - 1 \in 1 .. Len(s) - 1
      BY <1>2, <2>1, Bounds
    <3>2. Tail(s)[Len(s) - 1] = s[Len(s) - 1 + 1]
      BY <1>2, <3>1
    <3> HIDE DEF s
    <3> QED
      BY <1>2, <2>1, <3>2
  <2>3. Reports(Tail(s), Len(Tail(s)) - 1)
    BY <1>2, <1>4 DEF Closing, Reports
  <2> QED
    BY <1>1, <1>4, <2>2, <2>3 DEF Closing
<1> QED
  BY <1>1, <1>3, <1>4 DEF Turns, MastersTurn, Ordered

\* Removing messages leaves no pointer to them.
LEMMA RemoveMessagesKeeps ==
  ASSUME TypeOK, AssignedIsCurrent, NEW M, RemoveMessages(M),
         UNCHANGED <<toWorker, work>>
  PROVE  /\ AssignedIsCurrent'
         /\ \A v \in Worker : assigned'[v] \in {NULL, assigned[v]}
<1>1. \A v \in Worker : CurrentWork(v)' = CurrentWork(v)
  BY DEF CurrentWork
<1>2. \A v \in Worker : /\ assigned'[v] = IF assigned[v] \in M THEN NULL ELSE assigned[v]
                        /\ to_be_assigned'[v] =
                             IF to_be_assigned[v] \in M THEN NULL ELSE to_be_assigned[v]
  BY DEF RemoveMessages
<1>3. message_buffer' = message_buffer \ M
  BY DEF RemoveMessages
<1> QED
  BY <1>1, <1>2, <1>3 DEF AssignedIsCurrent

\* A REQUEST gives the turn to the master, and the worker's message is gone.
LEMMA ReceiveRequestKeeps ==
  ASSUME ConversationInv, NEW w \in Worker, ReceiveRequest(w)
  PROVE  ConversationInv'
<1> USE DEF ConversationInv
<1> DEFINE M == {assigned[w]} \ {NULL}
<1>1. /\ Receive(w, "REQUEST_FOR_ASSIGNMENT") /\ pc = "receive" /\ pc' = "fill"
      /\ RemoveMessages(M)
      /\ polled' = [polled EXCEPT ![w] = TRUE]
      /\ UNCHANGED <<needs_refresh, workerVars, toWorker>>
  BY DEF ReceiveRequest, Receive
<1>2. /\ ~polled[w] /\ toWorker[w] = <<>> /\ wstate[w] = "idle"
      /\ toMaster' = [toMaster EXCEPT ![w] = <<>>]
  BY <1>1, ClosingReceived
<1>3. TypeOK'
  <2>1. OrganiserTypeOK'
    BY <1>1, OrganiserTypes DEF TypeOK, OrganiserTypeOK
  <2>2. toMaster' \in [Worker -> Seq(WorkerMessage)]
    BY <1>1, ReceiveTypes
  <2> QED
    BY <1>1, <2>1, <2>2 DEF ReceiveRequest, TypeOK, workerVars
<1>4. AssignedIsCurrent' /\ \A v \in Worker : assigned'[v] \in {NULL, assigned[v]}
  BY <1>1, RemoveMessagesKeeps DEF workerVars
<1>5. assigned'[w] = NULL
  BY <1>1 DEF RemoveMessages
<1>6. Turns'
  <2>1. MastersTurn(w)'
    BY <1>1, <1>2, <1>5 DEF MastersTurn, workerVars, TypeOK, OrganiserTypeOK
  <2>2. \A v \in Worker \ {w} :
          /\ polled'[v] = polled[v] /\ wstate'[v] = wstate[v]
          /\ toWorker'[v] = toWorker[v] /\ toMaster'[v] = toMaster[v]
          /\ assigned'[v] \in {NULL, assigned[v]}
    BY <1>1, <1>2, <1>4 DEF workerVars, TypeOK, OrganiserTypeOK
  <2> QED
    BY <1>1, <2>1, <2>2, TurnsKeptBut
<1>7. HasWork'
  BY <1>1 DEF HasWork, workerVars
<1>8. Phases'
  BY <1>1 DEF Phases
<1> QED
  BY <1>3, <1>4, <1>6, <1>7, <1>8

\* A POLL gives the turn to the master; the worker keeps its search.
LEMMA ReceivePollKeeps ==
  ASSUME ConversationInv, NEW w \in Worker, ReceivePoll(w)
  PROVE  ConversationInv'
<1> USE DEF ConversationInv
<1>1. /\ Receive(w, "POLL_FOR_REASSIGNMENT") /\ pc = "receive" /\ pc' = "fill"
      /\ assigned' = [assigned EXCEPT ![w] = IF needs_refresh[w] THEN NULL ELSE @]
      /\ polled' = [polled EXCEPT ![w] = TRUE]
      /\ UNCHANGED <<message_buffer, to_be_assigned, needs_refresh, workerVars, toWorker>>
  BY DEF ReceivePoll, Receive
<1>2. /\ ~polled[w] /\ toWorker[w] = <<>> /\ wstate[w] = "paused"
      /\ toMaster' = [toMaster EXCEPT ![w] = <<>>]
  BY <1>1, ClosingReceived
<1>3. TypeOK'
  <2>1. assigned' \in [Worker -> Message \cup {NULL}]
    BY <1>1 DEF TypeOK, OrganiserTypeOK
  <2>2. toMaster' \in [Worker -> Seq(WorkerMessage)]
    BY <1>1, ReceiveTypes
  <2>3. polled' \in [Worker -> BOOLEAN]
    BY <1>1 DEF TypeOK, OrganiserTypeOK
  <2> QED
    BY <1>1, <2>1, <2>2, <2>3 DEF ReceivePoll, TypeOK, OrganiserTypeOK, workerVars
<1>4. \A v \in Worker : assigned'[v] \in {NULL, assigned[v]}
  BY <1>1 DEF TypeOK, OrganiserTypeOK
<1>5. Turns'
  <2>1. MastersTurn(w)'
    BY <1>1, <1>2 DEF MastersTurn, workerVars, TypeOK, OrganiserTypeOK
  <2>2. \A v \in Worker \ {w} :
          /\ polled'[v] = polled[v] /\ wstate'[v] = wstate[v]
          /\ toWorker'[v] = toWorker[v] /\ toMaster'[v] = toMaster[v]
          /\ assigned'[v] \in {NULL, assigned[v]}
    BY <1>1, <1>2, <1>4 DEF workerVars, TypeOK, OrganiserTypeOK
  <2> QED
    BY <1>1, <2>1, <2>2, TurnsKeptBut
<1>6. HasWork'
  BY <1>1 DEF HasWork, workerVars
<1>7. AssignedIsCurrent'
  BY <1>1, <1>4 DEF AssignedIsCurrent, CurrentWork, workerVars
<1>8. Phases'
  BY <1>1 DEF Phases
<1> QED
  BY <1>3, <1>5, <1>6, <1>7, <1>8

\* A solution may take messages away from workers, but gives them none.
LEMMA ReceiveSolutionKeeps ==
  ASSUME ConversationInv, NEW w \in Worker, ReceiveSolution(w)
  PROVE  ConversationInv'
<1> USE DEF ConversationInv
<1> DEFINE s == Head(toMaster[w])
<1>1. /\ Receive(w, "SOLUTION") /\ pc = "receive" /\ pc' = "fill"
      /\ RefreshExcept(w)
      /\ generated' = generated \cup {s.from}
      /\ InputMessage(s.from, s.lits) \/ UNCHANGED registered
      /\ UNCHANGED <<ENUMERATE_SOLUTIONS, polled, issued, given, workerVars, toWorker>>
      /\ toMaster' = [toMaster EXCEPT ![w] = Tail(@)]
  BY DEF ReceiveSolution, Receive
<1>2. \/ Solved(w, s.from, s.lits)
      \/ UNCHANGED <<solutions, terminate_trigger, message_buffer, assigned,
                     to_be_assigned, subgraph_finished>>
  BY DEF ReceiveSolution
<1>3. s.from \in Node /\ s.lits \in Cube
  BY <1>1, ReceiveTypes, Tags
<1>4. TypeOK'
  <2>1. registered' \in [Node -> SUBSET Cube]
    BY <1>1, <1>3, SolvedTypes DEF TypeOK
  <2>2. /\ solutions' \in SUBSET [from : Node, lits : Cube]
        /\ terminate_trigger' \in BOOLEAN
        /\ message_buffer' \in SUBSET Message
        /\ assigned' \in [Worker -> Message \cup {NULL}]
        /\ to_be_assigned' \in [Worker -> Message \cup {NULL}]
        /\ subgraph_finished' \in SUBSET Nat
    <3>1. CASE Solved(w, s.from, s.lits)
      BY <1>3, <3>1, SolvedTypes
    <3>2. CASE UNCHANGED <<solutions, terminate_trigger, message_buffer, assigned,
                           to_be_assigned, subgraph_finished>>
      BY <3>2 DEF TypeOK, OrganiserTypeOK
    <3> QED
      BY <1>2, <3>1, <3>2
  <2>3. needs_refresh' \in [Worker -> BOOLEAN]
    BY <1>1, OrganiserTypes DEF TypeOK
  <2>4. toMaster' \in [Worker -> Seq(WorkerMessage)]
    BY <1>1, ReceiveTypes
  <2>5. generated' \in SUBSET Node
    BY <1>1, <1>3 DEF TypeOK
  <2> HIDE DEF s
  <2> QED
    BY <1>1, <2>1, <2>2, <2>3, <2>4, <2>5 DEF TypeOK, OrganiserTypeOK, workerVars
<1>5. AssignedIsCurrent' /\ \A v \in Worker : assigned'[v] \in {NULL, assigned[v]}
  <2>1. CASE UNCHANGED <<message_buffer, assigned, to_be_assigned>>
    BY <1>1, <2>1 DEF AssignedIsCurrent, CurrentWork, workerVars
  <2>2. CASE \E M : RemoveMessages(M)
    BY <1>1, <2>2, RemoveMessagesKeeps DEF workerVars
  <2> QED
    BY <1>2, <2>1, <2>2 DEF Solved, FinishSubgraph
<1>6. Turns'
  <2>1. (Searching(w) \/ Closing(w))'
    BY <1>1, SolutionReceived DEF workerVars
  <2>2. \A v \in Worker \ {w} :
          /\ polled'[v] = polled[v] /\ wstate'[v] = wstate[v]
          /\ toWorker'[v] = toWorker[v] /\ toMaster'[v] = toMaster[v]
          /\ assigned'[v] \in {NULL, assigned[v]}
    BY <1>1, <1>5 DEF workerVars, TypeOK
  <2> QED
    BY <1>1, <2>1, <2>2, TurnsKeptBut
<1>7. HasWork'
  BY <1>1 DEF HasWork, workerVars
<1>8. Phases'
  BY <1>1 DEF Phases
<1> QED
  BY <1>4, <1>5, <1>6, <1>7, <1>8

\* A worker reads what it has been sent only when it waits for it.
LEMMA OrderReceived ==
  ASSUME ConversationInv, NEW w \in Worker, NEW tag, WorkerReceive(w, tag), tag # "KILL"
  PROVE  /\ pc # "done" /\ ~polled[w]
         /\ toMaster[w] = <<>> /\ Len(toWorker[w]) = 1
         /\ toWorker[w][1] \in MasterMessage /\ toWorker[w][1].tag = tag
         /\ toWorker' = [toWorker EXCEPT ![w] = <<>>]
         /\ tag = "POLL_FOR_REASSIGNMENT" => wstate[w] = "paused"
<1>1. /\ toWorker[w] \in Seq(MasterMessage) /\ toWorker[w] # <<>>
      /\ Head(toWorker[w]).tag = tag
      /\ toWorker' = [toWorker EXCEPT ![w] = Tail(toWorker[w])]
      /\ wstate[w] \in {"idle", "paused"}
  BY DEF WorkerReceive, ConversationInv, TypeOK
<1>2. /\ Head(toWorker[w]) = toWorker[w][1] /\ toWorker[w][1] \in MasterMessage
      /\ Len(toWorker[w]) = 1 => Tail(toWorker[w]) = <<>>
  BY <1>1, HeadTail
<1>3. toWorker[w] # <<Kill>>
  BY <1>1, <1>2 DEF Kill
<1>4. pc # "done" /\ Ordered(w)
  BY <1>1, <1>3 DEF ConversationInv, Turns, Killed, MastersTurn, Searching, Closing
<1> QED
  BY <1>1, <1>2, <1>4 DEF Ordered

\* A worker starts on the message it is sent, the one the master has noted.
LEMMA StartSearchKeeps ==
  ASSUME ConversationInv, NEW w \in Worker, StartSearch(w)
  PROVE  ConversationInv'
<1> USE DEF ConversationInv
<1> DEFINE x == Head(toWorker[w])
<1>1. /\ WorkerReceive(w, "NEW_ASSIGNMENT")
      /\ work' = [work EXCEPT ![w] = x.msg]
      /\ learnt' = [learnt EXCEPT ![w] = x.clauses]
      /\ wstate' = [wstate EXCEPT ![w] = "solving"]
      /\ UNCHANGED <<ENUMERATE_SOLUTIONS, organiserVars, masterVars, toMaster>>
  BY DEF StartSearch
<1>2. /\ pc # "done" /\ ~polled[w]
      /\ toMaster[w] = <<>> /\ toWorker[w] # <<>>
      /\ x.tag = "NEW_ASSIGNMENT"
      /\ toWorker' = [toWorker EXCEPT ![w] = <<>>]
  BY <1>1, OrderReceived DEF WorkerReceive
<1>3. x.msg \in Message /\ x.clauses \in SUBSET Cube
  BY <1>1, WorkerReceiveTypes, Tags
<1>4. TypeOK'
  <2>1. /\ work' \in [Worker -> Message \cup {NULL}]
        /\ learnt' \in [Worker -> SUBSET Cube]
        /\ wstate' \in [Worker -> WorkerStates]
    BY <1>1, <1>3 DEF TypeOK, WorkerStates
  <2>2. toWorker' \in [Worker -> Seq(MasterMessage)]
    BY <1>1, WorkerReceiveTypes
  <2>3. solution_count' \in [Worker -> Nat] /\ pauses' \in [Worker -> Nat]
    BY ModeAssumption DEF StartSearch, TypeOK
  <2> QED
    BY <1>1, <2>1, <2>2, <2>3 DEF TypeOK, OrganiserTypeOK, organiserVars, masterVars
<1>5. Turns'
  <2>1. Searching(w)'
    BY <1>1, <1>2 DEF Searching, Reports, TypeOK, organiserVars
  <2>2. \A v \in Worker \ {w} :
          /\ polled'[v] = polled[v] /\ wstate'[v] = wstate[v]
          /\ toWorker'[v] = toWorker[v] /\ toMaster'[v] = toMaster[v]
          /\ assigned'[v] \in {NULL, assigned[v]}
    BY <1>1, <1>2 DEF organiserVars, TypeOK
  <2> QED
    BY <1>1, <1>2, <2>1, <2>2, TurnsKeptBut DEF masterVars
<1>6. HasWork'
  BY <1>1, <1>3 DEF HasWork, TypeOK
<1>7. AssignedIsCurrent'
  <2>1. CurrentWork(w)' = CurrentWork(w)
    BY <1>1, <1>2 DEF CurrentWork, TypeOK
  <2>2. ASSUME NEW v \in Worker, v # w PROVE CurrentWork(v)' = CurrentWork(v)
    BY <1>1, <1>2, <2>2 DEF CurrentWork, TypeOK
  <2> QED
    BY <1>1, <2>1, <2>2 DEF AssignedIsCurrent, organiserVars
<1>8. Phases'
  BY <1>1 DEF Phases, Idle, AllPolled, organiserVars, masterVars
<1> QED
  BY <1>4, <1>5, <1>6, <1>7, <1>8

\* A worker goes on with the search it has.
LEMMA ContinueSearchKeeps ==
  ASSUME ConversationInv, NEW w \in Worker, ContinueSearch(w)
  PROVE  ConversationInv'
<1> USE DEF ConversationInv
<1>1. /\ WorkerReceive(w, "POLL_FOR_REASSIGNMENT")
      /\ wstate' = [wstate EXCEPT ![w] = "solving"]
      /\ UNCHANGED <<ENUMERATE_SOLUTIONS, organiserVars, masterVars, work, learnt, pauses, toMaster>>
  BY DEF ContinueSearch
<1>2. /\ pc # "done" /\ ~polled[w]
      /\ toMaster[w] = <<>> /\ toWorker[w] # <<>> /\ wstate[w] = "paused"
      /\ Head(toWorker[w]).tag = "POLL_FOR_REASSIGNMENT"
      /\ toWorker' = [toWorker EXCEPT ![w] = <<>>]
  BY <1>1, OrderReceived DEF WorkerReceive
<1>3. TypeOK'
  <2>1. toWorker' \in [Worker -> Seq(MasterMessage)]
    BY <1>1, WorkerReceiveTypes
  <2>2. solution_count' \in [Worker -> Nat] /\ wstate' \in [Worker -> WorkerStates]
    BY <1>1 DEF ContinueSearch, TypeOK, WorkerStates
  <2> QED
    BY <1>1, <2>1, <2>2 DEF TypeOK, OrganiserTypeOK, organiserVars, masterVars
<1>4. Turns'
  <2>1. Searching(w)'
    BY <1>1, <1>2 DEF Searching, Reports, TypeOK, organiserVars
  <2>2. \A v \in Worker \ {w} :
          /\ polled'[v] = polled[v] /\ wstate'[v] = wstate[v]
          /\ toWorker'[v] = toWorker[v] /\ toMaster'[v] = toMaster[v]
          /\ assigned'[v] \in {NULL, assigned[v]}
    BY <1>1, <1>2 DEF organiserVars, TypeOK
  <2> QED
    BY <1>1, <1>2, <2>1, <2>2, TurnsKeptBut DEF masterVars
<1>5. HasWork'
  BY <1>1, <1>2 DEF HasWork, TypeOK
<1>6. AssignedIsCurrent'
  <2>1. CurrentWork(w)' = CurrentWork(w)
    BY <1>1, <1>2 DEF CurrentWork, TypeOK
  <2>2. ASSUME NEW v \in Worker, v # w PROVE CurrentWork(v)' = CurrentWork(v)
    BY <1>1, <1>2, <2>2 DEF CurrentWork, TypeOK
  <2> QED
    BY <1>1, <2>1, <2>2 DEF AssignedIsCurrent, organiserVars
<1>7. Phases'
  BY <1>1 DEF Phases, Idle, AllPolled, organiserVars, masterVars
<1> QED
  BY <1>3, <1>4, <1>5, <1>6, <1>7

\* Only the end of the master's loop lets a worker exit.
LEMMA ExitKeeps ==
  ASSUME ConversationInv, NEW w \in Worker, Exit(w)
  PROVE  ConversationInv'
<1> USE DEF ConversationInv
<1>1. /\ WorkerReceive(w, "KILL")
      /\ toWorker[w] # <<>> /\ Head(toWorker[w]).tag = "KILL"
      /\ toWorker' = [toWorker EXCEPT ![w] = Tail(@)]
      /\ wstate' = [wstate EXCEPT ![w] = "exited"]
      /\ UNCHANGED <<ENUMERATE_SOLUTIONS, organiserVars, masterVars, work, learnt,
                     solution_count, pauses, toMaster>>
  BY DEF Exit, WorkerReceive
<1>2. Head(toWorker[w]) = toWorker[w][1]
  BY <1>1, HeadTail DEF TypeOK
<1>3. pc = "done"
  BY <1>1, <1>2 DEF Turns, MastersTurn, Ordered, Searching, Closing
<1>4. Killed(w) /\ toWorker[w] = <<Kill>> /\ Tail(toWorker[w]) = <<>>
  <2>1. Killed(w)
    BY <1>3 DEF Turns
  <2>2. toWorker[w] = <<Kill>>
    BY <1>1, <2>1 DEF Killed
  <2>3. Tail(<<Kill>>) = <<>>
    OBVIOUS
  <2> QED
    BY <2>1, <2>2, <2>3
<1>5. TypeOK'
  <2>1. toWorker' \in [Worker -> Seq(MasterMessage)]
    BY <1>1, WorkerReceiveTypes
  <2>2. wstate' \in [Worker -> WorkerStates]
    BY <1>1 DEF TypeOK, WorkerStates
  <2> QED
    BY <1>1, <2>1, <2>2 DEF TypeOK, OrganiserTypeOK, organiserVars, masterVars
<1>6. Turns'
  <2>1. Killed(w)'
    BY <1>1, <1>4 DEF Killed, TypeOK, organiserVars
  <2>2. ASSUME NEW v \in Worker, v # w PROVE Killed(v)'
    BY <1>1, <1>3, <2>2 DEF Turns, Killed, TypeOK, organiserVars
  <2> QED
    BY <1>1, <1>3, <2>1, <2>2 DEF Turns, masterVars
<1>7. HasWork'
  BY <1>1 DEF HasWork, TypeOK
<1>8. AssignedIsCurrent'
  <2>1. ASSUME NEW v \in Worker PROVE CurrentWork(v)' = CurrentWork(v)
    BY <1>1, <1>4 DEF CurrentWork, TypeOK, Kill
  <2> QED
    BY <1>1, <2>1 DEF AssignedIsCurrent, organiserVars
<1>9. Phases'
  BY <1>1 DEF Phases, Idle, AllPolled, organiserVars, masterVars
<1> QED
  BY <1>5, <1>6, <1>7, <1>8, <1>9

\* A worker that solves has told the master nothing but solutions.
LEMMA IsSearching ==
  ASSUME ConversationInv, NEW w \in Worker, wstate[w] = "solving"
  PROVE  pc # "done" /\ Searching(w)
BY DEF ConversationInv, Turns, Killed, MastersTurn, Ordered, Closing

\* What the three outcomes of run() have in common.
LEMMA SearchKeeps ==
  ASSUME ConversationInv, NEW w \in Worker, wstate[w] = "solving",
         NEW t \in Seq(WorkerMessage), NEW st \in WorkerStates,
         toMaster' = [toMaster EXCEPT ![w] = t],
         wstate' = [wstate EXCEPT ![w] = st],
         learnt' \in [Worker -> SUBSET Cube],
         solution_count' \in [Worker -> Nat],
         pauses' \in [Worker -> Nat],
         UNCHANGED <<ENUMERATE_SOLUTIONS, organiserVars, masterVars, work, toWorker>>,
         \/ st = "solving" /\ Reports(t, Len(t))
         \/ /\ t # <<>> /\ Reports(t, Len(t) - 1)
            /\ \/ t[Len(t)] = Request /\ st = "idle"
               \/ t[Len(t)] = Poll /\ st = "paused"
  PROVE  ConversationInv'
<1> USE DEF ConversationInv
<1>1. pc # "done" /\ Searching(w)
  BY IsSearching
<1>2. toMaster'[w] = t /\ wstate'[w] = st
  BY DEF TypeOK
<1>3. TypeOK'
  <2>1. toMaster' \in [Worker -> Seq(WorkerMessage)] /\ wstate' \in [Worker -> WorkerStates]
    BY DEF TypeOK
  <2> QED
    BY <2>1 DEF TypeOK, OrganiserTypeOK, organiserVars, masterVars
<1>4. Turns'
  <2>1. (Searching(w) \/ Closing(w))'
    <3>1. ~polled'[w] /\ toWorker'[w] = <<>>
      BY <1>1 DEF Searching, organiserVars
    <3> QED
      BY <1>2, <3>1 DEF Searching, Closing, Reports
  <2>2. \A v \in Worker \ {w} :
          /\ polled'[v] = polled[v] /\ wstate'[v] = wstate[v]
          /\ toWorker'[v] = toWorker[v] /\ toMaster'[v] = toMaster[v]
          /\ assigned'[v] \in {NULL, assigned[v]}
    BY DEF organiserVars, TypeOK
  <2>3. pc' # "done"
    BY <1>1 DEF masterVars
  <2> QED
    BY <1>1, <2>1, <2>2, <2>3, TurnsKeptBut
<1>5. HasWork'
  BY DEF HasWork, TypeOK
<1>6. AssignedIsCurrent'
  BY DEF AssignedIsCurrent, CurrentWork, organiserVars
<1>7. Phases'
  BY DEF Phases, Idle, AllPolled, organiserVars, masterVars
<1> QED
  BY <1>3, <1>4, <1>5, <1>6, <1>7

\* What is added to a sequence of reports is its last.
LEMMA Append1 ==
  ASSUME NEW s \in Seq(WorkerMessage), Reports(s, Len(s)), NEW x \in WorkerMessage
  PROVE  /\ Append(s, x) \in Seq(WorkerMessage) /\ Append(s, x) # <<>>
         /\ Append(s, x)[Len(Append(s, x))] = x
         /\ Reports(Append(s, x), Len(Append(s, x)) - 1)
         /\ x.tag = "SOLUTION" => Reports(Append(s, x), Len(Append(s, x)))
<1> DEFINE t == Append(s, x)
<1>1. /\ t \in Seq(WorkerMessage) /\ Len(t) = Len(s) + 1 /\ Len(s) \in Nat
      /\ \A i \in 1 .. Len(s) : t[i] = s[i]
      /\ t[Len(s) + 1] = x
  BY AppendProperties
<1>2. t # <<>>
  <2>1. Len(t) # 0
    BY <1>1
  <2> QED
    BY <2>1, EmptySeq
<1>3. Reports(t, Len(s))
  BY <1>1 DEF Reports
<1>4. x.tag = "SOLUTION" => Reports(t, Len(s) + 1)
  <2> SUFFICES ASSUME x.tag = "SOLUTION", NEW i \in 1 .. Len(s) + 1 PROVE t[i].tag = "SOLUTION"
    BY DEF Reports
  <2>1. i \in 1 .. Len(s) \/ i = Len(s) + 1
    BY <1>1
  <2> QED
    BY <1>1, <1>3, <2>1 DEF Reports
<1>5. Len(t) - 1 = Len(s)
  BY <1>1
<1>6. t[Len(t)] = x /\ Reports(t, Len(t) - 1) /\ (x.tag = "SOLUTION" => Reports(t, Len(t)))
  <2> HIDE DEF t
  <2> QED
    BY <1>1, <1>3, <1>4, <1>5
<1> QED
  BY <1>1, <1>2, <1>6 DEF t

\* The same with an answer and what closes the turn.
LEMMA Append2 ==
  ASSUME NEW s \in Seq(WorkerMessage), Reports(s, Len(s)),
         NEW x \in WorkerMessage, x.tag = "SOLUTION", NEW y \in WorkerMessage
  PROVE  /\ s \o <<x, y>> \in Seq(WorkerMessage) /\ s \o <<x, y>> # <<>>
         /\ (s \o <<x, y>>)[Len(s \o <<x, y>>)] = y
         /\ Reports(s \o <<x, y>>, Len(s \o <<x, y>>) - 1)
<1>1. s \o <<x, y>> = Append(Append(s, x), y)
  OBVIOUS
<1> DEFINE t == Append(s, x)
<1>2. t \in Seq(WorkerMessage) /\ Reports(t, Len(t))
  BY Append1
<1> HIDE DEF t
<1>3. /\ Append(t, y) \in Seq(WorkerMessage) /\ Append(t, y) # <<>>
      /\ Append(t, y)[Len(Append(t, y))] = y
      /\ Reports(Append(t, y), Len(Append(t, y)) - 1)
  BY <1>2, Append1
<1> QED
  BY <1>1, <1>3 DEF t

\* What a worker may say is a message of a worker.
LEMMA WorkerMessages ==
  /\ Poll \in WorkerMessage /\ Request \in WorkerMessage
  /\ \A n \in Node, q \in Cube : /\ Solution(n, q) \in WorkerMessage
                                 /\ Solution(n, q).tag = "SOLUTION"
BY DEF WorkerMessage, Poll, Request, Solution

\* The search found that nothing is left: the worker asks for other work.
LEMMA SearchUnsatKeeps ==
  ASSUME ConversationInv, NEW w \in Worker, SearchUnsat(w)
  PROVE  ConversationInv'
<1> DEFINE t == Append(toMaster[w], Request)
<1>1. /\ wstate[w] = "solving"
      /\ toMaster' = [toMaster EXCEPT ![w] = t]
      /\ wstate' = [wstate EXCEPT ![w] = "idle"]
      /\ UNCHANGED <<ENUMERATE_SOLUTIONS, organiserVars, masterVars, work, learnt,
                     solution_count, pauses, toWorker>>
  BY DEF SearchUnsat
<1>2. toMaster[w] \in Seq(WorkerMessage) /\ Reports(toMaster[w], Len(toMaster[w]))
  BY <1>1, IsSearching DEF ConversationInv, TypeOK, Searching
<1>3. /\ t \in Seq(WorkerMessage) /\ t # <<>>
      /\ t[Len(t)] = Request /\ Reports(t, Len(t) - 1)
  BY <1>2, WorkerMessages, Append1
<1>4. /\ learnt' \in [Worker -> SUBSET Cube] /\ solution_count' \in [Worker -> Nat]
      /\ pauses' \in [Worker -> Nat]
  BY <1>1 DEF ConversationInv, TypeOK
<1>5. "idle" \in WorkerStates
  BY DEF WorkerStates
<1> HIDE DEF t
<1> QED
  BY <1>1, <1>3, <1>4, <1>5, SearchKeeps

\* The search is interrupted: the worker asks whether to go on.
LEMMA SearchPauseKeeps ==
  ASSUME ConversationInv, NEW w \in Worker, SearchPause(w)
  PROVE  ConversationInv'
<1> DEFINE t == Append(toMaster[w], Poll)
<1>1. /\ wstate[w] = "solving"
      /\ pauses[w] > 0 /\ pauses' = [pauses EXCEPT ![w] = @ - 1]
      /\ toMaster' = [toMaster EXCEPT ![w] = t]
      /\ wstate' = [wstate EXCEPT ![w] = "paused"]
      /\ UNCHANGED <<ENUMERATE_SOLUTIONS, organiserVars, masterVars, work, learnt,
                     solution_count, toWorker>>
  BY DEF SearchPause
<1>2. toMaster[w] \in Seq(WorkerMessage) /\ Reports(toMaster[w], Len(toMaster[w]))
  BY <1>1, IsSearching DEF ConversationInv, TypeOK, Searching
<1>3. /\ t \in Seq(WorkerMessage) /\ t # <<>>
      /\ t[Len(t)] = Poll /\ Reports(t, Len(t) - 1)
  BY <1>2, WorkerMessages, Append1
<1>4. /\ learnt' \in [Worker -> SUBSET Cube] /\ solution_count' \in [Worker -> Nat]
      /\ pauses' \in [Worker -> Nat]
  BY <1>1 DEF ConversationInv, TypeOK
<1>5. "paused" \in WorkerStates
  BY DEF WorkerStates
<1> HIDE DEF t
<1> QED
  BY <1>1, <1>3, <1>4, <1>5, SearchKeeps

\* The search found an answer: the worker reports it, and goes on or closes
\* its turn.
LEMMA SearchSatKeeps ==
  ASSUME ConversationInv, NEW w \in Worker, SearchSat(w)
  PROVE  ConversationInv'
<1>1. /\ wstate[w] = "solving"
      /\ UNCHANGED <<ENUMERATE_SOLUTIONS, organiserVars, masterVars, work, pauses, toWorker>>
  BY DEF SearchSat
<1>2. /\ toMaster[w] \in Seq(WorkerMessage) /\ Reports(toMaster[w], Len(toMaster[w]))
      /\ work[w] \in Message
  BY <1>1, IsSearching DEF ConversationInv, TypeOK, Searching, HasWork
<1>3. PICK q \in Answers(work[w], learnt[w]) :
        /\ learnt' = [learnt EXCEPT ![w] = IF q = {} THEN learnt[w]
                                           ELSE learnt[w] \cup {Negated(q)}]
        /\ solution_count' = [solution_count EXCEPT ![w] = solution_count[w] + 1]
        /\ \/ /\ toMaster' = [toMaster EXCEPT ![w] =
                                @ \o AnswerThenTag(Solution(work[w].to, q), Request)]
              /\ wstate' = [wstate EXCEPT ![w] = "idle"]
           \/ /\ toMaster' = [toMaster EXCEPT ![w] =
                                @ \o AnswerThenTag(Solution(work[w].to, q), Poll)]
              /\ wstate' = [wstate EXCEPT ![w] = "paused"]
           \/ /\ toMaster' = [toMaster EXCEPT ![w] = Append(@, Solution(work[w].to, q))]
              /\ UNCHANGED wstate
  BY DEF SearchSat
<1> DEFINE x == Solution(work[w].to, q)
<1>4. q \in Cube /\ work[w].to \in Node
  <2>1. learnt[w] \in SUBSET Cube
    BY DEF ConversationInv, TypeOK
  <2> QED
    BY <1>2, <1>3, <2>1, AnswersArePossible, MessageToNode
<1>5. x \in WorkerMessage /\ x.tag = "SOLUTION"
  BY <1>4, WorkerMessages
<1>6. /\ learnt' \in [Worker -> SUBSET Cube] /\ solution_count' \in [Worker -> Nat]
      /\ pauses' \in [Worker -> Nat]
  <2>1. learnt' \in [Worker -> SUBSET Cube]
    BY <1>3, <1>4, NegatedType DEF ConversationInv, TypeOK
  <2>2. solution_count' \in [Worker -> Nat]
    BY <1>3 DEF ConversationInv, TypeOK
  <2>3. pauses' \in [Worker -> Nat]
    BY <1>1 DEF ConversationInv, TypeOK
  <2> QED
    BY <2>1, <2>2, <2>3
<1>7. {"idle", "paused", "solving"} \subseteq WorkerStates
  BY DEF WorkerStates
<1>8. ASSUME NEW y \in {Request, Poll},
             toMaster' = [toMaster EXCEPT ![w] = @ \o AnswerThenTag(x, y)],
             wstate' = [wstate EXCEPT ![w] = IF y = Request THEN "idle" ELSE "paused"]
      PROVE  ConversationInv'
  <2> DEFINE t == toMaster[w] \o <<x, y>>
  <2>1. toMaster' = [toMaster EXCEPT ![w] = t]
    BY <1>8 DEF AnswerThenTag
  <2>2. /\ t \in Seq(WorkerMessage) /\ t # <<>>
        /\ t[Len(t)] = y /\ Reports(t, Len(t) - 1)
    <3>1. y \in WorkerMessage
      BY WorkerMessages
    <3> HIDE DEF x
    <3> QED
      BY <1>2, <1>5, <3>1, Append2
  <2>3. CASE y = Request
    <3>1. wstate' = [wstate EXCEPT ![w] = "idle"]
      BY <1>8, <2>3
    <3> HIDE DEF t
    <3> QED
      BY <1>1, <1>6, <1>7, <2>1, <2>2, <2>3, <3>1, SearchKeeps
  <2>4. CASE y = Poll
    <3>1. wstate' = [wstate EXCEPT ![w] = "paused"]
      BY <1>8, <2>4 DEF Poll, Request
    <3> HIDE DEF t
    <3> QED
      BY <1>1, <1>6, <1>7, <2>1, <2>2, <2>4, <3>1, SearchKeeps
  <2> QED
    BY <2>3, <2>4
<1>9. ASSUME toMaster' = [toMaster EXCEPT ![w] = Append(@, x)], UNCHANGED wstate
      PROVE  ConversationInv'
  <2> DEFINE t == Append(toMaster[w], x)
  <2>1. toMaster' = [toMaster EXCEPT ![w] = t]
    BY <1>9
  <2>2. wstate' = [wstate EXCEPT ![w] = "solving"]
    BY <1>1, <1>9 DEF ConversationInv, TypeOK
  <2>3. t \in Seq(WorkerMessage) /\ Reports(t, Len(t))
    <3> HIDE DEF x
    <3> QED
      BY <1>2, <1>5, Append1
  <2> HIDE DEF t
  <2> QED
    BY <1>1, <1>6, <1>7, <2>1, <2>2, <2>3, SearchKeeps
<1>10. Poll # Request
  BY DEF Poll, Request
<1> QED
  BY <1>3, <1>8, <1>9, <1>10

\* No step of the master or of a worker breaks the invariant.
LEMMA NextKeeps == ConversationInv /\ [Next]_vars => ConversationInv'
<1> SUFFICES ASSUME ConversationInv, [Next]_vars PROVE ConversationInv'
  OBVIOUS
<1>1. CASE MasterStep
  BY <1>1, PullMessageKeeps, EndFillKeeps, AllocateKeeps, EndAllocateKeeps, SendKeeps,
     EndSendKeeps, ReceiveRequestKeeps, ReceivePollKeeps, ReceiveSolutionKeeps, SendKillKeeps
  DEF MasterStep
<1>2. ASSUME NEW w \in Worker, WorkerStep(w) PROVE ConversationInv'
  BY <1>2, StartSearchKeeps, ContinueSearchKeeps, ExitKeeps, SearchUnsatKeeps,
     SearchPauseKeeps, SearchSatKeeps
  DEF WorkerStep, Search
<1>3. CASE UNCHANGED vars
  <2> USE <1>3 DEF ConversationInv, vars, organiserVars, masterVars, workerVars, channels
  <2>1. TypeOK'
    BY DEF TypeOK, OrganiserTypeOK
  <2>2. Turns'
    BY DEF Turns, MastersTurn, Ordered, Searching, Closing, Killed, Reports
  <2>3. HasWork'
    BY DEF HasWork
  <2>4. AssignedIsCurrent'
    BY DEF AssignedIsCurrent, CurrentWork
  <2>5. Phases'
    BY DEF Phases, Idle, AllPolled
  <2> QED
    BY <2>1, <2>2, <2>3, <2>4, <2>5
<1> QED
  BY <1>1, <1>2, <1>3 DEF Next, Terminated

-----------------------------------------------------------------------------
(* What follows                                                            *)

\* The conversation of the master with each worker is always in one of the
\* states the invariant describes.
THEOREM Conversation == Spec => []ConversationInv
BY InitConversation, NextKeeps, PTL DEF Spec

\* Every variable keeps its type: nothing but messages of the DAG is ever in
\* the buffer, with a worker or on the wire (Master.cpp:73-236, Worker.cpp:
\* 62-124).
THEOREM TypeCorrect == Spec => []TypeOK
<1>1. ConversationInv => TypeOK
  BY DEF ConversationInv
<1> QED
  BY <1>1, Conversation, PTL

\* The master and a worker take turns, for any number of workers and in any
\* mode: no blocking send meets an end that is itself sending
\* (Master.cpp:147-177, Worker.cpp:86-112).
THEOREM TakesTurns == Spec => []Rendezvous
<1>1. ASSUME ConversationInv PROVE Rendezvous
  <2> SUFFICES ASSUME NEW w \in Worker
               PROVE  /\ Len(toWorker[w]) <= 1
                      /\ toWorker[w] # <<>> => toMaster[w] = <<>> /\ wstate[w] \in {"idle", "paused"}
                      /\ polled[w] /\ pc # "done" =>
                           toWorker[w] = <<>> /\ toMaster[w] = <<>> /\ wstate[w] \in {"idle", "paused"}
                      /\ ~polled[w] =>
                           \/ toWorker[w] # <<>>
                           \/ wstate[w] = "solving"
                           \/ toMaster[w] # <<>> /\ toMaster[w][Len(toMaster[w])] \in {Request, Poll}
    BY DEF Rendezvous
  <2>1. CASE pc = "done"
    <3>1. Killed(w)
      BY <1>1, <2>1 DEF ConversationInv, Turns
    <3>2. polled[w] /\ toMaster[w] = <<>>
      BY <3>1 DEF Killed
    <3>3. CASE toWorker[w] = <<Kill>> /\ wstate[w] \in {"idle", "paused"}
      <4>1. Len(<<Kill>>) = 1
        OBVIOUS
      <4> QED
        BY <2>1, <3>2, <3>3, <4>1
    <3>4. CASE toWorker[w] = <<>>
      <4>1. Len(<<>>) = 0
        OBVIOUS
      <4> QED
        BY <2>1, <3>2, <3>4, <4>1
    <3> QED
      BY <3>1, <3>3, <3>4 DEF Killed
  <2>2. CASE pc # "done" /\ MastersTurn(w)
    <3>1. Len(<<>>) = 0
      OBVIOUS
    <3> QED
      BY <2>2, <3>1 DEF MastersTurn
  <2>3. CASE pc # "done" /\ Ordered(w)
    BY <2>3 DEF Ordered
  <2>4. CASE pc # "done" /\ (Searching(w) \/ Closing(w))
    <3>1. Len(<<>>) = 0
      OBVIOUS
    <3> QED
      BY <2>4, <3>1 DEF Searching, Closing
  <2> QED
    BY <1>1, <2>1, <2>2, <2>3, <2>4 DEF ConversationInv, Turns
<1> QED
  BY <1>1, Conversation, PTL

\* A message the master holds a worker to have is the one the worker has, so a
\* REQUEST removes what was really exhausted (Master.cpp:178-187).
THEOREM RequestsAreCurrent == Spec => []AssignedIsCurrent
<1>1. ConversationInv => AssignedIsCurrent
  BY DEF ConversationInv
<1> QED
  BY <1>1, Conversation, PTL

\* A worker is told to go on only with a search it has (Master.cpp:169).
THEOREM ContinuesWithWork == Spec => []ContinuesLiveSearch
<1>1. ASSUME ConversationInv PROVE ContinuesLiveSearch
  <2> SUFFICES ASSUME NEW w \in Worker, toWorker[w] # <<>>,
                      Head(toWorker[w]).tag = "POLL_FOR_REASSIGNMENT"
               PROVE  wstate[w] = "paused" /\ work[w] # NULL
    BY DEF ContinuesLiveSearch
  <2>1. Head(toWorker[w]) = toWorker[w][1]
    BY <1>1, HeadTail DEF ConversationInv, TypeOK
  <2>2. toWorker[w] # <<Kill>>
    BY <2>1 DEF Kill
  <2>3. Ordered(w)
    BY <1>1, <2>2 DEF ConversationInv, Turns, Killed, MastersTurn, Searching, Closing
  <2>4. wstate[w] = "paused"
    BY <2>1, <2>3 DEF Ordered
  <2> QED
    BY <1>1, <2>4, OrganiserAssumption DEF ConversationInv, HasWork
<1> QED
  BY <1>1, Conversation, PTL

\* The KILL messages are the last: no answer stays unread, and nobody is still
\* at work (Master.cpp:136-142, 238-244).
THEOREM NothingUnread == Spec => []KillIsLast
<1>1. ConversationInv => KillIsLast
  BY DEF ConversationInv, Turns, Killed, KillIsLast
<1> QED
  BY <1>1, Conversation, PTL

-----------------------------------------------------------------------------
(* Modes 0 and 3 report at most one solution                               *)

\* The trigger is raised with the first solution and stays up, and an answer
\* received while it is up is thrown away.
FirstStops ==
  ENUMERATE_SOLUTIONS \in {0, 3} =>
    \/ solutions = {}
    \/ terminate_trigger /\ \E s \in solutions : solutions = {s}

\* A step other than a reported solution leaves the solutions alone and the
\* trigger up.
LEMMA OtherStepsKeepSolutions ==
  ASSUME [Next]_vars, ~ \E w \in Worker : ReceiveSolution(w)
  PROVE  /\ UNCHANGED <<ENUMERATE_SOLUTIONS, solutions>>
         /\ terminate_trigger => terminate_trigger'
<1>1. CASE MasterStep
  <2>1. CASE PullMessage \/ EndFill
    BY <2>1 DEF PullMessage, EndFill
  <2>2. ASSUME NEW w \in Worker, Allocate(w)
        PROVE  UNCHANGED <<ENUMERATE_SOLUTIONS, solutions, terminate_trigger>>
    BY <2>2 DEF Allocate, masterVars
  <2>3. CASE EndAllocate \/ EndSend \/ SendKill
    BY <2>3 DEF EndAllocate, EndSend, SendKill
  <2>4. ASSUME NEW w \in Worker, Send(w) \/ ReceiveRequest(w) \/ ReceivePoll(w)
        PROVE  UNCHANGED <<ENUMERATE_SOLUTIONS, solutions, terminate_trigger>>
    BY <2>4 DEF Send, ReceiveRequest, ReceivePoll
  <2> QED
    BY <1>1, <2>1, <2>2, <2>3, <2>4 DEF MasterStep
<1>2. ASSUME NEW w \in Worker, WorkerStep(w)
      PROVE  UNCHANGED <<ENUMERATE_SOLUTIONS, solutions, terminate_trigger>>
  BY <1>2 DEF WorkerStep, Search, StartSearch, ContinueSearch, Exit, SearchUnsat,
              SearchPause, SearchSat, masterVars
<1>3. CASE UNCHANGED vars
  BY <1>3 DEF vars, masterVars
<1> QED
  BY <1>1, <1>2, <1>3 DEF Next, Terminated

\* The race of the workers to the first solution has one winner, however many
\* of them report one (Master.cpp:62, 189-216).
THEOREM OneWinner == Spec => []AtMostOne
<1>1. Init => FirstStops
  BY DEF Init, FirstStops
<1>2. ASSUME FirstStops, [Next]_vars PROVE FirstStops'
  <2>1. ASSUME NEW w \in Worker, ReceiveSolution(w) PROVE FirstStops'
    <3>1. /\ UNCHANGED ENUMERATE_SOLUTIONS
          /\ \/ UNCHANGED <<solutions, terminate_trigger>>
             \/ /\ ~terminate_trigger
                /\ \E s : solutions' = solutions \cup {s}
                /\ terminate_trigger' = (ENUMERATE_SOLUTIONS \in {0, 3})
      BY <2>1 DEF ReceiveSolution, Solved, StopsAtFirst
    <3> QED
      BY <1>2, <3>1 DEF FirstStops
  <2>2. CASE ~ \E w \in Worker : ReceiveSolution(w)
    BY <1>2, <2>2, OtherStepsKeepSolutions DEF FirstStops
  <2> QED
    BY <2>1, <2>2
<1>3. FirstStops => AtMostOne
  <2> SUFFICES ASSUME FirstStops, ENUMERATE_SOLUTIONS \in {0, 3}
               PROVE  Cardinality(solutions) <= 1 /\ (solutions # {} => terminate_trigger)
    BY DEF AtMostOne, SingleSolution
  <2>1. CASE solutions = {}
    <3>1. Cardinality(solutions) = 0
      BY <2>1, FS_EmptySet
    <3> QED
      BY <2>1, <3>1
  <2>2. CASE terminate_trigger /\ \E s \in solutions : solutions = {s}
    <3>1. Cardinality(solutions) = 1
      BY <2>2, FS_Singleton
    <3> QED
      BY <2>2, <3>1
  <2> QED
    BY <2>1, <2>2 DEF FirstStops
<1> QED
  BY <1>1, <1>2, <1>3, PTL DEF Spec

-----------------------------------------------------------------------------
(* The allocation: no message is left without a worker, for any number of  *)
(* workers and of messages.  allocate_assignments (MasterOrganiser.cpp:    *)
(* 104-134) leaves no worker idle and no two messages two workers apart,   *)
(* and as the buffer never holds more messages than there are workers, the *)
(* share of no message is zero.                                            *)

\* The buffer holds no more messages than there are workers, and while the
\* allocations are sent they stay balanced.
AllocationInv ==
  /\ IsFiniteSet(message_buffer)
  /\ Cardinality(message_buffer) <= NumWorkers
  /\ pc = "send" /\ ~terminate_trigger => Balanced

\* The holders of the messages, and so the balance, depend on this only.
LEMMA SameHolders ==
  ASSUME \A m \in Message : Holders(m)' = Holders(m), UNCHANGED message_buffer,
         message_buffer \subseteq Message, Balanced
  PROVE  Balanced'
<1>1. \A m \in Message : Count(m)' = Count(m)
  BY DEF Count
<1> QED
  BY <1>1 DEF Balanced

\* To send what is to be assigned changes nothing in who will have what.
LEMMA SendKeepsHolders ==
  ASSUME ConversationInv, NEW w \in Worker, Send(w), NEW m \in Message
  PROVE  Holders(m)' = Holders(m)
<1>1. /\ assigned \in [Worker -> Message \cup {NULL}]
      /\ to_be_assigned \in [Worker -> Message \cup {NULL}]
      /\ m # NULL
  BY OrganiserAssumption DEF ConversationInv, TypeOK, OrganiserTypeOK
<1>2. CASE to_be_assigned[w] = NULL
  BY <1>2, OrderSent DEF Holders
<1>3. CASE to_be_assigned[w] # NULL
  <2>1. /\ assigned' = [assigned EXCEPT ![w] = to_be_assigned[w]]
        /\ to_be_assigned' = [to_be_assigned EXCEPT ![w] = NULL]
    BY <1>3, OrderSent
  <2>2. /\ assigned'[w] = to_be_assigned[w] /\ to_be_assigned'[w] = NULL
        /\ \A v \in Worker \ {w} :
             assigned'[v] = assigned[v] /\ to_be_assigned'[v] = to_be_assigned[v]
    BY <1>1, <2>1
  <2> QED
    BY <1>1, <1>3, <2>2 DEF Holders
<1> QED
  BY <1>2, <1>3

\* The buffer only shrinks when messages are removed.
LEMMA FewerMessages ==
  ASSUME IsFiniteSet(message_buffer), Cardinality(message_buffer) <= NumWorkers,
         message_buffer' \subseteq message_buffer
  PROVE  IsFiniteSet(message_buffer') /\ Cardinality(message_buffer') <= NumWorkers
<1>1. /\ IsFiniteSet(message_buffer')
      /\ Cardinality(message_buffer') <= Cardinality(message_buffer)
  BY FS_Subset
<1>2. Cardinality(message_buffer) \in Nat /\ Cardinality(message_buffer') \in Nat
  BY <1>1, FS_CardinalityType
<1> QED
  BY <1>1, <1>2, OrganiserAssumption

\* Every step keeps the invariant.
LEMMA NextAllocation ==
  ASSUME ConversationInv, AllocationInv, [Next]_vars
  PROVE  AllocationInv'
<1> USE DEF AllocationInv
<1>1. CASE PullMessage
  <2>1. /\ pc' = "fill" /\ ~ (Cardinality(message_buffer) >= NumWorkers)
        /\ \/ UNCHANGED message_buffer
           \/ \E m : message_buffer' = message_buffer \cup {m}
    BY <1>1 DEF PullMessage, BufferFull, AddMessage
  <2>2. Cardinality(message_buffer) \in Nat
    BY FS_CardinalityType
  <2>3. ASSUME NEW m, message_buffer' = message_buffer \cup {m}
        PROVE  IsFiniteSet(message_buffer') /\ Cardinality(message_buffer') <= NumWorkers
    <3>1. /\ IsFiniteSet(message_buffer')
          /\ \/ Cardinality(message_buffer') = Cardinality(message_buffer)
             \/ Cardinality(message_buffer') = Cardinality(message_buffer) + 1
      BY <2>3, FS_AddElement
    <3>2. Cardinality(message_buffer) + 1 <= NumWorkers
      BY <2>1, <2>2, OrganiserAssumption
    <3> QED
      BY <2>2, <3>1, <3>2, OrganiserAssumption
  <2> QED
    BY <2>1, <2>3
<1>2. CASE EndFill
  BY <1>2 DEF EndFill, organiserVars
<1>3. ASSUME NEW w \in Worker, Allocate(w) PROVE AllocationInv'
  BY <1>3 DEF Allocate, DishOut, Rebalance, masterVars
<1>4. CASE EndAllocate
  <2>1. UNCHANGED <<message_buffer, assigned, to_be_assigned, terminate_trigger>>
    BY <1>4 DEF EndAllocate, organiserVars
  <2>2. ~terminate_trigger => Balanced
    BY <1>4 DEF EndAllocate, AllocationDone, ConversationInv, Phases
  <2>3. Balanced' = Balanced
    BY <2>1 DEF Balanced, Count, Holders
  <2> QED
    BY <2>1, <2>2, <2>3
<1>5. ASSUME NEW w \in Worker, Send(w) PROVE AllocationInv'
  <2>1. pc = "send" /\ ~terminate_trigger /\ UNCHANGED message_buffer
    BY <1>5, OrderSent
  <2>2. Balanced'
    BY <1>5, <2>1, SendKeepsHolders, SameHolders DEF ConversationInv, TypeOK, OrganiserTypeOK
  <2> QED
    BY <2>1, <2>2
<1>6. CASE EndSend
  BY <1>6 DEF EndSend, organiserVars
<1>7. ASSUME NEW w \in Worker, ReceiveRequest(w) \/ ReceivePoll(w) \/ ReceiveSolution(w)
      PROVE  AllocationInv'
  <2>1. pc' = "fill" /\ message_buffer' \subseteq message_buffer
    BY <1>7 DEF ReceiveRequest, ReceivePoll, ReceiveSolution, Receive, Solved, FinishSubgraph,
                RemoveMessages
  <2> QED
    BY <2>1, FewerMessages
<1>8. CASE SendKill
  BY <1>8 DEF SendKill, organiserVars
<1>9. CASE (\E w \in Worker : WorkerStep(w)) \/ UNCHANGED vars
  <2>1. UNCHANGED <<message_buffer, assigned, to_be_assigned, terminate_trigger, pc>>
    <3>1. ASSUME NEW w \in Worker, WorkerStep(w)
          PROVE  UNCHANGED <<message_buffer, assigned, to_be_assigned, terminate_trigger, pc>>
      BY <3>1 DEF WorkerStep, Search, StartSearch, ContinueSearch, Exit, SearchUnsat,
                  SearchPause, SearchSat, masterVars, organiserVars
    <3>2. CASE UNCHANGED vars
      BY <3>2 DEF vars, masterVars, organiserVars
    <3> QED
      BY <1>9, <3>1, <3>2
  <2>2. Balanced' = Balanced
    BY <2>1 DEF Balanced, Count, Holders
  <2> QED
    BY <2>1, <2>2
<1> QED
  BY <1>1, <1>2, <1>3, <1>4, <1>5, <1>6, <1>7, <1>8, <1>9 DEF Next, MasterStep, Terminated

\* The buffer never outgrows the workers, and what goes out is balanced.
THEOREM BufferBounded == Spec => []AllocationInv
<1>1. Init => AllocationInv
  BY FS_EmptySet, OrganiserAssumption DEF Init, OrganiserInit, AllocationInv
<1>2. ConversationInv /\ AllocationInv /\ [Next]_vars => AllocationInv'
  BY NextAllocation
<1> QED
  BY <1>1, <1>2, Conversation, PTL DEF Spec

-----------------------------------------------------------------------------
(* What follows                                                            *)

\* When nobody is idle, each worker is a holder of a message of the buffer.
LEMMA EveryWorkerHolds ==
  ASSUME ConversationInv, Idle = {}, NEW w \in Worker
  PROVE  \E m \in message_buffer : w \in Holders(m)
<1>1. CASE to_be_assigned[w] # NULL
  BY <1>1 DEF ConversationInv, AssignedIsCurrent, Holders
<1>2. CASE to_be_assigned[w] = NULL
  <2>1. assigned[w] # NULL
    BY <1>2 DEF Idle
  <2> QED
    BY <1>2, <2>1 DEF ConversationInv, AssignedIsCurrent, Holders
<1> QED
  BY <1>1, <1>2

\* A message without a worker would leave more workers than other messages, so
\* two of them on one message: two more than on the first.
LEMMA NoneWithout ==
  ASSUME ConversationInv, AllocationInv, Idle = {}, Balanced, NEW m \in message_buffer
  PROVE  Holders(m) # {}
<1> SUFFICES ASSUME Holders(m) = {} PROVE FALSE
  OBVIOUS
<1> DEFINE others == message_buffer \ {m}
           held == [w \in Worker |-> CHOOSE k \in message_buffer : w \in Holders(k)]
<1>1. \A w \in Worker : held[w] \in message_buffer /\ w \in Holders(held[w])
  BY EveryWorkerHolds
<1>2. held \in [Worker -> others]
  BY <1>1
<1>3. /\ IsFiniteSet(Worker) /\ Cardinality(Worker) = NumWorkers
      /\ IsFiniteSet(others) /\ Cardinality(others) < Cardinality(Worker)
  <2>1. IsFiniteSet(Worker) /\ Cardinality(Worker) = NumWorkers
    BY FS_Interval, OrganiserAssumption DEF Worker
  <2>2. IsFiniteSet(others) /\ Cardinality(others) = Cardinality(message_buffer) - 1
    BY FS_RemoveElement DEF AllocationInv
  <2>3. Cardinality(message_buffer) \in Nat
    BY FS_CardinalityType DEF AllocationInv
  <2> QED
    BY <2>1, <2>2, <2>3, OrganiserAssumption DEF AllocationInv
<1> HIDE DEF others, held
<1>4. PICK v, w \in Worker : v # w /\ held[v] = held[w]
  BY <1>2, <1>3, FS_PigeonHole
<1> DEFINE k == held[v]
<1>5. k \in message_buffer /\ {v, w} \subseteq Holders(k)
  <2>1. held[v] \in message_buffer /\ v \in Holders(held[v]) /\ w \in Holders(held[w])
    BY <1>1
  <2> QED
    BY <1>4, <2>1
<1> HIDE DEF k
<1>6. Count(k) \in Nat /\ Count(k) >= 2
  <2>1. IsFiniteSet(Holders(k))
    BY <1>3, FS_Subset DEF Holders
  <2>2. Cardinality({v, w}) = 2
    <3>1. IsFiniteSet({v}) /\ Cardinality({v}) = 1
      BY FS_Singleton
    <3>2. {v, w} = {v} \cup {w} /\ w \notin {v}
      BY <1>4
    <3>3. Cardinality({v} \cup {w}) = Cardinality({v}) + 1
      BY <3>1, <3>2, FS_AddElement
    <3> QED
      BY <3>1, <3>2, <3>3
  <2>3. Cardinality({v, w}) <= Cardinality(Holders(k))
    BY <1>5, <2>1, FS_Subset
  <2>4. Cardinality(Holders(k)) \in Nat
    BY <2>1, FS_CardinalityType
  <2> QED
    BY <2>2, <2>3, <2>4 DEF Count
<1>7. Count(m) = 0
  BY FS_EmptySet DEF Count
<1> QED
  BY <1>5, <1>6, <1>7 DEF Balanced

\* When assignments go out every buffered message has a worker, no worker is
\* without one, and the shares differ by one at most, for any number of
\* workers (MasterOrganiser.cpp:104-134).
THEOREM SharesWork == Spec => []EveryMessageHeld
<1>1. ConversationInv /\ AllocationInv => EveryMessageHeld
  BY NoneWithout DEF EveryMessageHeld, ConversationInv, Phases, AllocationInv
<1> QED
  BY <1>1, Conversation, BufferBounded, PTL

\* Only the sending of an assignment gives a worker a message.
LEMMA OnlySendMoves ==
  ASSUME ConversationInv, [Next]_vars, NEW w \in Worker,
         assigned'[w] \notin {NULL, assigned[w]}
  PROVE  \E v \in Worker : Send(v)
<1>1. CASE PullMessage \/ EndFill \/ EndAllocate \/ EndSend \/ SendKill
  BY <1>1 DEF PullMessage, EndFill, EndAllocate, EndSend, SendKill, organiserVars
<1>2. ASSUME NEW v \in Worker, Allocate(v) PROVE FALSE
  BY <1>2 DEF Allocate, DishOut, Rebalance
<1>3. ASSUME NEW v \in Worker, ReceiveRequest(v) \/ ReceivePoll(v) \/ ReceiveSolution(v)
      PROVE  FALSE
  <2>1. assigned \in [Worker -> Message \cup {NULL}]
    BY DEF ConversationInv, TypeOK, OrganiserTypeOK
  <2>2. CASE ReceivePoll(v)
    BY <2>1, <2>2 DEF ReceivePoll
  <2>3. CASE UNCHANGED assigned
    BY <2>3
  <2>4. CASE \E M : RemoveMessages(M)
    BY <2>4 DEF RemoveMessages
  <2> QED
    BY <1>3, <2>2, <2>3, <2>4 DEF ReceiveRequest, ReceiveSolution, Solved, FinishSubgraph
<1>4. ASSUME NEW v \in Worker, WorkerStep(v) PROVE FALSE
  BY <1>4 DEF WorkerStep, Search, StartSearch, ContinueSearch, Exit, SearchUnsat,
              SearchPause, SearchSat, organiserVars
<1>5. CASE UNCHANGED vars
  BY <1>5 DEF vars, organiserVars
<1> QED
  BY <1>1, <1>2, <1>3, <1>4, <1>5 DEF Next, MasterStep, Terminated

\* No step takes the last worker from a message that is still to be done by
\* giving it another (the rebalancing of MasterOrganiser.cpp:113-133 as it is
\* carried out by Master.cpp:147-177).
THEOREM MovesAreSafe == Spec => MovesLeaveSomeoneBehind
<1>1. ASSUME ConversationInv, AllocationInv, [Next]_vars
      PROVE  [\A w \in Worker : \A m \in message_buffer :
                assigned[w] = m /\ assigned'[w] \notin {NULL, m} => Holders(m)' # {}]_vars
  <2> SUFFICES ASSUME NEW w \in Worker, NEW m \in message_buffer,
                      assigned[w] = m, assigned'[w] \notin {NULL, m}
               PROVE  Holders(m)' # {}
    OBVIOUS
  <2>1. PICK v \in Worker : Send(v)
    BY <1>1, OnlySendMoves
  <2>2. pc = "send" /\ ~terminate_trigger
    BY <2>1, OrderSent, <1>1
  <2>3. Holders(m) # {}
    BY <1>1, <2>2, NoneWithout DEF AllocationInv, ConversationInv, Phases
  <2>4. m \in Message
    BY <1>1 DEF ConversationInv, TypeOK, OrganiserTypeOK
  <2> QED
    BY <1>1, <2>1, <2>3, <2>4, SendKeepsHolders
<1> QED
  BY <1>1, Conversation, BufferBounded, PTL DEF Spec, MovesLeaveSomeoneBehind

-----------------------------------------------------------------------------
(* No work is lost: the inductive invariant                                *)

\* The answers on their way to the master from worker w.
SolutionsIn(s) == {s[i] : i \in {j \in 1 .. Len(s) : s[j].tag = "SOLUTION"}}
Pending(w) == SolutionsIn(toMaster[w])

\* What the master knows of the node that worker w is on, or will know when
\* it has read what the worker sent.
Known(w) ==
  registered[work[w].to] \cup {MasterView(work[w].to, s.lits) : s \in Pending(w)}

\* What is worked on was given out by the solutions object.
WorkIsIssued ==
  /\ message_buffer \subseteq issued
  /\ \A w \in Worker : {work[w], CurrentWork(w)} \subseteq issued \cup {NULL}

\* What was given out was, and so is, a combination of registered answers.
IssuedCombine == \A m \in issued : m \in Combinations(registered, m.to)

\* Answers are registered as far as their node shows them.
RegisteredAreViews == \A n \in Node : \A q \in registered[n] : MasterView(n, q) = q

\* A worker's answers on their way are answers to the message it is on.
PendingFit ==
  \A w \in Worker : \A s \in Pending(w) :
    /\ work[w] # NULL
    /\ s.from = work[w].to
    /\ MasterView(s.from, s.lits) \in PossibleAnswers(work[w])

\* The clauses that go with an order exclude registered answers only.
OrdersExclude ==
  \A w \in Worker :
    toWorker[w] # <<>> /\ Head(toWorker[w]).tag = "NEW_ASSIGNMENT" =>
      \A c \in Head(toWorker[w]).clauses :
        \E q \in registered[Head(toWorker[w]).msg.to] : c = Negated(q)

\* An assignment that violates clause c has the cube q.
Excludes(c, q) == \A a \in TotalAssignments : a \cap c = {} => q \subseteq a

\* As long as the master takes answers in, each clause a search has been given
\* or has added excludes an answer that is known.
LearntIsKnown ==
  ~terminate_trigger =>
    \A w \in Worker : work[w] # NULL =>
      \A c \in learnt[w] : \E q \in Known(w) : Excludes(c, q)

\* A worker that asks for other work leaves nothing behind, except in mode 3,
\* where it stops at its first answer.
ExhaustedIsKnown ==
  ~terminate_trigger /\ ENUMERATE_SOLUTIONS # 3 =>
    \A w \in Worker :
      toMaster[w] # <<>> /\ toMaster[w][Len(toMaster[w])] = Request =>
        work[w] # NULL /\ Covered(work[w], Known(w))

\* Modes 1 and 2 try everything, and so does mode 0 as long as nothing is found.
TriesEverything ==
  \/ ENUMERATE_SOLUTIONS \in {1, 2}
  \/ ENUMERATE_SOLUTIONS = 0 /\ solutions = {}

\* Then the trigger is raised only when nothing is left to do.
Drained == TriesEverything /\ terminate_trigger => message_buffer = {} /\ Waiting = {}

\* And what was given out is still to be done, done, or not worth doing.
NoneLost ==
  TriesEverything =>
    \A m \in issued :
      \/ m \in message_buffer
      \/ Subgraph[m.to] \in subgraph_finished
      \/ Covered(m, registered[m.to])

\* The answers of terminal nodes are reported, and a subgraph is finished only
\* by a solution.
TerminalsReport ==
  \A n \in Node : Terminal(n) =>
    \A q \in registered[n] : [from |-> n, lits |-> q] \in solutions
FinishedIsSolved ==
  \A g \in subgraph_finished :
    ENUMERATE_SOLUTIONS = 2 /\ \E s \in solutions : Subgraph[s.from] = g

\* A worker at work that the master thinks has no message is on one that is
\* gone.
FreedIsGone ==
  \A w \in Worker :
    ~polled[w] /\ assigned[w] = NULL => CurrentWork(w) \notin message_buffer

\* In mode 2 on a DAG in one piece nothing is done any more once there is a
\* solution.
Connected == \A n, k \in Node : Subgraph[n] = Subgraph[k]
StopsAtOnce ==
  ENUMERATE_SOLUTIONS = 2 /\ Connected =>
    \/ solutions = {}
    \/ /\ \E s \in solutions : solutions = {s}
       /\ message_buffer = {}
       /\ terminate_trigger \/ pc = "fill"
       /\ \A n \in Node : Subgraph[n] \in subgraph_finished

WorkInv ==
  /\ WorkIsIssued
  /\ IssuedCombine
  /\ RegisteredAreViews
  /\ PendingFit
  /\ OrdersExclude
  /\ LearntIsKnown
  /\ ExhaustedIsKnown
  /\ Drained
  /\ NoneLost
  /\ TerminalsReport
  /\ FinishedIsSolved
  /\ FreedIsGone
  /\ StopsAtOnce

-----------------------------------------------------------------------------
(* What is pending                                                         *)

\* An answer or a tag is appended to what a worker has sent, and the master
\* takes the first.
LEMMA PendingAppend ==
  ASSUME NEW S, NEW s \in Seq(S), NEW x
  PROVE  SolutionsIn(Append(s, x)) =
           SolutionsIn(s) \cup IF x.tag = "SOLUTION" THEN {x} ELSE {}
<1> DEFINE t == Append(s, x)
<1>1. /\ Len(s) \in Nat /\ Len(t) = Len(s) + 1
      /\ t[Len(s) + 1] = x /\ \A i \in 1 .. Len(s) : t[i] = s[i]
  OBVIOUS
<1> HIDE DEF t
<1>2. ASSUME NEW y \in SolutionsIn(t)
      PROVE  y \in SolutionsIn(s) \cup IF x.tag = "SOLUTION" THEN {x} ELSE {}
  <2>1. PICK i \in 1 .. Len(t) : y = t[i] /\ t[i].tag = "SOLUTION"
    BY DEF SolutionsIn
  <2>2. CASE i = Len(s) + 1
    BY <1>1, <2>1, <2>2
  <2>3. CASE i # Len(s) + 1
    <3>1. i \in 1 .. Len(s)
      BY <1>1, <2>3
    <3> QED
      BY <1>1, <2>1, <3>1 DEF SolutionsIn
  <2> QED
    BY <2>2, <2>3
<1>3. ASSUME NEW y \in SolutionsIn(s) PROVE y \in SolutionsIn(t)
  <2>1. PICK i \in 1 .. Len(s) : y = s[i] /\ s[i].tag = "SOLUTION"
    BY DEF SolutionsIn
  <2>2. i \in 1 .. Len(t) /\ t[i] = y
    BY <1>1, <2>1
  <2> QED
    BY <2>1, <2>2 DEF SolutionsIn
<1>4. x.tag = "SOLUTION" => x \in SolutionsIn(t)
  <2>1. Len(s) + 1 \in 1 .. Len(t)
    BY <1>1
  <2> QED
    BY <1>1, <2>1 DEF SolutionsIn
<1> QED
  BY <1>2, <1>3, <1>4 DEF t

\* The master takes the oldest.
LEMMA PendingTail ==
  ASSUME NEW S, NEW s \in Seq(S), s # <<>>
  PROVE  SolutionsIn(s) =
           SolutionsIn(Tail(s)) \cup IF Head(s).tag = "SOLUTION" THEN {Head(s)} ELSE {}
<1> DEFINE t == Tail(s)
<1>1. /\ Len(s) \in Nat \ {0} /\ Len(t) = Len(s) - 1 /\ Head(s) = s[1]
      /\ \A i \in 1 .. Len(s) - 1 : t[i] = s[i + 1]
  BY HeadTail
<1> HIDE DEF t
<1>2. ASSUME NEW y \in SolutionsIn(s)
      PROVE  y \in SolutionsIn(t) \cup IF s[1].tag = "SOLUTION" THEN {s[1]} ELSE {}
  <2>1. PICK i \in 1 .. Len(s) : y = s[i] /\ s[i].tag = "SOLUTION"
    BY DEF SolutionsIn
  <2>2. CASE i = 1
    BY <2>1, <2>2
  <2>3. CASE i # 1
    <3>1. i - 1 \in 1 .. Len(s) - 1 /\ (i - 1) + 1 = i
      BY <1>1, <2>3
    <3>2. t[i - 1] = s[i]
      BY <1>1, <3>1
    <3> QED
      BY <1>1, <2>1, <3>1, <3>2 DEF SolutionsIn
  <2> QED
    BY <2>2, <2>3
<1>3. ASSUME NEW y \in SolutionsIn(t) PROVE y \in SolutionsIn(s)
  <2>1. PICK i \in 1 .. Len(t) : y = t[i] /\ t[i].tag = "SOLUTION"
    BY DEF SolutionsIn
  <2>2. i + 1 \in 1 .. Len(s) /\ s[i + 1] = y
    BY <1>1, <2>1
  <2> QED
    BY <2>1, <2>2 DEF SolutionsIn
<1>4. s[1].tag = "SOLUTION" => s[1] \in SolutionsIn(s)
  <2>1. 1 \in 1 .. Len(s)
    BY <1>1
  <2> QED
    BY <2>1 DEF SolutionsIn
<1> QED
  BY <1>1, <1>2, <1>3, <1>4 DEF t

\* An empty channel has none.
LEMMA PendingNone == SolutionsIn(<<>>) = {}
<1>1. Len(<<>>) = 0
  OBVIOUS
<1> QED
  BY <1>1 DEF SolutionsIn

-----------------------------------------------------------------------------
(* What the parts of the invariant depend on                               *)

\* A step that leaves alone what a part speaks of leaves the part alone.
LEMMA Frames ==
  /\ WorkIsIssued /\ UNCHANGED <<message_buffer, issued, work, toWorker>> => WorkIsIssued'
  /\ IssuedCombine /\ UNCHANGED <<issued, registered>> => IssuedCombine'
  /\ RegisteredAreViews /\ UNCHANGED registered => RegisteredAreViews'
  /\ PendingFit /\ UNCHANGED <<toMaster, work>> => PendingFit'
  /\ OrdersExclude /\ UNCHANGED <<toWorker, registered>> => OrdersExclude'
  /\ LearntIsKnown /\ UNCHANGED <<terminate_trigger, work, learnt, registered, toMaster>>
       => LearntIsKnown'
  /\ ExhaustedIsKnown
       /\ UNCHANGED <<ENUMERATE_SOLUTIONS, terminate_trigger, work, registered, toMaster>>
       => ExhaustedIsKnown'
  /\ Drained
       /\ UNCHANGED <<ENUMERATE_SOLUTIONS, terminate_trigger, solutions, message_buffer,
                      registered, issued>>
       => Drained'
  /\ NoneLost
       /\ UNCHANGED <<ENUMERATE_SOLUTIONS, solutions, message_buffer, registered, issued,
                      subgraph_finished>>
       => NoneLost'
  /\ TerminalsReport /\ UNCHANGED <<registered, solutions>> => TerminalsReport'
  /\ FinishedIsSolved /\ UNCHANGED <<ENUMERATE_SOLUTIONS, subgraph_finished, solutions>>
       => FinishedIsSolved'
  /\ FreedIsGone /\ UNCHANGED <<polled, assigned, work, toWorker, message_buffer>>
       => FreedIsGone'
  /\ StopsAtOnce
       /\ UNCHANGED <<ENUMERATE_SOLUTIONS, solutions, message_buffer, terminate_trigger,
                      subgraph_finished>>
       /\ (terminate_trigger \/ UNCHANGED pc \/ pc # "fill")
       => StopsAtOnce'
<1>1. WorkIsIssued /\ UNCHANGED <<message_buffer, issued, work, toWorker>> => WorkIsIssued'
  BY DEF WorkIsIssued, CurrentWork
<1>2. IssuedCombine /\ UNCHANGED <<issued, registered>> => IssuedCombine'
  BY DEF IssuedCombine
<1>3. RegisteredAreViews /\ UNCHANGED registered => RegisteredAreViews'
  BY DEF RegisteredAreViews
<1>4. PendingFit /\ UNCHANGED <<toMaster, work>> => PendingFit'
  BY DEF PendingFit, Pending
<1>5. OrdersExclude /\ UNCHANGED <<toWorker, registered>> => OrdersExclude'
  BY DEF OrdersExclude
<1>6. LearntIsKnown /\ UNCHANGED <<terminate_trigger, work, learnt, registered, toMaster>>
        => LearntIsKnown'
  BY DEF LearntIsKnown, Known, Pending
<1>7. ExhaustedIsKnown
        /\ UNCHANGED <<ENUMERATE_SOLUTIONS, terminate_trigger, work, registered, toMaster>>
        => ExhaustedIsKnown'
  <2>1. UNCHANGED <<work, registered, toMaster>> => \A w \in Worker : Known(w)' = Known(w)
    BY DEF Known, Pending
  <2> QED
    BY <2>1 DEF ExhaustedIsKnown, Covered
<1>8. Drained
        /\ UNCHANGED <<ENUMERATE_SOLUTIONS, terminate_trigger, solutions, message_buffer,
                       registered, issued>>
        => Drained'
  BY DEF Drained, TriesEverything, Waiting
<1>9. NoneLost
        /\ UNCHANGED <<ENUMERATE_SOLUTIONS, solutions, message_buffer, registered, issued,
                       subgraph_finished>>
        => NoneLost'
  BY DEF NoneLost, TriesEverything
<1>10. TerminalsReport /\ UNCHANGED <<registered, solutions>> => TerminalsReport'
  BY DEF TerminalsReport
<1>11. FinishedIsSolved /\ UNCHANGED <<ENUMERATE_SOLUTIONS, subgraph_finished, solutions>>
         => FinishedIsSolved'
  BY DEF FinishedIsSolved
<1>12. FreedIsGone /\ UNCHANGED <<polled, assigned, work, toWorker, message_buffer>>
         => FreedIsGone'
  BY DEF FreedIsGone, CurrentWork
<1>13. StopsAtOnce
         /\ UNCHANGED <<ENUMERATE_SOLUTIONS, solutions, message_buffer, terminate_trigger,
                        subgraph_finished>>
         /\ (terminate_trigger \/ UNCHANGED pc \/ pc # "fill")
         => StopsAtOnce'
  BY DEF StopsAtOnce
<1> QED
  BY <1>1, <1>2, <1>3, <1>4, <1>5, <1>6, <1>7, <1>8, <1>9, <1>10, <1>11, <1>12, <1>13

-----------------------------------------------------------------------------
(* The invariant holds at the start and is kept by every action            *)

\* Nothing was given out yet, and nothing found.
LEMMA InitWork == Init => WorkInv
<1> SUFFICES ASSUME Init PROVE WorkInv
  OBVIOUS
<1> USE DEF Init, OrganiserInit, StoreInit
<1>1. WorkIsIssued
  BY DEF WorkIsIssued, CurrentWork
<1>2. IssuedCombine /\ RegisteredAreViews /\ TerminalsReport /\ FinishedIsSolved
  BY DEF IssuedCombine, RegisteredAreViews, TerminalsReport, FinishedIsSolved
<1>3. PendingFit
  BY PendingNone DEF PendingFit, Pending
<1>4. OrdersExclude
  BY DEF OrdersExclude
<1>5. LearntIsKnown /\ ExhaustedIsKnown
  BY DEF LearntIsKnown, ExhaustedIsKnown
<1>6. Drained /\ NoneLost
  BY DEF Drained, NoneLost
<1>7. FreedIsGone
  BY DEF FreedIsGone
<1>8. StopsAtOnce
  BY DEF StopsAtOnce
<1> QED
  BY <1>1, <1>2, <1>3, <1>4, <1>5, <1>6, <1>7, <1>8 DEF WorkInv

\* The message that is pulled is new, so nobody is on it yet; it goes to the
\* buffer unless its subgraph is finished.
LEMMA PullMessageWork ==
  ASSUME ConversationInv, WorkInv, PullMessage
  PROVE  WorkInv'
<1> USE DEF WorkInv
<1>1. PICK m \in NextMessages :
        /\ issued' = issued \cup {m}
        /\ IF Subgraph[m.to] \in subgraph_finished
           THEN UNCHANGED message_buffer
           ELSE message_buffer' = message_buffer \cup {m}
  BY DEF PullMessage, AddMessage
<1>2. /\ ~terminate_trigger
      /\ UNCHANGED <<ENUMERATE_SOLUTIONS, assigned, polled, pc, terminate_trigger, registered,
                     subgraph_finished, solutions, work, learnt, toWorker, toMaster>>
  BY DEF PullMessage, workerVars, channels
<1>3. m \in Waiting /\ m \in Message /\ m \in Combinations(registered, m.to)
  <2>1. m \in Waiting
    BY DEF NextMessages
  <2>2. PICK n \in Node : m \in Combinations(registered, n)
    BY <2>1 DEF Waiting
  <2> QED
    BY <2>1, <2>2, CombinationsType DEF ConversationInv, TypeOK
<1>4. m \notin issued /\ m # NULL
  BY <1>3, OrganiserAssumption DEF Waiting
<1>5. \A w \in Worker : CurrentWork(w)' = CurrentWork(w)
  BY <1>2 DEF CurrentWork
<1>6. WorkIsIssued'
  BY <1>1, <1>2, <1>5 DEF WorkIsIssued
<1>7. IssuedCombine'
  BY <1>1, <1>2, <1>3 DEF IssuedCombine
<1>8. /\ RegisteredAreViews' /\ PendingFit' /\ OrdersExclude' /\ LearntIsKnown'
      /\ ExhaustedIsKnown' /\ TerminalsReport' /\ FinishedIsSolved'
  BY <1>2, Frames
<1>9. Drained'
  BY <1>2 DEF Drained
<1>10. NoneLost'
  BY <1>1, <1>2 DEF NoneLost, TriesEverything
<1>11. FreedIsGone'
  <2>1. \A w \in Worker : CurrentWork(w) # m
    BY <1>4 DEF WorkIsIssued
  <2> QED
    BY <1>1, <1>2, <1>5, <2>1 DEF FreedIsGone
<1>12. StopsAtOnce'
  <2>1. m.to \in Node
    BY <1>3, MessageToNode
  <2> QED
    BY <1>1, <1>2, <2>1 DEF StopsAtOnce
<1> QED
  BY <1>6, <1>7, <1>8, <1>9, <1>10, <1>11, <1>12

\* The trigger goes up when the buffer is empty and nothing waits.
LEMMA EndFillWork ==
  ASSUME ConversationInv, WorkInv, EndFill
  PROVE  WorkInv'
<1> USE DEF WorkInv
<1>1. /\ pc = "fill"
      /\ terminate_trigger \/ BufferFull \/ Waiting = {}
      /\ terminate_trigger' = (terminate_trigger \/ message_buffer = {})
      /\ UNCHANGED <<ENUMERATE_SOLUTIONS, message_buffer, assigned, polled, registered, issued,
                     subgraph_finished, solutions, work, learnt, toWorker, toMaster>>
  BY DEF EndFill, OutOfWork, organiserVars, workerVars, channels
<1>2. /\ WorkIsIssued' /\ IssuedCombine' /\ RegisteredAreViews' /\ PendingFit'
      /\ OrdersExclude' /\ NoneLost' /\ TerminalsReport' /\ FinishedIsSolved' /\ FreedIsGone'
  BY <1>1, Frames
<1>3. LearntIsKnown' /\ ExhaustedIsKnown'
  <2>1. CASE terminate_trigger'
    BY <2>1 DEF LearntIsKnown, ExhaustedIsKnown
  <2>2. CASE ~terminate_trigger'
    <3>1. UNCHANGED terminate_trigger
      BY <1>1, <2>2 DEF ConversationInv, TypeOK
    <3> QED
      BY <1>1, <3>1, Frames
  <2> QED
    BY <2>1, <2>2
<1>4. Drained'
  <2>1. CASE terminate_trigger
    <3>1. UNCHANGED terminate_trigger
      BY <1>1, <2>1 DEF ConversationInv, TypeOK
    <3> QED
      BY <1>1, <3>1, Frames
  <2>2. CASE ~terminate_trigger /\ message_buffer = {}
    <3>1. Cardinality(message_buffer) = 0 /\ NumWorkers > 0
      BY <2>2, FS_EmptySet, OrganiserAssumption
    <3>2. Waiting = {}
      BY <1>1, <2>2, <3>1, OrganiserAssumption DEF BufferFull
    <3>3. Waiting' = Waiting
      BY <1>1 DEF Waiting
    <3> QED
      BY <1>1, <2>2, <3>2, <3>3 DEF Drained
  <2>3. CASE ~terminate_trigger /\ message_buffer # {}
    BY <1>1, <2>3 DEF Drained
  <2> QED
    BY <2>1, <2>2, <2>3
<1>5. StopsAtOnce'
  BY <1>1 DEF StopsAtOnce
<1> QED
  BY <1>2, <1>3, <1>4, <1>5

\* The allocation moves no message in or out of the buffer.
LEMMA AllocationWork ==
  ASSUME ConversationInv, WorkInv,
         (\E w \in Worker : Allocate(w)) \/ EndAllocate \/ EndSend
  PROVE  WorkInv'
<1> USE DEF WorkInv
<1>1. /\ pc # "fill"
      /\ UNCHANGED <<ENUMERATE_SOLUTIONS, message_buffer, assigned, polled, terminate_trigger,
                     registered, issued, subgraph_finished, solutions, work, learnt, toWorker,
                     toMaster>>
  BY DEF Allocate, DishOut, Rebalance, EndAllocate, EndSend, organiserVars, masterVars,
         workerVars, channels
<1> QED
  BY <1>1, Frames

\* An order carries the message that was allocated, which is in the buffer,
\* and the negations of the answers registered so far.
LEMMA SendWork ==
  ASSUME ConversationInv, WorkInv, NEW w \in Worker, Send(w)
  PROVE  WorkInv'
<1> USE DEF WorkInv
<1>1. /\ pc = "send" /\ ~terminate_trigger /\ MastersTurn(w)
      /\ polled' = [polled EXCEPT ![w] = FALSE]
      /\ toWorker' = [toWorker EXCEPT ![w] = <<Order(w)>>]
      /\ UNCHANGED <<ENUMERATE_SOLUTIONS, message_buffer, pc, terminate_trigger, registered,
                     issued, subgraph_finished, solutions, work, learnt, toMaster>>
  BY OrderSent DEF workerVars
<1>2. IF to_be_assigned[w] # NULL
      THEN assigned' = [assigned EXCEPT ![w] = to_be_assigned[w]]
      ELSE UNCHANGED assigned
  BY OrderSent
<1>3. /\ toWorker[w] = <<>> /\ toWorker'[w] = <<Order(w)>>
      /\ \A v \in Worker \ {w} : toWorker'[v] = toWorker[v]
  BY <1>1 DEF MastersTurn, ConversationInv, TypeOK
<1>4. /\ \A v \in Worker \ {w} : CurrentWork(v)' = CurrentWork(v)
      /\ CurrentWork(w)' = IF to_be_assigned[w] # NULL THEN to_be_assigned[w] ELSE CurrentWork(w)
  BY <1>1, <1>3, OrderTypes DEF CurrentWork, ConversationInv
<1>5. WorkIsIssued'
  BY <1>1, <1>4 DEF WorkIsIssued, ConversationInv, AssignedIsCurrent
<1>6. OrdersExclude'
  <2>1. to_be_assigned[w] # NULL =>
          \A c \in Order(w).clauses : \E q \in registered[to_be_assigned[w].to] : c = Negated(q)
    BY DEF Order, Assignment, AdditionalClauses
  <2> QED
    BY <1>1, <1>3, <2>1, OrderTypes DEF OrdersExclude, ConversationInv
<1>7. FreedIsGone'
  <2>1. ASSUME NEW v \in Worker \ {w}, ~polled'[v], assigned'[v] = NULL
        PROVE  CurrentWork(v)' \notin message_buffer'
    BY <1>1, <1>2, <1>4, <2>1 DEF FreedIsGone, ConversationInv, TypeOK, OrganiserTypeOK
  <2>2. assigned'[w] # NULL
    BY <1>1, <1>2 DEF ConversationInv, TypeOK, OrganiserTypeOK, Phases, Idle
  <2> QED
    BY <2>1, <2>2 DEF FreedIsGone
<1>8. /\ IssuedCombine' /\ RegisteredAreViews' /\ PendingFit' /\ LearntIsKnown'
      /\ ExhaustedIsKnown' /\ Drained' /\ NoneLost' /\ TerminalsReport' /\ FinishedIsSolved'
      /\ StopsAtOnce'
  BY <1>1, Frames
<1> QED
  BY <1>5, <1>6, <1>7, <1>8

\* All the workers wait when they are killed.
LEMMA SendKillWork ==
  ASSUME ConversationInv, WorkInv, SendKill
  PROVE  WorkInv'
<1> USE DEF WorkInv
<1>1. /\ pc = "exit" /\ \A w \in Worker : polled[w]
      /\ UNCHANGED <<ENUMERATE_SOLUTIONS, message_buffer, assigned, polled, terminate_trigger,
                     registered, issued, subgraph_finished, solutions, work, learnt, toMaster>>
  BY DEF SendKill, organiserVars, workerVars, ConversationInv, Phases, AllPolled
<1>2. \A w \in Worker : toWorker[w] = <<>> /\ toWorker'[w] = <<Kill>>
  <2> SUFFICES ASSUME NEW w \in Worker PROVE toWorker[w] = <<>> /\ toWorker'[w] = <<Kill>>
    OBVIOUS
  <2>1. toWorker[w] = <<>>
    BY <1>1 DEF ConversationInv, Turns, MastersTurn, Ordered, Searching, Closing
  <2>2. toWorker'[w] = Append(toWorker[w], Kill)
    BY DEF SendKill
  <2>3. Append(<<>>, Kill) = <<Kill>>
    OBVIOUS
  <2> QED
    BY <2>1, <2>2, <2>3
<1>3. \A w \in Worker : CurrentWork(w)' = CurrentWork(w)
  BY <1>1, <1>2 DEF CurrentWork, Kill
<1>4. WorkIsIssued'
  BY <1>1, <1>3 DEF WorkIsIssued
<1>5. OrdersExclude'
  BY <1>2 DEF OrdersExclude, Kill
<1>6. FreedIsGone'
  BY <1>1 DEF FreedIsGone
<1>7. /\ IssuedCombine' /\ RegisteredAreViews' /\ PendingFit' /\ LearntIsKnown'
      /\ ExhaustedIsKnown' /\ Drained' /\ NoneLost' /\ TerminalsReport' /\ FinishedIsSolved'
      /\ StopsAtOnce'
  BY <1>1, Frames
<1> QED
  BY <1>4, <1>5, <1>6, <1>7

\* Removing messages frees the workers that were on them.
LEMMA RemoveFrees ==
  ASSUME ConversationInv, FreedIsGone, NEW M, RemoveMessages(M), NEW w \in Worker,
         \A v \in Worker \ {w} : polled'[v] = polled[v],
         UNCHANGED <<toWorker, work>>, polled'[w] \/ polled'[w] = polled[w]
  PROVE  FreedIsGone'
<1> SUFFICES ASSUME NEW v \in Worker, ~polled'[v], assigned'[v] = NULL
             PROVE  CurrentWork(v)' \notin message_buffer'
  BY DEF FreedIsGone
<1>1. ~polled[v] /\ CurrentWork(v)' = CurrentWork(v)
  BY DEF CurrentWork
<1>2. message_buffer' = message_buffer \ M /\ (assigned[v] = NULL \/ assigned[v] \in M)
  BY DEF RemoveMessages
<1>3. CASE assigned[v] = NULL
  BY <1>1, <1>2, <1>3 DEF FreedIsGone
<1>4. CASE assigned[v] # NULL
  BY <1>1, <1>2, <1>4 DEF ConversationInv, AssignedIsCurrent
<1> QED
  BY <1>3, <1>4

\* What is pending is known, so that the order in which the master reads what
\* the workers sent does not matter: a request or a poll adds nothing.
LEMMA ClosingKnown ==
  ASSUME ConversationInv, NEW w \in Worker,
         NEW tag \in {"REQUEST_FOR_ASSIGNMENT", "POLL_FOR_REASSIGNMENT"}, Receive(w, tag),
         UNCHANGED <<registered, work>>
  PROVE  /\ Pending(w) = {}
         /\ \A v \in Worker : Pending(v)' = Pending(v) /\ Known(v)' = Known(v)
<1>1. toMaster' = [toMaster EXCEPT ![w] = <<>>]
  BY ClosingReceived DEF ConversationInv
<1>2. /\ toMaster[w] \in Seq(WorkerMessage) /\ toMaster[w] # <<>>
      /\ Head(toMaster[w]).tag # "SOLUTION" /\ Tail(toMaster[w]) = <<>>
  BY <1>1 DEF Receive, ConversationInv, TypeOK
<1>3. Pending(w) = {}
  BY <1>2, PendingTail, PendingNone DEF Pending
<1>4. ASSUME NEW v \in Worker PROVE Pending(v)' = Pending(v)
  <2>1. CASE v = w
    <3>1. toMaster'[w] = <<>>
      BY <1>1 DEF ConversationInv, TypeOK
    <3> QED
      BY <1>3, <2>1, <3>1, PendingNone DEF Pending
  <2>2. CASE v # w
    BY <1>1, <2>2 DEF Pending, ConversationInv, TypeOK
  <2> QED
    BY <2>1, <2>2
<1>5. \A v \in Worker : Known(v)' = Known(v)
  BY <1>4 DEF Known
<1> QED
  BY <1>3, <1>4, <1>5

\* The parts that speak of what is pending are kept when a request or a poll
\* is received.
LEMMA ClosingKeepsKnown ==
  ASSUME ConversationInv, WorkInv, NEW w \in Worker,
         NEW tag \in {"REQUEST_FOR_ASSIGNMENT", "POLL_FOR_REASSIGNMENT"}, Receive(w, tag),
         UNCHANGED <<ENUMERATE_SOLUTIONS, terminate_trigger, registered, work, learnt>>
  PROVE  PendingFit' /\ LearntIsKnown' /\ ExhaustedIsKnown'
<1> USE DEF WorkInv
<1>1. \A v \in Worker : Pending(v)' = Pending(v) /\ Known(v)' = Known(v)
  BY ClosingKnown
<1>2. toMaster' = [toMaster EXCEPT ![w] = <<>>]
  BY ClosingReceived DEF ConversationInv
<1>3. PendingFit'
  BY <1>1 DEF PendingFit
<1>4. LearntIsKnown'
  BY <1>1 DEF LearntIsKnown
<1>5. ExhaustedIsKnown'
  <2>1. \A v \in Worker : toMaster'[v] \in {<<>>, toMaster[v]}
    BY <1>2 DEF ConversationInv, TypeOK
  <2> QED
    BY <1>1, <2>1 DEF ExhaustedIsKnown, Covered
<1> QED
  BY <1>3, <1>4, <1>5

\* The worker's message goes for good: what it asks for other work with is
\* all that is known of it.
LEMMA ReceiveRequestWork ==
  ASSUME ConversationInv, WorkInv, NEW w \in Worker, ReceiveRequest(w)
  PROVE  WorkInv'
<1> USE DEF WorkInv
<1> DEFINE M == {assigned[w]} \ {NULL}
<1>1. /\ Receive(w, "REQUEST_FOR_ASSIGNMENT") /\ pc' = "fill"
      /\ RemoveMessages(M)
      /\ polled' = [polled EXCEPT ![w] = TRUE]
      /\ UNCHANGED <<ENUMERATE_SOLUTIONS, terminate_trigger, registered, issued,
                     subgraph_finished, solutions, work, learnt, toWorker>>
  BY DEF ReceiveRequest, Receive, workerVars
<1>2. /\ toWorker[w] = <<>> /\ toMaster[w] # <<>>
      /\ toMaster[w][Len(toMaster[w])] = Request
  BY <1>1, ClosingReceived DEF ConversationInv, Receive
<1>3. message_buffer' = message_buffer \ M
  BY <1>1 DEF RemoveMessages
<1>4. \A v \in Worker : CurrentWork(v)' = CurrentWork(v)
  BY <1>1 DEF CurrentWork
<1>5. WorkIsIssued'
  BY <1>1, <1>3, <1>4 DEF WorkIsIssued
<1>6. PendingFit' /\ LearntIsKnown' /\ ExhaustedIsKnown'
  BY <1>1, ClosingKeepsKnown
<1>7. Drained'
  BY <1>1, <1>3 DEF Drained, TriesEverything, Waiting
<1>8. NoneLost'
  <2> SUFFICES ASSUME TriesEverything, NEW m \in issued,
                      m \in message_buffer, m \notin message_buffer'
               PROVE  Covered(m, registered[m.to])
    BY <1>1 DEF NoneLost, TriesEverything
  <2>1. m = assigned[w] /\ m # NULL
    BY <1>3
  <2>2. m = work[w]
    BY <1>2, <2>1 DEF ConversationInv, AssignedIsCurrent, CurrentWork
  <2>3. ~terminate_trigger /\ ENUMERATE_SOLUTIONS # 3
    BY DEF Drained, TriesEverything
  <2>4. Covered(work[w], Known(w))
    BY <1>2, <2>3 DEF ExhaustedIsKnown
  <2>5. Known(w) = registered[m.to]
    BY <1>1, <2>2, ClosingKnown DEF Known
  <2> QED
    BY <2>2, <2>4, <2>5
<1>9. FreedIsGone'
  <2>1. polled'[w] /\ \A v \in Worker \ {w} : polled'[v] = polled[v]
    BY <1>1 DEF ConversationInv, TypeOK, OrganiserTypeOK
  <2> QED
    BY <1>1, <2>1, RemoveFrees
<1>10. StopsAtOnce'
  BY <1>1, <1>3 DEF StopsAtOnce
<1>11. /\ IssuedCombine' /\ RegisteredAreViews' /\ OrdersExclude' /\ TerminalsReport'
       /\ FinishedIsSolved'
  BY <1>1, Frames
<1> QED
  BY <1>5, <1>6, <1>7, <1>8, <1>9, <1>10, <1>11

\* A poll may free the worker, which waits, from its message.
LEMMA ReceivePollWork ==
  ASSUME ConversationInv, WorkInv, NEW w \in Worker, ReceivePoll(w)
  PROVE  WorkInv'
<1> USE DEF WorkInv
<1>1. /\ Receive(w, "POLL_FOR_REASSIGNMENT") /\ pc' = "fill"
      /\ assigned' = [assigned EXCEPT ![w] = IF needs_refresh[w] THEN NULL ELSE @]
      /\ polled' = [polled EXCEPT ![w] = TRUE]
      /\ UNCHANGED <<ENUMERATE_SOLUTIONS, message_buffer, terminate_trigger, registered, issued,
                     subgraph_finished, solutions, work, learnt, toWorker>>
  BY DEF ReceivePoll, Receive, workerVars
<1>2. PendingFit' /\ LearntIsKnown' /\ ExhaustedIsKnown'
  BY <1>1, ClosingKeepsKnown
<1>3. FreedIsGone'
  <2>1. /\ polled'[w]
        /\ \A v \in Worker \ {w} : polled'[v] = polled[v] /\ assigned'[v] = assigned[v]
    BY <1>1 DEF ConversationInv, TypeOK, OrganiserTypeOK
  <2>2. \A v \in Worker : CurrentWork(v)' = CurrentWork(v)
    BY <1>1 DEF CurrentWork
  <2> QED
    BY <1>1, <2>1, <2>2 DEF FreedIsGone
<1>4. StopsAtOnce'
  BY <1>1 DEF StopsAtOnce
<1>5. /\ WorkIsIssued' /\ IssuedCombine' /\ RegisteredAreViews' /\ OrdersExclude'
      /\ Drained' /\ NoneLost' /\ TerminalsReport' /\ FinishedIsSolved'
  BY <1>1, Frames
<1> QED
  BY <1>2, <1>3, <1>4, <1>5

\* What the receipt of an answer s does: it is registered unless the master is
\* stopping, reported if its node is terminal, and in mode 2 then removes the
\* messages of its subgraph.
LEMMA SolutionTaken ==
  ASSUME ConversationInv, WorkInv, NEW w \in Worker, ReceiveSolution(w),
         NEW s, s = Head(toMaster[w])
  PROVE  /\ pc = "receive" /\ pc' = "fill" /\ ~polled[w] /\ toWorker[w] = <<>>
         /\ s.from \in Node /\ s.lits \in Cube /\ s \in Pending(w)
         /\ s.from = work[w].to /\ work[w] \in issued
         /\ MasterView(s.from, s.lits) \in PossibleAnswers(work[w])
         /\ toMaster' = [toMaster EXCEPT ![w] = Tail(@)]
         /\ UNCHANGED <<ENUMERATE_SOLUTIONS, polled, issued, work, learnt, toWorker>>
         /\ \/ /\ terminate_trigger
               /\ UNCHANGED <<registered, solutions, terminate_trigger, message_buffer,
                              assigned, subgraph_finished>>
            \/ /\ ~terminate_trigger
               /\ registered' = [registered EXCEPT ![s.from] =
                                   @ \cup {MasterView(s.from, s.lits)}]
               /\ \/ /\ ~Terminal(s.from)
                     /\ UNCHANGED <<solutions, terminate_trigger, message_buffer,
                                    assigned, subgraph_finished>>
                  \/ /\ Terminal(s.from)
                     /\ solutions' = solutions \cup
                          {[from |-> s.from, lits |-> MasterView(s.from, s.lits)]}
                     /\ terminate_trigger' = (ENUMERATE_SOLUTIONS \in {0, 3})
                     /\ \/ /\ ENUMERATE_SOLUTIONS # 2 \/ assigned[w] = NULL
                           /\ UNCHANGED <<message_buffer, assigned, subgraph_finished>>
                        \/ /\ ENUMERATE_SOLUTIONS = 2 /\ assigned[w] # NULL
                           /\ RemoveMessages({assigned[w]} \cup
                                {m \in message_buffer : Subgraph[m.to] = Subgraph[s.from]})
                           /\ subgraph_finished' = subgraph_finished \cup {Subgraph[s.from]}
<1> USE DEF WorkInv, ConversationInv
<1>1. /\ Receive(w, "SOLUTION") /\ pc = "receive" /\ pc' = "fill"
      /\ toMaster' = [toMaster EXCEPT ![w] = Tail(@)]
      /\ toMaster[w] # <<>> /\ s.tag = "SOLUTION"
      /\ UNCHANGED <<ENUMERATE_SOLUTIONS, polled, issued, work, learnt, toWorker>>
  BY DEF ReceiveSolution, Receive, workerVars
<1>2. ~polled[w] /\ toWorker[w] = <<>>
  BY <1>1 DEF Turns, MastersTurn, Ordered, Searching, Closing
<1>3. s \in Pending(w)
  <2>1. toMaster[w] \in Seq(WorkerMessage)
    BY DEF TypeOK
  <2> QED
    BY <1>1, <2>1, PendingTail DEF Pending
<1>4. s.from \in Node /\ s.lits \in Cube
  BY <1>1, ReceiveTypes, Tags
<1>5. /\ s.from = work[w].to /\ work[w] \in issued
      /\ MasterView(s.from, s.lits) \in PossibleAnswers(work[w])
  BY <1>3 DEF PendingFit, WorkIsIssued
<1>6. \/ /\ terminate_trigger
         /\ UNCHANGED <<registered, solutions, terminate_trigger, message_buffer,
                        assigned, subgraph_finished>>
      \/ /\ ~terminate_trigger
         /\ registered' = [registered EXCEPT ![s.from] = @ \cup {MasterView(s.from, s.lits)}]
         /\ \/ /\ ~Terminal(s.from)
               /\ UNCHANGED <<solutions, terminate_trigger, message_buffer,
                              assigned, subgraph_finished>>
            \/ /\ Terminal(s.from)
               /\ Solved(w, s.from, s.lits)
  BY DEF ReceiveSolution, InputMessage
<1>7. ASSUME Solved(w, s.from, s.lits)
      PROVE  /\ solutions' = solutions \cup
                  {[from |-> s.from, lits |-> MasterView(s.from, s.lits)]}
             /\ terminate_trigger' = (ENUMERATE_SOLUTIONS \in {0, 3})
             /\ \/ /\ ENUMERATE_SOLUTIONS # 2 \/ assigned[w] = NULL
                   /\ UNCHANGED <<message_buffer, assigned, subgraph_finished>>
                \/ /\ ENUMERATE_SOLUTIONS = 2 /\ assigned[w] # NULL
                   /\ RemoveMessages({assigned[w]} \cup
                        {m \in message_buffer : Subgraph[m.to] = Subgraph[s.from]})
                   /\ subgraph_finished' = subgraph_finished \cup {Subgraph[s.from]}
  BY <1>7 DEF Solved, StopsAtFirst, FinishSubgraph
<1> QED
  BY <1>1, <1>2, <1>3, <1>4, <1>5, <1>6, <1>7

\* An answer goes from what is pending to what is registered: nothing that was
\* known is forgotten.
LEMMA SolutionKnown ==
  ASSUME ConversationInv, WorkInv, NEW w \in Worker, ReceiveSolution(w)
  PROVE  /\ \A v \in Worker : Pending(v)' \subseteq Pending(v)
         /\ \A n \in Node : registered[n] \subseteq registered'[n]
         /\ ~terminate_trigger =>
              \A v \in Worker : work[v] \in Message => Known(v) \subseteq Known(v)'
<1> DEFINE s == Head(toMaster[w])
           n == s.from
<1>1. /\ n \in Node /\ n = work[w].to /\ UNCHANGED work
      /\ toMaster' = [toMaster EXCEPT ![w] = Tail(@)]
      /\ registered' = IF terminate_trigger THEN registered
                       ELSE [registered EXCEPT ![n] = @ \cup {MasterView(n, s.lits)}]
  BY SolutionTaken
<1>2. /\ toMaster[w] \in Seq(WorkerMessage) /\ toMaster[w] # <<>> /\ s.tag = "SOLUTION"
      /\ registered \in [Node -> SUBSET Cube] /\ toMaster \in [Worker -> Seq(WorkerMessage)]
  BY DEF ReceiveSolution, Receive, ConversationInv, TypeOK
<1>3. Pending(w) = Pending(w)' \cup {s}
  <2>1. toMaster'[w] = Tail(toMaster[w])
    BY <1>1, <1>2
  <2>2. SolutionsIn(toMaster[w]) = SolutionsIn(Tail(toMaster[w])) \cup {s}
    BY <1>2, PendingTail
  <2> QED
    BY <2>1, <2>2 DEF Pending
<1>4. \A v \in Worker \ {w} : Pending(v)' = Pending(v)
  BY <1>1, <1>2 DEF Pending
<1>5. \A k \in Node : registered[k] \subseteq registered'[k]
  BY <1>1, <1>2
<1>6. ASSUME ~terminate_trigger, NEW v \in Worker, work[v] \in Message
      PROVE  Known(v) \subseteq Known(v)'
  <2>1. work[v].to \in Node /\ UNCHANGED work
    BY <1>1, <1>6, MessageToNode
  <2>2. CASE v = w
    <3>1. MasterView(n, s.lits) \in registered'[n]
      BY <1>1, <1>2, <1>6
    <3> HIDE DEF s
    <3> QED
      BY <1>1, <1>3, <1>5, <2>1, <2>2, <3>1 DEF Known
  <2>3. CASE v # w
    BY <1>4, <1>5, <2>1, <2>3 DEF Known
  <2> QED
    BY <2>2, <2>3
<1> QED
  BY <1>3, <1>4, <1>5, <1>6

\* An answer keeps what is known; it may finish the subgraph it is from.
LEMMA ReceiveSolutionWork ==
  ASSUME ConversationInv, WorkInv, NEW w \in Worker, ReceiveSolution(w)
  PROVE  WorkInv'
<1> USE DEF WorkInv
<1> DEFINE s == Head(toMaster[w])
           n == s.from
           cube == MasterView(n, s.lits)
           report == [from |-> n, lits |-> cube]
           g == Subgraph[n]
           M == {assigned[w]} \cup {m \in message_buffer : Subgraph[m.to] = g}
<1>1. /\ pc = "receive" /\ pc' = "fill" /\ ~polled[w] /\ toWorker[w] = <<>>
      /\ n \in Node /\ s.lits \in Cube /\ s \in Pending(w)
      /\ n = work[w].to /\ work[w] \in issued /\ cube \in PossibleAnswers(work[w])
      /\ toMaster' = [toMaster EXCEPT ![w] = Tail(@)]
      /\ UNCHANGED <<ENUMERATE_SOLUTIONS, polled, issued, work, learnt, toWorker>>
  BY SolutionTaken
<1>2. \/ /\ terminate_trigger
         /\ UNCHANGED <<registered, solutions, terminate_trigger, message_buffer, assigned,
                        subgraph_finished>>
      \/ /\ ~terminate_trigger
         /\ registered' = [registered EXCEPT ![n] = @ \cup {cube}]
         /\ \/ /\ ~Terminal(n)
               /\ UNCHANGED <<solutions, terminate_trigger, message_buffer, assigned,
                              subgraph_finished>>
            \/ /\ Terminal(n)
               /\ solutions' = solutions \cup {report}
               /\ terminate_trigger' = (ENUMERATE_SOLUTIONS \in {0, 3})
               /\ \/ /\ ENUMERATE_SOLUTIONS # 2 \/ assigned[w] = NULL
                     /\ UNCHANGED <<message_buffer, assigned, subgraph_finished>>
                  \/ /\ ENUMERATE_SOLUTIONS = 2 /\ assigned[w] # NULL
                     /\ RemoveMessages(M)
                     /\ subgraph_finished' = subgraph_finished \cup {g}
  BY SolutionTaken
<1>3. /\ \A v \in Worker : Pending(v)' \subseteq Pending(v)
      /\ \A k \in Node : registered[k] \subseteq registered'[k]
      /\ ~terminate_trigger =>
           \A v \in Worker : work[v] \in Message => Known(v) \subseteq Known(v)'
  BY SolutionKnown
<1>4. /\ registered \in [Node -> SUBSET Cube] /\ registered' \in [Node -> SUBSET Cube]
      /\ issued \subseteq Message /\ toMaster \in [Worker -> Seq(WorkerMessage)]
      /\ toMaster[w] # <<>>
  <2>1. registered' \in [Node -> SUBSET Cube]
    BY ReceiveSolutionKeeps DEF ConversationInv, TypeOK
  <2> QED
    BY <2>1 DEF ConversationInv, TypeOK, ReceiveSolution, Receive
<1>5. message_buffer' \subseteq message_buffer
  BY <1>2 DEF RemoveMessages
<1>6. \A v \in Worker : CurrentWork(v)' = CurrentWork(v)
  BY <1>1 DEF CurrentWork
<1>7. work[w] \in Message /\ CurrentWork(w) = work[w]
  BY <1>1, <1>4 DEF CurrentWork
<1> HIDE DEF s, n, cube, report, g, M
<1>8. WorkIsIssued'
  BY <1>1, <1>5, <1>6 DEF WorkIsIssued
<1>9. IssuedCombine'
  <2> SUFFICES ASSUME NEW m \in issued PROVE m \in Combinations(registered', m.to)
    BY <1>1 DEF IssuedCombine
  <2>1. m.to \in Node
    BY <1>4, MessageToNode
  <2>2. Combinations(registered, m.to) \subseteq Combinations(registered', m.to)
    BY <1>3, <1>4, <2>1, CombinationsGrow
  <2> QED
    BY <2>2 DEF IssuedCombine
<1>10. RegisteredAreViews'
  <2>1. MasterView(n, cube) = cube
    BY <1>1, Views DEF cube
  <2> QED
    BY <1>2, <1>4, <2>1 DEF RegisteredAreViews
<1>11. PendingFit'
  BY <1>1, <1>3 DEF PendingFit
<1>12. OrdersExclude'
  <2> SUFFICES ASSUME NEW v \in Worker, toWorker[v] # <<>>,
                      Head(toWorker[v]).tag = "NEW_ASSIGNMENT",
                      NEW c \in Head(toWorker[v]).clauses
               PROVE  \E q \in registered'[Head(toWorker[v]).msg.to] : c = Negated(q)
    BY <1>1 DEF OrdersExclude
  <2>1. Head(toWorker[v]) \in MasterMessage
    BY HeadTail DEF ConversationInv, TypeOK
  <2>2. Head(toWorker[v]).msg.to \in Node
    BY <2>1, Tags, MessageToNode
  <2> QED
    BY <1>3, <2>2 DEF OrdersExclude
<1>13. LearntIsKnown'
  <2> SUFFICES ASSUME ~terminate_trigger, NEW v \in Worker, work[v] # NULL, NEW c \in learnt[v]
               PROVE  \E q \in Known(v)' : Excludes(c, q)
    BY <1>1, <1>2 DEF LearntIsKnown
  <2>1. work[v] \in Message
    BY DEF ConversationInv, TypeOK
  <2> QED
    BY <1>3, <2>1 DEF LearntIsKnown
<1>14. ExhaustedIsKnown'
  <2> SUFFICES ASSUME ~terminate_trigger, ENUMERATE_SOLUTIONS # 3, NEW v \in Worker,
                      toMaster'[v] # <<>>, toMaster'[v][Len(toMaster'[v])] = Request
               PROVE  work[v] # NULL /\ Covered(work[v], Known(v)')
    BY <1>1, <1>2 DEF ExhaustedIsKnown
  <2>1. toMaster[v] # <<>> /\ toMaster[v][Len(toMaster[v])] = Request
    <3>1. CASE v = w
      <4> DEFINE t == toMaster[w]
      <4>1. /\ Len(t) \in Nat \ {0} /\ Len(Tail(t)) = Len(t) - 1
            /\ \A i \in 1 .. Len(t) - 1 : Tail(t)[i] = t[i + 1]
            /\ Len(t) = 1 => Tail(t) = <<>>
        BY <1>4, HeadTail
      <4>2. toMaster'[v] = Tail(t)
        BY <1>1, <1>4, <3>1
      <4>3. Tail(t)[Len(t) - 1] = t[Len(t)]
        <5>1. Len(t) - 1 \in 1 .. Len(t) - 1 /\ (Len(t) - 1) + 1 = Len(t)
          BY <4>1, <4>2, Bounds
        <5> HIDE DEF t
        <5> QED
          BY <4>1, <5>1
      <4> QED
        BY <1>4, <3>1, <4>1, <4>2, <4>3
    <3>2. CASE v # w
      BY <1>1, <1>4, <3>2
    <3> QED
      BY <3>1, <3>2
  <2>2. work[v] # NULL /\ Covered(work[v], Known(v))
    BY <2>1 DEF ExhaustedIsKnown
  <2>3. work[v] \in Message
    BY <2>2 DEF ConversationInv, TypeOK
  <2> QED
    BY <1>3, <2>2, <2>3, CoveredGrows
<1>15. Drained'
  <2>1. CASE terminate_trigger
    BY <1>1, <1>2, <2>1, Frames
  <2>2. CASE ~terminate_trigger
    <3>1. terminate_trigger' => ENUMERATE_SOLUTIONS' \in {0, 3} /\ solutions' # {}
      BY <1>1, <1>2, <2>2
    <3> QED
      BY <3>1 DEF Drained, TriesEverything
  <2> QED
    BY <2>1, <2>2
<1>16. NoneLost'
  <2> SUFFICES ASSUME TriesEverything', NEW m \in issued
               PROVE  \/ m \in message_buffer'
                      \/ Subgraph[m.to] \in subgraph_finished'
                      \/ Covered(m, registered'[m.to])
    BY <1>1 DEF NoneLost
  <2>1. TriesEverything
    BY <1>1, <1>2 DEF TriesEverything
  <2>2. m.to \in Node
    BY <1>4, MessageToNode
  <2>3. CASE m \in message_buffer
    <3>1. CASE message_buffer' = message_buffer
      BY <2>3, <3>1
    <3>2. CASE RemoveMessages(M) /\ subgraph_finished' = subgraph_finished \cup {g}
               /\ assigned[w] # NULL
      <4>1. assigned[w] = work[w]
        BY <1>7, <3>2 DEF ConversationInv, AssignedIsCurrent
      <4>2. m \in M => Subgraph[m.to] = g
        BY <1>1, <4>1 DEF M, g
      <4> QED
        BY <2>3, <3>2, <4>2 DEF RemoveMessages
    <3> QED
      BY <1>2, <3>1, <3>2
  <2>4. CASE Subgraph[m.to] \in subgraph_finished
    BY <1>2, <2>4
  <2>5. CASE Covered(m, registered[m.to])
    BY <1>3, <2>2, <2>5, CoveredGrows
  <2> QED
    BY <2>1, <2>3, <2>4, <2>5 DEF NoneLost
<1>17. TerminalsReport'
  BY <1>1, <1>2, <1>4 DEF TerminalsReport, report
<1>18. FinishedIsSolved'
  <2>1. \A h \in subgraph_finished :
          ENUMERATE_SOLUTIONS' = 2 /\ \E x \in solutions' : Subgraph[x.from] = h
    BY <1>1, <1>2 DEF FinishedIsSolved
  <2>2. subgraph_finished' # subgraph_finished =>
          /\ ENUMERATE_SOLUTIONS' = 2 /\ subgraph_finished' = subgraph_finished \cup {g}
          /\ report \in solutions' /\ report.from = n
    BY <1>1, <1>2 DEF report
  <2> QED
    BY <2>1, <2>2 DEF FinishedIsSolved, g
<1>19. FreedIsGone'
  <2>1. CASE UNCHANGED <<message_buffer, assigned>>
    BY <1>1, <2>1, Frames
  <2>2. CASE RemoveMessages(M)
    BY <1>1, <2>2, RemoveFrees
  <2> QED
    BY <1>2, <2>1, <2>2
<1>20. StopsAtOnce'
  <2> SUFFICES ASSUME ENUMERATE_SOLUTIONS = 2, Connected, solutions' # {}
               PROVE  /\ \E x \in solutions' : solutions' = {x}
                      /\ message_buffer' = {}
                      /\ terminate_trigger' \/ pc' = "fill"
                      /\ \A k \in Node : Subgraph[k] \in subgraph_finished'
    BY <1>1 DEF StopsAtOnce
  <2>1. CASE solutions # {}
    <3>1. terminate_trigger
      BY <1>1, <2>1 DEF StopsAtOnce
    <3> QED
      BY <1>1, <1>2, <2>1, <3>1 DEF StopsAtOnce
  <2>2. CASE solutions = {}
    <3>1. ~terminate_trigger /\ Terminal(n) /\ solutions' = {report}
      BY <1>2, <2>2
    <3>2. registered[n] = {}
      BY <1>1, <2>2, <3>1 DEF TerminalsReport
    <3>3. subgraph_finished = {}
      BY <2>2 DEF FinishedIsSolved
    <3>4. work[w] \in message_buffer
      <4>1. ~Covered(work[w], registered[n])
        BY <1>1, <1>7, <3>2, PossibleIsSolution
      <4> QED
        BY <1>1, <3>3, <4>1 DEF NoneLost, TriesEverything
    <3>5. assigned[w] # NULL
      BY <1>1, <1>7, <3>4 DEF FreedIsGone
    <3>6. RemoveMessages(M) /\ subgraph_finished' = subgraph_finished \cup {g}
      BY <1>2, <2>2, <3>1, <3>5
    <3>7. message_buffer' = {}
      <4>1. message_buffer \subseteq Message
        BY DEF ConversationInv, TypeOK, OrganiserTypeOK
      <4>2. \A m \in message_buffer : Subgraph[m.to] = g
        BY <1>1, <4>1, MessageToNode DEF Connected, g
      <4> QED
        BY <3>6, <4>2 DEF RemoveMessages, M
    <3>8. \A k \in Node : Subgraph[k] \in subgraph_finished'
      BY <1>1, <3>6 DEF Connected, g
    <3> QED
      BY <1>1, <3>1, <3>7, <3>8
  <2> QED
    BY <2>1, <2>2
<1> QED
  BY <1>8, <1>9, <1>10, <1>11, <1>12, <1>13, <1>14, <1>15, <1>16, <1>17, <1>18, <1>19, <1>20

\* A new search starts with clauses that exclude registered answers, and
\* nothing is pending.
LEMMA StartSearchWork ==
  ASSUME ConversationInv, WorkInv, NEW w \in Worker, StartSearch(w)
  PROVE  WorkInv'
<1> USE DEF WorkInv
<1> DEFINE x == Head(toWorker[w])
<1>1. /\ WorkerReceive(w, "NEW_ASSIGNMENT")
      /\ work' = [work EXCEPT ![w] = x.msg]
      /\ learnt' = [learnt EXCEPT ![w] = x.clauses]
      /\ UNCHANGED <<ENUMERATE_SOLUTIONS, pc, terminate_trigger, message_buffer, assigned, polled,
                     registered, issued, subgraph_finished, solutions, toMaster>>
  BY DEF StartSearch, organiserVars, masterVars
<1>2. /\ toMaster[w] = <<>> /\ toWorker[w] # <<>> /\ x.tag = "NEW_ASSIGNMENT"
      /\ toWorker' = [toWorker EXCEPT ![w] = <<>>]
  BY <1>1, OrderReceived DEF WorkerReceive
<1>3. x.msg \in Message /\ x.clauses \in SUBSET Cube /\ x.msg.to \in Node
  BY <1>1, WorkerReceiveTypes, Tags, MessageToNode DEF ConversationInv
<1>4. /\ toWorker'[w] = <<>> /\ work'[w] = x.msg /\ learnt'[w] = x.clauses
      /\ \A v \in Worker \ {w} :
           toWorker'[v] = toWorker[v] /\ work'[v] = work[v] /\ learnt'[v] = learnt[v]
  BY <1>1, <1>2 DEF ConversationInv, TypeOK
<1>5. CurrentWork(w) = x.msg /\ \A v \in Worker : CurrentWork(v)' = CurrentWork(v)
  BY <1>2, <1>4 DEF CurrentWork
<1>6. /\ Pending(w) = {} /\ Pending(w)' = {} /\ Known(w)' = registered[x.msg.to]
      /\ \A v \in Worker \ {w} : Pending(v)' = Pending(v) /\ Known(v)' = Known(v)
  BY <1>1, <1>2, <1>4, PendingNone DEF Pending, Known
<1> HIDE DEF x
<1>7. WorkIsIssued'
  <2>1. x.msg \in issued
    BY <1>3, <1>5, OrganiserAssumption DEF WorkIsIssued
  <2> QED
    BY <1>1, <1>4, <1>5, <2>1 DEF WorkIsIssued
<1>8. PendingFit'
  BY <1>4, <1>6 DEF PendingFit
<1>9. OrdersExclude'
  BY <1>1, <1>4 DEF OrdersExclude
<1>10. LearntIsKnown'
  <2> SUFFICES ASSUME ~terminate_trigger, NEW v \in Worker, work'[v] # NULL, NEW c \in learnt'[v]
               PROVE  \E q \in Known(v)' : Excludes(c, q)
    BY <1>1 DEF LearntIsKnown
  <2>1. CASE v = w
    <3>1. PICK q \in registered[x.msg.to] : c = Negated(q)
      BY <1>2, <1>4, <2>1 DEF OrdersExclude, x
    <3>2. q \in Cube
      BY <1>3 DEF ConversationInv, TypeOK
    <3>3. Excludes(c, q)
      BY <3>1, <3>2, NegationBlocks DEF Excludes
    <3> QED
      BY <1>6, <2>1, <3>3
  <2>2. CASE v # w
    BY <1>4, <1>6, <2>2 DEF LearntIsKnown
  <2> QED
    BY <2>1, <2>2
<1>11. ExhaustedIsKnown'
  BY <1>1, <1>2, <1>4, <1>6 DEF ExhaustedIsKnown, Covered
<1>12. FreedIsGone'
  BY <1>1, <1>5 DEF FreedIsGone
<1>13. /\ IssuedCombine' /\ RegisteredAreViews' /\ Drained' /\ NoneLost' /\ TerminalsReport'
       /\ FinishedIsSolved' /\ StopsAtOnce'
  BY <1>1, Frames
<1> QED
  BY <1>7, <1>8, <1>9, <1>10, <1>11, <1>12, <1>13

\* A POLL and a KILL tell a worker nothing of its message.
LEMMA ContinueOrExitWork ==
  ASSUME ConversationInv, WorkInv, NEW w \in Worker, ContinueSearch(w) \/ Exit(w)
  PROVE  WorkInv'
<1> USE DEF WorkInv
<1>1. /\ toWorker' = [toWorker EXCEPT ![w] = Tail(toWorker[w])]
      /\ toWorker[w] # <<>> /\ Head(toWorker[w]).tag \in {"POLL_FOR_REASSIGNMENT", "KILL"}
      /\ UNCHANGED <<ENUMERATE_SOLUTIONS, pc, terminate_trigger, message_buffer, assigned, polled,
                     registered, issued, subgraph_finished, solutions, work, learnt, toMaster>>
  BY DEF ContinueSearch, Exit, WorkerReceive, organiserVars, masterVars
<1>2. Tail(toWorker[w]) = <<>>
  <2>1. toWorker[w] \in Seq(MasterMessage)
    BY DEF ConversationInv, TypeOK
  <2>2. toWorker[w] = <<Kill>> \/ Len(toWorker[w]) = 1
    BY <1>1 DEF ConversationInv, Turns, Killed, MastersTurn, Ordered, Searching, Closing
  <2>3. Len(<<Kill>>) = 1
    OBVIOUS
  <2> QED
    BY <1>1, <2>1, <2>2, <2>3, HeadTail
<1>3. /\ toWorker'[w] = <<>> /\ Head(toWorker[w]).tag # "NEW_ASSIGNMENT"
      /\ \A v \in Worker \ {w} : toWorker'[v] = toWorker[v]
  BY <1>1, <1>2 DEF ConversationInv, TypeOK
<1>4. \A v \in Worker : CurrentWork(v)' = CurrentWork(v)
  <2>1. CurrentWork(w)' = CurrentWork(w)
    BY <1>1, <1>3 DEF CurrentWork
  <2>2. \A v \in Worker \ {w} : CurrentWork(v)' = CurrentWork(v)
    BY <1>1, <1>3 DEF CurrentWork
  <2> QED
    BY <2>1, <2>2
<1>5. WorkIsIssued'
  BY <1>1, <1>4 DEF WorkIsIssued
<1>6. OrdersExclude'
  BY <1>1, <1>3 DEF OrdersExclude
<1>7. FreedIsGone'
  BY <1>1, <1>4 DEF FreedIsGone
<1>8. /\ IssuedCombine' /\ RegisteredAreViews' /\ PendingFit' /\ LearntIsKnown'
      /\ ExhaustedIsKnown' /\ Drained' /\ NoneLost' /\ TerminalsReport' /\ FinishedIsSolved'
      /\ StopsAtOnce'
  BY <1>1, Frames
<1> QED
  BY <1>5, <1>6, <1>7, <1>8

\* When no model is left, each solution violates a clause and so has a cube
\* that the clause excludes.
LEMMA NoModelLeft ==
  ASSUME NEW m \in Message, NEW additional \in SUBSET Cube, Models(m, additional) = {},
         NEW known, \A c \in additional : \E q \in known : Excludes(c, q)
  PROVE  Covered(m, known)
<1> SUFFICES ASSUME NEW a \in TotalAssignments, Satisfies(a, CompiledCnf(m, {}))
             PROVE  \E q \in known : q \subseteq a
  BY DEF Covered
<1>1. PICK c \in additional : a \cap c = {}
  BY UnsatFollows
<1> QED
  BY <1>1 DEF Excludes

\* What a step of worker w's search has to show: what it sends and learns is
\* about its message.
LEMMA SearchWork ==
  ASSUME ConversationInv, WorkInv, NEW w \in Worker, NEW t, NEW new, NEW cls,
         toMaster' = [toMaster EXCEPT ![w] = t],
         learnt' = [learnt EXCEPT ![w] = cls],
         UNCHANGED <<ENUMERATE_SOLUTIONS, pc, terminate_trigger, message_buffer, assigned, polled,
                     registered, issued, subgraph_finished, solutions, work, toWorker>>,
         work[w] # NULL,
         SolutionsIn(t) = Pending(w) \cup new,
         \A s \in new : /\ s.from = work[w].to
                        /\ MasterView(s.from, s.lits) \in PossibleAnswers(work[w]),
         ~terminate_trigger =>
           \A c \in cls : \E q \in Known(w)' : Excludes(c, q),
         ~terminate_trigger /\ ENUMERATE_SOLUTIONS # 3 /\ t # <<>> /\ t[Len(t)] = Request =>
           Covered(work[w], Known(w)')
  PROVE  WorkInv'
<1> USE DEF WorkInv
<1>1. /\ toMaster'[w] = t /\ learnt'[w] = cls
      /\ \A v \in Worker \ {w} : toMaster'[v] = toMaster[v] /\ learnt'[v] = learnt[v]
  BY DEF ConversationInv, TypeOK
<1>2. /\ Pending(w)' = Pending(w) \cup new
      /\ \A v \in Worker \ {w} : Pending(v)' = Pending(v) /\ Known(v)' = Known(v)
  BY <1>1 DEF Pending, Known
<1>3. PendingFit'
  BY <1>2 DEF PendingFit
<1>4. LearntIsKnown'
  BY <1>1, <1>2 DEF LearntIsKnown
<1>5. ExhaustedIsKnown'
  <2> SUFFICES ASSUME ~terminate_trigger, ENUMERATE_SOLUTIONS # 3, NEW v \in Worker,
                      toMaster'[v] # <<>>, toMaster'[v][Len(toMaster'[v])] = Request
               PROVE  work[v] # NULL /\ Covered(work[v], Known(v)')
    BY DEF ExhaustedIsKnown
  <2>1. CASE v = w
    BY <1>1, <2>1
  <2>2. CASE v # w
    BY <1>1, <1>2, <2>2 DEF ExhaustedIsKnown
  <2> QED
    BY <2>1, <2>2
<1>6. /\ WorkIsIssued' /\ IssuedCombine' /\ RegisteredAreViews' /\ OrdersExclude'
      /\ Drained' /\ NoneLost' /\ TerminalsReport' /\ FinishedIsSolved' /\ FreedIsGone'
      /\ StopsAtOnce'
  BY Frames
<1> QED
  BY <1>3, <1>4, <1>5, <1>6

\* The last of a sequence that was appended to.
LEMMA LastAppended ==
  ASSUME NEW S, NEW s \in Seq(S), NEW x
  PROVE  Append(s, x) # <<>> /\ Append(s, x)[Len(Append(s, x))] = x
OBVIOUS

\* A search ends without an answer only when nothing is left, and a pause says
\* nothing.
LEMMA SearchEndWork ==
  ASSUME ConversationInv, WorkInv, NEW w \in Worker, SearchUnsat(w) \/ SearchPause(w)
  PROVE  WorkInv'
<1> PICK x \in {Request, Poll} :
      /\ toMaster' = [toMaster EXCEPT ![w] = Append(toMaster[w], x)]
      /\ wstate[w] = "solving"
      /\ x = Request => Models(work[w], learnt[w]) = {}
      /\ UNCHANGED <<ENUMERATE_SOLUTIONS, pc, terminate_trigger, message_buffer, assigned, polled,
                     registered, issued, subgraph_finished, solutions, work, learnt, toWorker>>
  BY DEF SearchUnsat, SearchPause, organiserVars, masterVars, Request, Poll
<1>1. /\ work[w] \in Message /\ work[w] # NULL
      /\ learnt \in [Worker -> SUBSET Cube] /\ toMaster \in [Worker -> Seq(WorkerMessage)]
  BY OrganiserAssumption DEF ConversationInv, HasWork, TypeOK
<1> DEFINE t == Append(toMaster[w], x)
<1>2. SolutionsIn(t) = Pending(w) \cup {}
  <2>1. x.tag # "SOLUTION"
    BY DEF Request, Poll
  <2>2. SolutionsIn(t) = SolutionsIn(toMaster[w])
    BY <1>1, <2>1, PendingAppend
  <2> QED
    BY <2>2 DEF Pending
<1>3. t[Len(t)] = x
  BY <1>1, LastAppended
<1>4. learnt' = [learnt EXCEPT ![w] = learnt[w]]
  BY <1>1
<1>5. Known(w)' = Known(w)
  <2>1. Pending(w)' = Pending(w)
    BY <1>1, <1>2 DEF Pending
  <2> QED
    BY <2>1 DEF Known
<1>6. ~terminate_trigger => \A c \in learnt[w] : \E q \in Known(w)' : Excludes(c, q)
  BY <1>1, <1>5 DEF WorkInv, LearntIsKnown
<1>7. ~terminate_trigger /\ t[Len(t)] = Request => Covered(work[w], Known(w)')
  BY <1>1, <1>3, <1>6, NoModelLeft
<1> HIDE DEF t
<1> QED
  BY <1>1, <1>2, <1>4, <1>6, <1>7, SearchWork DEF t

\* An answer is sent before its negation can make the search find nothing.
LEMMA SearchSatWork ==
  ASSUME ConversationInv, WorkInv, NEW w \in Worker, SearchSat(w)
  PROVE  WorkInv'
<1>1. /\ work[w] \in Message /\ work[w] # NULL /\ wstate[w] = "solving"
      /\ learnt \in [Worker -> SUBSET Cube] /\ toMaster \in [Worker -> Seq(WorkerMessage)]
  BY OrganiserAssumption DEF ConversationInv, HasWork, TypeOK, SearchSat
<1> DEFINE m == work[w]
           s == toMaster[w]
           learnt1(q) == IF q = {} THEN learnt[w] ELSE learnt[w] \cup {Negated(q)}
<1>2. PICK q \in Answers(m, learnt[w]) :
        /\ learnt' = [learnt EXCEPT ![w] = learnt1(q)]
        /\ \/ /\ q = {} \/ ENUMERATE_SOLUTIONS = 3 \/ Models(m, learnt1(q)) = {}
              /\ toMaster' = [toMaster EXCEPT ![w] = s \o <<Solution(m.to, q), Request>>]
           \/ toMaster' = [toMaster EXCEPT ![w] = s \o <<Solution(m.to, q), Poll>>]
           \/ toMaster' = [toMaster EXCEPT ![w] = Append(s, Solution(m.to, q))]
  BY DEF SearchSat, AnswerThenTag
<1>3. UNCHANGED <<ENUMERATE_SOLUTIONS, pc, terminate_trigger, message_buffer, assigned, polled,
                  registered, issued, subgraph_finished, solutions, work, toWorker>>
  BY DEF SearchSat, organiserVars, masterVars
<1> DEFINE x == Solution(m.to, q)
           cls == learnt1(q)
           cube == MasterView(m.to, q)
           t == toMaster'[w]
<1>4. q \in Cube /\ cube \in PossibleAnswers(m) /\ m.to \in Node /\ cube \subseteq q
  BY <1>1, AnswersArePossible, MessageToNode, Views
<1>5. x \in WorkerMessage /\ x.tag = "SOLUTION" /\ x.from = m.to /\ x.lits = q
  BY <1>4 DEF Solution, WorkerMessage
<1>6. cls \in SUBSET Cube
  BY <1>1, <1>4, NegatedType
<1>7. /\ toMaster' = [toMaster EXCEPT ![w] = t]
      /\ \/ /\ q = {} \/ ENUMERATE_SOLUTIONS = 3 \/ Models(m, cls) = {}
            /\ t = Append(Append(s, x), Request)
         \/ t = Append(Append(s, x), Poll)
         \/ t = Append(s, x)
  <2>1. s \in Seq(WorkerMessage)
    BY <1>1
  <2>2. \A y : s \o <<x, y>> = Append(Append(s, x), y)
    BY <2>1
  <2> QED
    BY <1>1, <1>2, <2>2
<1> HIDE DEF t, x
<1>8. SolutionsIn(t) = Pending(w) \cup {x}
  <2>1. SolutionsIn(Append(s, x)) = Pending(w) \cup {x}
    BY <1>1, <1>5, PendingAppend DEF Pending
  <2>2. Append(s, x) \in Seq(WorkerMessage)
    BY <1>1, <1>5
  <2>3. \A y \in {Request, Poll} :
          SolutionsIn(Append(Append(s, x), y)) = SolutionsIn(Append(s, x))
    <3> HIDE DEF s
    <3> DEFINE r == Append(s, x)
    <3>1. r \in Seq(WorkerMessage)
      BY <2>2
    <3> HIDE DEF r
    <3>2. \A y \in {Request, Poll} : SolutionsIn(Append(r, y)) = SolutionsIn(r)
      BY <3>1, PendingAppend DEF Request, Poll
    <3> QED
      BY <3>2 DEF r
  <2> QED
    BY <1>7, <2>1, <2>3
<1>9. registered[m.to] \cup {cube} \subseteq Known(w)' /\ Known(w) \subseteq Known(w)'
  <2>1. Pending(w)' = Pending(w) \cup {x}
    BY <1>8 DEF Pending, t
  <2> QED
    BY <1>3, <1>5, <2>1 DEF Known
<1>10. ~terminate_trigger => \A c \in cls : \E k \in Known(w)' : Excludes(c, k)
  <2> SUFFICES ASSUME ~terminate_trigger, NEW c \in cls
               PROVE  \E k \in Known(w)' : Excludes(c, k)
    OBVIOUS
  <2>1. CASE c \in learnt[w]
    BY <1>1, <1>9, <2>1 DEF WorkInv, LearntIsKnown
  <2>2. CASE c = Negated(q)
    <3>1. Excludes(c, cube)
      BY <1>4, <2>2, NegationBlocks DEF Excludes
    <3> QED
      BY <1>9, <3>1
  <2> QED
    BY <2>1, <2>2
<1>11. ~terminate_trigger /\ ENUMERATE_SOLUTIONS # 3 /\ t # <<>> /\ t[Len(t)] = Request =>
         Covered(m, Known(w)')
  <2> SUFFICES ASSUME ~terminate_trigger, ENUMERATE_SOLUTIONS # 3, t[Len(t)] = Request
               PROVE  Covered(m, Known(w)')
    OBVIOUS
  <2>1. q = {} \/ Models(m, cls) = {}
    <3>1. Append(s, x) \in Seq(WorkerMessage)
      BY <1>1, <1>5
    <3>2. CASE t = Append(Append(s, x), Poll)
      <4>1. t[Len(t)] = Poll
        BY <3>1, <3>2, LastAppended
      <4> QED
        BY <4>1 DEF Poll, Request
    <3>3. CASE t = Append(s, x)
      <4>1. t[Len(t)] = x
        BY <1>1, <3>3, LastAppended
      <4> QED
        BY <1>5, <4>1 DEF Request
    <3> QED
      BY <1>7, <3>2, <3>3
  <2>2. CASE q = {}
    <3>1. cube = {}
      BY <1>4, <2>2
    <3> QED
      BY <1>9, <3>1 DEF Covered
  <2>3. CASE Models(m, cls) = {}
    <3> HIDE DEF cls, m
    <3> QED
      BY <1>1, <1>6, <1>10, <2>3, NoModelLeft DEF m
  <2> QED
    BY <2>1, <2>2, <2>3
<1>12. \A y \in {x} : /\ y.from = work[w].to
                      /\ MasterView(y.from, y.lits) \in PossibleAnswers(work[w])
  BY <1>4, <1>5
<1>13. learnt' = [learnt EXCEPT ![w] = cls]
  BY <1>2
<1>14. /\ toMaster' = [toMaster EXCEPT ![w] = t]
       /\ ~terminate_trigger /\ ENUMERATE_SOLUTIONS # 3 /\ t # <<>> /\ t[Len(t)] = Request =>
            Covered(work[w], Known(w)')
  BY <1>7, <1>11
<1> HIDE DEF cls, m, s, cube
<1>15. work[w] # NULL
  BY <1>1 DEF m
<1> DEFINE new == {x}
<1>16. SolutionsIn(t) = Pending(w) \cup new
  BY <1>8
<1>17. \A y \in new : /\ y.from = work[w].to
                      /\ MasterView(y.from, y.lits) \in PossibleAnswers(work[w])
  BY <1>12
<1> HIDE DEF new
<1> QED
  BY <1>3, <1>10, <1>13, <1>14, <1>15, <1>16, <1>17, SearchWork

\* Every step keeps it.
LEMMA NextWork ==
  ASSUME ConversationInv, WorkInv, [Next]_vars
  PROVE  WorkInv'
<1>1. CASE PullMessage \/ EndFill
  BY <1>1, PullMessageWork, EndFillWork
<1>2. CASE (\E w \in Worker : Allocate(w)) \/ EndAllocate \/ EndSend
  BY <1>2, AllocationWork
<1>3. CASE \E w \in Worker : Send(w)
  BY <1>3, SendWork
<1>4. CASE \E w \in Worker : ReceiveRequest(w) \/ ReceivePoll(w) \/ ReceiveSolution(w)
  BY <1>4, ReceiveRequestWork, ReceivePollWork, ReceiveSolutionWork
<1>5. CASE SendKill
  BY <1>5, SendKillWork
<1>6. CASE \E w \in Worker : WorkerStep(w)
  <2> PICK w \in Worker : WorkerStep(w)
    BY <1>6
  <2> QED
    BY StartSearchWork, ContinueOrExitWork, SearchEndWork, SearchSatWork DEF WorkerStep, Search
<1>7. CASE UNCHANGED vars
  <2>1. UNCHANGED <<ENUMERATE_SOLUTIONS, pc, terminate_trigger, message_buffer, assigned, polled,
                    registered, issued, subgraph_finished, solutions, work, learnt, toWorker,
                    toMaster>>
    BY <1>7 DEF vars, organiserVars, masterVars, workerVars, channels
  <2> QED
    BY <2>1, Frames DEF WorkInv
<1> QED
  BY <1>1, <1>2, <1>3, <1>4, <1>5, <1>6, <1>7 DEF Next, MasterStep, Terminated

-----------------------------------------------------------------------------
(* What follows                                                            *)

\* What was given out, what is on its way and what is known always fit
\* together as the invariant says.
THEOREM WorkIsAccountedFor == Spec => []WorkInv
<1>1. Init => WorkInv
  BY InitWork
<1>2. ConversationInv /\ WorkInv /\ [Next]_vars => WorkInv'
  BY NextWork
<1> QED
  BY <1>1, <1>2, Conversation, PTL DEF Spec

\* A message that was taken from the solutions object is still in the buffer
\* or every answer to it is registered, whichever worker's REQUEST removed it
\* and however many were on it (Master.cpp:178-187, MasterOrganiser.cpp:66-74).
THEOREM NothingLost == Spec => []NoWorkLost
<1>1. WorkInv => NoWorkLost
  BY DEF WorkInv, NoneLost, TriesEverything, NoWorkLost
<1> QED
  BY <1>1, WorkIsAccountedFor, PTL

\* With the trigger up, every combination of the answers to the nodes of a
\* subgraph that is not finished was given out and is answered completely.
LEMMA ClosedWhenDrained ==
  ASSUME ConversationInv, WorkInv, TriesEverything, terminate_trigger,
         NEW n \in Node, Subgraph[n] \notin subgraph_finished,
         NEW m \in Combinations(registered, n)
  PROVE  Covered(m, registered[n])
<1>1. m.to = n /\ message_buffer = {} /\ Waiting = {}
  BY CombinationsType DEF ConversationInv, TypeOK, WorkInv, Drained
<1>2. m \in issued
  BY <1>1 DEF Waiting
<1> QED
  BY <1>1, <1>2 DEF WorkInv, NoneLost

\* So every solution of a node of such a subgraph, and of all the node depends
\* on, is in one of the node's registered answers.
LEMMA AllFoundWhenDrained ==
  ASSUME ConversationInv, WorkInv, TriesEverything, terminate_trigger,
         NEW t \in Node, Subgraph[t] \notin subgraph_finished, NEW a \in GlobalModels(t)
  PROVE  \E q \in registered[t] : q \subseteq a
<1>1. registered \in [Node -> SUBSET Cube]
  BY DEF ConversationInv, TypeOK
<1>2. \A n \in AncestorsAndSelf[t] :
        \A m \in Combinations(registered, n) : Covered(m, registered[n])
  BY Ancestors, ClosedWhenDrained
<1> QED
  BY <1>1, <1>2, ClosedFindsAll

\* So when the master has left its loop it has reported what it must.
LEMMA ReportedWhenDone ==
  ASSUME ConversationInv, WorkInv
  PROVE  Complete
<1> SUFFICES ASSUME pc = "done", ENUMERATE_SOLUTIONS \in 0 .. 2
             PROVE  CASE ENUMERATE_SOLUTIONS = 1 -> AllReported
                      [] ENUMERATE_SOLUTIONS = 2 ->
                           \A t \in TerminalNodes : Satisfiable(t) =>
                             \E s \in solutions : Subgraph[s.from] = Subgraph[t]
                      [] ENUMERATE_SOLUTIONS = 0 ->
                           (\E t \in TerminalNodes : Satisfiable(t)) => solutions # {}
                      [] OTHER -> TRUE
  BY DEF Complete
<1>1. terminate_trigger
  BY DEF ConversationInv, Phases
<1>2. ASSUME NEW t \in TerminalNodes, NEW a \in GlobalModels(t), TriesEverything,
             Subgraph[t] \notin subgraph_finished
      PROVE  \E s \in solutions : s.from = t /\ s.lits \subseteq a
  <2>1. t \in Node /\ Terminal(t)
    BY DEF TerminalNodes
  <2>2. PICK q \in registered[t] : q \subseteq a
    BY <1>1, <1>2, <2>1, AllFoundWhenDrained
  <2>3. [from |-> t, lits |-> q] \in solutions
    BY <2>1 DEF WorkInv, TerminalsReport
  <2> QED
    BY <2>2, <2>3
<1>3. CASE ENUMERATE_SOLUTIONS = 1
  <2>1. subgraph_finished = {}
    BY <1>3 DEF WorkInv, FinishedIsSolved
  <2>2. AllReported
    BY <1>2, <1>3, <2>1 DEF AllReported, TriesEverything
  <2> QED
    BY <1>3, <2>2
<1>4. CASE ENUMERATE_SOLUTIONS = 2
  <2>1. ASSUME NEW t \in TerminalNodes, Satisfiable(t)
        PROVE  \E s \in solutions : Subgraph[s.from] = Subgraph[t]
    <3>1. CASE Subgraph[t] \in subgraph_finished
      BY <3>1 DEF WorkInv, FinishedIsSolved
    <3>2. CASE Subgraph[t] \notin subgraph_finished
      <4>1. PICK a : a \in GlobalModels(t)
        BY <2>1 DEF Satisfiable
      <4> QED
        BY <1>2, <1>4, <3>2, <4>1 DEF TriesEverything
    <3> QED
      BY <3>1, <3>2
  <2> QED
    BY <1>4, <2>1
<1>5. CASE ENUMERATE_SOLUTIONS = 0
  <2>1. ASSUME NEW t \in TerminalNodes, Satisfiable(t), solutions = {} PROVE FALSE
    <3>1. subgraph_finished = {}
      BY <1>5 DEF WorkInv, FinishedIsSolved
    <3>2. PICK a : a \in GlobalModels(t)
      BY <2>1 DEF Satisfiable
    <3> QED
      BY <1>2, <1>5, <2>1, <3>1, <3>2 DEF TriesEverything
  <2> QED
    BY <1>5, <2>1
<1> QED
  BY <1>3, <1>4, <1>5

\* When the master leaves its loop everything has been reported in mode 1, one
\* solution of every satisfiable subgraph in mode 2, and one if there is one
\* in mode 0, for any DAG, any number of workers and any order of their
\* answers (Master.cpp:93-142).
THEOREM ReportsComplete == Spec => []Complete
<1>1. ConversationInv /\ WorkInv => Complete
  BY ReportedWhenDone
<1> QED
  BY <1>1, Conversation, WorkIsAccountedFor, PTL

\* What the master throws away while it drains its workers in mode 1 is known
\* already (Master.cpp:193).
THEOREM DrainsOnlyKnown == Spec => []DrainedIsKnown
<1>1. ASSUME ConversationInv, WorkInv PROVE DrainedIsKnown
  <2> SUFFICES ASSUME ENUMERATE_SOLUTIONS = 1, terminate_trigger, NEW w \in Worker,
                      NEW i \in DOMAIN toMaster[w], toMaster[w][i].tag = "SOLUTION",
                      NEW a \in TotalAssignments,
                      MasterView(toMaster[w][i].from, toMaster[w][i].lits) \subseteq a
               PROVE  \E q \in registered[toMaster[w][i].from] : q \subseteq a
    BY DEF DrainedIsKnown
  <2> DEFINE s == toMaster[w][i]
             m == work[w]
  <2>1. s \in Pending(w)
    BY <1>1 DEF Pending, SolutionsIn, ConversationInv, TypeOK
  <2>2. m # NULL /\ s.from = m.to /\ MasterView(s.from, s.lits) \in PossibleAnswers(m)
    BY <1>1, <2>1 DEF WorkInv, PendingFit
  <2>3. m \in Message /\ registered \in [Node -> SUBSET Cube]
    BY <1>1, <2>2 DEF ConversationInv, TypeOK
  <2>4. m.to \in Node
    BY <2>3, MessageToNode
  <2>5. m \in issued
    <3>1. toWorker[w] = <<>>
      <4>1. toMaster[w] # <<>>
        BY <1>1 DEF ConversationInv, TypeOK
      <4> QED
        BY <1>1, <4>1 DEF ConversationInv, Turns, Killed, MastersTurn, Ordered, Searching, Closing
    <3> QED
      BY <1>1, <2>2, <3>1 DEF WorkInv, WorkIsIssued, CurrentWork
  <2>6. subgraph_finished = {} /\ TriesEverything
    BY <1>1 DEF WorkInv, FinishedIsSolved, TriesEverything
  <2>7. Covered(m, registered[m.to])
    BY <1>1, <2>5, <2>6 DEF WorkInv, NoneLost, Drained
  <2>8. \A q \in registered[m.to] : MasterView(m.to, q) = q
    BY <1>1, <2>4 DEF WorkInv, RegisteredAreViews
  <2>9. registered[m.to] \in SUBSET Cube
    BY <2>3, <2>4
  <2> HIDE DEF s, m
  <2>10. MasterView(s.from, s.lits) \subseteq a
    BY DEF s
  <2>11. \E q \in registered[m.to] : q \subseteq a
    BY <2>2, <2>3, <2>7, <2>8, <2>9, <2>10, PossibleIsCovered
  <2> QED
    BY <2>2, <2>11 DEF s
<1> QED
  BY <1>1, Conversation, WorkIsAccountedFor, PTL

\* What the invariant says of a DAG in one piece is the property.
LEMMA OneWhenConnected == WorkInv => AtMostOneConnected
<1> SUFFICES ASSUME WorkInv PROVE AtMostOneConnected
  OBVIOUS
<1>1. CASE solutions = {}
  BY <1>1, FS_EmptySet DEF AtMostOneConnected
<1>2. CASE (\E s \in solutions : solutions = {s}) /\ (terminate_trigger \/ pc = "fill")
  <2>1. Cardinality(solutions) = 1
    BY <1>2, FS_Singleton
  <2> QED
    BY <1>2, <2>1 DEF AtMostOneConnected
<1> QED
  BY <1>1, <1>2 DEF WorkInv, StopsAtOnce, Connected, AtMostOneConnected

\* On a DAG in one piece mode 2 reports at most one solution: the worker that
\* reports the first one still has its message, so everything is destroyed
\* and the trigger is raised before another answer is read (Master.cpp:64,
\* 199-214).
THEOREM OneWinnerConnected == Spec => []AtMostOneConnected
BY OneWhenConnected, WorkIsAccountedFor, PTL

-----------------------------------------------------------------------------
(* The master and its workers enumerate the DAG                            *)

\* The enumeration speaks of the same combinations and the same answers.
LEMMA EnumerationTerms ==
  /\ \A found, n : Enumeration!Combinations(found, n) = Combinations(found, n)
  /\ \A m : Enumeration!PossibleAnswers(m) = PossibleAnswers(m)
  /\ \A m, found : Enumeration!Covered(m, found) = Covered(m, found)
<1>1. /\ \A n : Enumeration!Parents(n) = Parents(n) /\ Enumeration!Children(n) = Children(n)
      /\ \A q, V : Enumeration!Project(q, V) = Project(q, V)
      /\ \A q : Enumeration!Consistent(q) = Consistent(q)
      /\ \A m : Enumeration!Lits(m) = Lits(m)
      /\ Enumeration!TotalAssignments = TotalAssignments
  BY DEF Enumeration!Parents, Parents, Enumeration!Children, Children, Enumeration!Project,
         Project, Enumeration!Consistent, Consistent, Enumeration!Lits, Lits,
         Enumeration!TotalAssignments, TotalAssignments, Enumeration!Assignments, Assignments
<1>2. /\ \A q, cnf : Enumeration!Satisfies(q, cnf) = Satisfies(q, cnf)
      /\ \A m, additional : Enumeration!CompiledCnf(m, additional) = CompiledCnf(m, additional)
  BY <1>1 DEF Enumeration!Satisfies, Satisfies, Enumeration!CompiledCnf, CompiledCnf
<1>3. ASSUME NEW found, NEW n
      PROVE  Enumeration!Combinations(found, n) = Combinations(found, n)
  <2>1. \A p : Enumeration!Inbox(found, p, n) = Inbox(found, p, n)
    BY <1>1 DEF Enumeration!Inbox, Inbox
  <2> QED
    BY <1>1, <2>1 DEF Enumeration!Combinations, Combinations
<1>4. \A n : Enumeration!Terminal(n) = Terminal(n) /\ Enumeration!ForwardVars(n) = ForwardVars(n)
  BY <1>1 DEF Enumeration!Terminal, Terminal, Enumeration!ForwardVars, ForwardVars
<1>5. \A n, q : /\ Enumeration!WorkerView(n, q) = WorkerView(n, q)
                /\ Enumeration!MasterView(n, q) = MasterView(n, q)
  BY <1>1, <1>4 DEF Enumeration!WorkerView, WorkerView, Enumeration!MasterView, MasterView
<1>6. \A m : Enumeration!PossibleAnswers(m) = PossibleAnswers(m)
  BY <1>1, <1>2, <1>5 DEF Enumeration!PossibleAnswers, PossibleAnswers
<1>7. \A m, found : Enumeration!Covered(m, found) = Covered(m, found)
  BY <1>1, <1>2 DEF Enumeration!Covered, Covered
<1> QED
  BY <1>3, <1>6, <1>7

\* An answer the master takes in is found by the enumeration, and an answer it
\* throws away is not.
LEMMA SolutionIsFound ==
  ASSUME ConversationInv, WorkInv, NEW w \in Worker, ReceiveSolution(w)
  PROVE  [Enumeration!Next]_(Enumeration!vars)
<1> DEFINE s == Head(toMaster[w])
           n == s.from
           m == work[w]
           cube == MasterView(n, s.lits)
<1>1. /\ pc = "receive" /\ pc' = "fill" /\ n \in Node /\ n = m.to /\ m \in issued
      /\ cube \in PossibleAnswers(m)
      /\ registered' = registered \/ registered' = [registered EXCEPT ![n] = @ \cup {cube}]
  BY SolutionTaken
<1>2. m \in Combinations(registered, n)
  BY <1>1 DEF WorkInv, IssuedCombine
<1> HIDE DEF s, m, n, cube
<1>3. CASE registered' = registered
  BY <1>1, <1>3 DEF Enumeration!vars
<1>4. CASE registered' = [registered EXCEPT ![n] = @ \cup {cube}]
  <2>1. Enumeration!Find(n)
    BY <1>1, <1>2, <1>4, EnumerationTerms DEF Enumeration!Find
  <2> QED
    BY <1>1, <2>1 DEF Enumeration!Next
<1> QED
  BY <1>1, <1>3, <1>4

\* The master stops in mode 1 only when the enumeration may.
LEMMA KillIsHalt ==
  ASSUME ConversationInv, WorkInv, ENUMERATE_SOLUTIONS = 1, SendKill
  PROVE  Enumeration!Next
<1>1. pc = "exit" /\ pc' = "done" /\ terminate_trigger /\ UNCHANGED registered
  BY DEF SendKill, ConversationInv, Phases
<1>2. TriesEverything /\ subgraph_finished = {}
  BY DEF TriesEverything, WorkInv, FinishedIsSolved
<1>3. Enumeration!Closed
  BY <1>1, <1>2, ClosedWhenDrained, EnumerationTerms DEF Enumeration!Closed
<1> QED
  BY <1>1, <1>3 DEF Enumeration!Next, Enumeration!Halt

\* Nothing else changes what the enumeration speaks of.
LEMMA OtherStepsStutter ==
  ASSUME [Next]_vars, ~SendKill, ~ \E w \in Worker : ReceiveSolution(w)
  PROVE  registered' = registered /\ (pc = "done")' = (pc = "done")
<1>1. CASE PullMessage \/ EndFill \/ EndAllocate \/ EndSend
  BY <1>1 DEF PullMessage, EndFill, EndAllocate, EndSend
<1>2. ASSUME NEW w \in Worker, Allocate(w) \/ Send(w) \/ ReceiveRequest(w) \/ ReceivePoll(w)
      PROVE  registered' = registered /\ (pc = "done")' = (pc = "done")
  BY <1>2 DEF Allocate, masterVars, Send, ReceiveRequest, ReceivePoll, Receive
<1>3. ASSUME NEW w \in Worker, WorkerStep(w)
      PROVE  registered' = registered /\ (pc = "done")' = (pc = "done")
  BY <1>3 DEF WorkerStep, Search, StartSearch, ContinueSearch, Exit, SearchUnsat,
              SearchPause, SearchSat, masterVars
<1>4. CASE UNCHANGED vars
  BY <1>4 DEF vars, masterVars
<1> QED
  BY <1>1, <1>2, <1>3, <1>4 DEF Next, MasterStep, Terminated

\* The mode is fixed when the program starts.
LEMMA ModeIsFixed ==
  ASSUME [Next]_vars
  PROVE  UNCHANGED ENUMERATE_SOLUTIONS
<1>1. ASSUME NEW w \in Worker, ReceiveSolution(w) PROVE UNCHANGED ENUMERATE_SOLUTIONS
  BY <1>1 DEF ReceiveSolution
<1> QED
  BY <1>1, OtherStepsKeepSolutions

\* In mode 1 each step of the master or of a worker is a step of the
\* enumeration or changes nothing that it speaks of: answers accumulate, each
\* to a combination of answers its parents have given, and the master stops
\* once, when every combination has been answered completely (Master.cpp:
\* 73-244).
THEOREM Enumerates == Spec /\ ENUMERATE_SOLUTIONS = 1 => Enumeration!Spec
<1>1. Init => Enumeration!Init
  BY DEF Init, StoreInit, Enumeration!Init
<1>2. ASSUME ConversationInv, WorkInv, ENUMERATE_SOLUTIONS = 1, [Next]_vars
      PROVE  [Enumeration!Next]_(Enumeration!vars)
  <2>1. ASSUME NEW w \in Worker, ReceiveSolution(w)
        PROVE  [Enumeration!Next]_(Enumeration!vars)
    BY <1>2, <2>1, SolutionIsFound
  <2>2. CASE SendKill
    BY <1>2, <2>2, KillIsHalt
  <2>3. CASE ~SendKill /\ ~ \E w \in Worker : ReceiveSolution(w)
    <3>1. registered' = registered /\ (pc = "done")' = (pc = "done")
      BY <1>2, <2>3, OtherStepsStutter
    <3> QED
      BY <3>1 DEF Enumeration!vars
  <2> QED
    BY <2>1, <2>2, <2>3
<1>3. ENUMERATE_SOLUTIONS = 1 /\ [Next]_vars => (ENUMERATE_SOLUTIONS = 1)'
  BY ModeIsFixed
<1> QED
  BY <1>1, <1>2, <1>3, Conversation, WorkIsAccountedFor, PTL DEF Spec, Enumeration!Spec
-----------------------------------------------------------------------------
(* What is reported is a solution                                          *)

\* Each registered answer answers a message that was given out, and what is
\* reported are registered answers of terminal nodes.
AnswersFollow ==
  \A n \in Node : \A q \in registered[n] :
    \E m \in issued : m.to = n /\ q \in PossibleAnswers(m)
ReportsAreRegistered ==
  \A s \in solutions : Terminal(s.from) /\ s.lits \in registered[s.from]
FollowInv == AnswersFollow /\ ReportsAreRegistered

LEMMA InitFollows == Init => FollowInv
BY DEF Init, StoreInit, FollowInv, AnswersFollow, ReportsAreRegistered

\* Only the receipt of an answer registers or reports anything.
LEMMA OthersRegisterNothing ==
  ASSUME ConversationInv, [Next]_vars
  PROVE  \/ UNCHANGED <<registered, solutions>> /\ issued \subseteq issued'
         \/ \E w \in Worker : ReceiveSolution(w)
<1>1. CASE PullMessage \/ EndFill \/ EndAllocate \/ EndSend \/ SendKill
  BY <1>1 DEF PullMessage, EndFill, EndAllocate, EndSend, SendKill
<1>2. CASE \E w \in Worker : Allocate(w) \/ Send(w) \/ ReceiveRequest(w) \/ ReceivePoll(w)
  BY <1>2 DEF Allocate, Send, ReceiveRequest, ReceivePoll, masterVars
<1>3. CASE \E w \in Worker : WorkerStep(w)
  BY <1>3 DEF WorkerStep, StartSearch, ContinueSearch, Exit, Search, SearchUnsat, SearchPause,
              SearchSat, masterVars
<1>4. CASE UNCHANGED vars
  BY <1>4 DEF vars, masterVars
<1> QED
  BY <1>1, <1>2, <1>3, <1>4 DEF Next, MasterStep, Terminated

\* An answer that is received is one to the message its worker is on, which
\* was given out.
LEMMA NextFollows ==
  ASSUME ConversationInv, WorkInv, FollowInv, [Next]_vars
  PROVE  FollowInv'
<1>1. CASE UNCHANGED <<registered, solutions>> /\ issued \subseteq issued'
  BY <1>1 DEF FollowInv, AnswersFollow, ReportsAreRegistered
<1>2. CASE \E w \in Worker : ReceiveSolution(w)
  <2> PICK w \in Worker : ReceiveSolution(w)
    BY <1>2
  <2> DEFINE s == Head(toMaster[w])
             cube == MasterView(s.from, s.lits)
  <2>1. /\ s.from \in Node /\ s.from = work[w].to /\ work[w] \in issued
        /\ cube \in PossibleAnswers(work[w]) /\ UNCHANGED issued
        /\ \/ UNCHANGED <<registered, solutions>>
           \/ /\ registered' = [registered EXCEPT ![s.from] = @ \cup {cube}]
              /\ \/ UNCHANGED solutions
                 \/ /\ Terminal(s.from)
                    /\ solutions' = solutions \cup {[from |-> s.from, lits |-> cube]}
    BY SolutionTaken
  <2>2. registered \in [Node -> SUBSET Cube] /\ solutions \in SUBSET [from : Node, lits : Cube]
    BY DEF ConversationInv, TypeOK
  <2> HIDE DEF s, cube
  <2>3. AnswersFollow'
    BY <2>1, <2>2 DEF FollowInv, AnswersFollow
  <2>4. \A n \in Node : registered[n] \subseteq registered'[n]
    BY <2>1, <2>2
  <2>5. solutions' # solutions => Terminal(s.from) /\ cube \in registered'[s.from]
    BY <2>1, <2>2
  <2>6. ReportsAreRegistered'
    BY <2>1, <2>2, <2>4, <2>5 DEF FollowInv, ReportsAreRegistered
  <2> QED
    BY <2>3, <2>6 DEF FollowInv
<1> QED
  BY <1>1, <1>2, OthersRegisterNothing

\* A report is an answer of its node, so what it leaves out can be chosen
\* freely if the DAG decomposes the problem.
LEMMA ReportsAreSound ==
  ASSUME Decomposes, ConversationInv, WorkInv, FollowInv
  PROVE  Sound
<1> SUFFICES ASSUME NEW s \in solutions, NEW t \in TotalAssignments, s.lits \subseteq t
             PROVE  \E a \in GlobalModels(s.from) : Project(a, Reporting) = Project(t, Reporting)
  BY DEF Sound
<1>1. registered \in [Node -> SUBSET Cube] /\ s.from \in Node
  BY DEF ConversationInv, TypeOK
<1>2. \A n \in Node : \A q \in registered[n] :
        \E m \in Combinations(registered, n) : q \in PossibleAnswers(m)
  BY DEF WorkInv, IssuedCombine, FollowInv, AnswersFollow
<1>3. Terminal(s.from) /\ s.lits \in registered[s.from]
  BY DEF FollowInv, ReportsAreRegistered
<1>4. PICK a \in GlobalModels(s.from) : MasterView(s.from, a) = MasterView(s.from, t)
  BY <1>1, <1>2, <1>3, AnswersHaveModels
<1> QED
  BY <1>3, <1>4 DEF MasterView

\* If the DAG decomposes the problem, what is reported for a terminal node is a
\* solution of that node together with all it depends on, whatever values the
\* answer leaves open (SatSolver.cpp:301, Worker.cpp:255, Master.cpp:189-201).
THEOREM SolutionsAreSound == Decomposes => (Spec => []Sound)
<1> SUFFICES ASSUME Decomposes PROVE Spec => []Sound
  OBVIOUS
<1>1. Init => FollowInv
  BY InitFollows
<1>2. ConversationInv /\ WorkInv /\ FollowInv /\ [Next]_vars => FollowInv'
  BY NextFollows
<1>3. ConversationInv /\ WorkInv /\ FollowInv => Sound
  BY ReportsAreSound
<1> QED
  BY <1>1, <1>2, <1>3, Conversation, WorkIsAccountedFor, PTL DEF Spec

-----------------------------------------------------------------------------
(* A run that crashes and is started again                                 *)

\* What a checkpoint c has to say is what the invariant of the running system
\* says of the variables that are dumped: nothing else survives.
StoredInv(c) ==
  /\ c.message_buffer \subseteq c.issued
  /\ \A m \in c.issued : m \in Combinations(c.registered, m.to)
  /\ \A n \in Node : \A q \in c.registered[n] : MasterView(n, q) = q
  /\ ENUMERATE_SOLUTIONS \in {1, 2} \/ (ENUMERATE_SOLUTIONS = 0 /\ c.solutions = {}) =>
       \A m \in c.issued :
         \/ m \in c.message_buffer
         \/ Subgraph[m.to] \in c.subgraph_finished
         \/ Covered(m, c.registered[m.to])
  /\ \A n \in Node : Terminal(n) =>
       \A q \in c.registered[n] : [from |-> n, lits |-> q] \in c.solutions
  /\ \A g \in c.subgraph_finished :
       ENUMERATE_SOLUTIONS = 2 /\ \E s \in c.solutions : Subgraph[s.from] = g
  /\ ENUMERATE_SOLUTIONS = 2 /\ Connected =>
       \/ c.solutions = {}
       \/ /\ \E s \in c.solutions : c.solutions = {s}
          /\ c.message_buffer = {}
          /\ \A n \in Node : Subgraph[n] \in c.subgraph_finished
  /\ \A n \in Node : \A q \in c.registered[n] :
       \E m \in c.issued : m.to = n /\ q \in PossibleAnswers(m)
  /\ \A s \in c.solutions : Terminal(s.from) /\ s.lits \in c.registered[s.from]

CheckpointInv ==
  /\ ConversationInv
  /\ WorkInv
  /\ FollowInv
  /\ atTop \in BOOLEAN
  /\ checkpoint \in Snapshot \cup {NULL}
  /\ crashes \in 0 .. MaxCrashes
  /\ checkpoint # NULL => StoredInv(checkpoint)

-----------------------------------------------------------------------------
(* Every step keeps what a checkpoint says                                 *)

\* What is dumped at the top of the loop can be started from.
LEMMA DumpStored ==
  ASSUME ConversationInv, WorkInv, FollowInv
  PROVE  Dump \in Snapshot /\ StoredInv(Dump)
<1>1. Dump \in Snapshot
  BY DEF Dump, DumpOf, Snapshot, ConversationInv, TypeOK, OrganiserTypeOK
<1>2. /\ Dump.registered = registered /\ Dump.issued = issued
      /\ Dump.message_buffer = message_buffer /\ Dump.solutions = solutions
      /\ Dump.subgraph_finished = subgraph_finished
  BY DEF Dump, DumpOf
<1>3. StoredInv(Dump)
  BY <1>2 DEF StoredInv, WorkInv, WorkIsIssued, IssuedCombine, RegisteredAreViews, NoneLost,
              TriesEverything, TerminalsReport, FinishedIsSolved, StopsAtOnce,
              FollowInv, AnswersFollow, ReportsAreRegistered
<1> QED
  BY <1>1, <1>3

\* The conversation begins anew.
LEMMA RestartConversation ==
  ASSUME CheckpointInv, CrashAndRestart
  PROVE  ConversationInv'
<1> USE DEF CrashAndRestart
<1>1. TypeOK'
  <2>1. checkpoint \in Snapshot
    BY DEF CheckpointInv
  <2> QED
    BY <2>1, EmptySeq
    DEF CheckpointInv, ConversationInv, Snapshot, TypeOK, OrganiserTypeOK, WorkerStates
<1>2. Turns'
  BY DEF Turns, MastersTurn
<1>3. HasWork'
  BY DEF HasWork
<1>4. AssignedIsCurrent'
  BY DEF AssignedIsCurrent
<1>5. Phases'
  BY DEF Phases
<1> QED
  BY <1>1, <1>2, <1>3, <1>4, <1>5 DEF ConversationInv

\* Nothing is pending any more, and the rest is as it was dumped.
LEMMA RestartWork ==
  ASSUME CheckpointInv, CrashAndRestart
  PROVE  WorkInv'
<1> DEFINE c == checkpoint
<1>1. StoredInv(c)
  BY DEF CheckpointInv, CrashAndRestart
<1>2. /\ registered' = c.registered /\ issued' = c.issued
      /\ message_buffer' = c.message_buffer /\ solutions' = c.solutions
      /\ subgraph_finished' = c.subgraph_finished
      /\ pc' = "fill" /\ terminate_trigger' = FALSE
      /\ UNCHANGED ENUMERATE_SOLUTIONS
  BY DEF CrashAndRestart
<1>3. \A w \in Worker :
        polled'[w] /\ work'[w] = NULL /\ toWorker'[w] = <<>> /\ toMaster'[w] = <<>>
  BY DEF CrashAndRestart
<1> HIDE DEF c
<1>4. WorkIsIssued'
  BY <1>1, <1>2, <1>3 DEF StoredInv, WorkIsIssued, CurrentWork
<1>5. IssuedCombine' /\ RegisteredAreViews' /\ TerminalsReport' /\ FinishedIsSolved'
  BY <1>1, <1>2
  DEF StoredInv, IssuedCombine, RegisteredAreViews, TerminalsReport, FinishedIsSolved
<1>6. PendingFit' /\ OrdersExclude' /\ LearntIsKnown' /\ ExhaustedIsKnown' /\ FreedIsGone'
  <2>1. PendingFit'
    BY <1>3, PendingNone DEF PendingFit, Pending
  <2> QED
    BY <1>3, <2>1 DEF OrdersExclude, LearntIsKnown, ExhaustedIsKnown, FreedIsGone
<1>7. Drained'
  BY <1>2 DEF Drained
<1>8. NoneLost'
  <2> SUFFICES ASSUME TriesEverything', NEW m \in c.issued
               PROVE  \/ m \in c.message_buffer
                      \/ Subgraph[m.to] \in c.subgraph_finished
                      \/ Covered(m, c.registered[m.to])
    BY <1>2 DEF NoneLost
  <2>1. ENUMERATE_SOLUTIONS \in {1, 2} \/ (ENUMERATE_SOLUTIONS = 0 /\ c.solutions = {})
    BY <1>2 DEF TriesEverything
  <2> QED
    BY <1>1, <2>1 DEF StoredInv
<1>9. StopsAtOnce'
  BY <1>1, <1>2 DEF StoredInv, StopsAtOnce
<1> QED
  BY <1>4, <1>5, <1>6, <1>7, <1>8, <1>9 DEF WorkInv

\* And so do the answers follow.
LEMMA RestartFollows ==
  ASSUME CheckpointInv, CrashAndRestart
  PROVE  FollowInv'
BY DEF CheckpointInv, CrashAndRestart, StoredInv, FollowInv, AnswersFollow, ReportsAreRegistered

\* Every step of the program with crashes keeps the invariant.
LEMMA NextCheckpoint ==
  ASSUME CheckpointInv, [CNext]_allVars
  PROVE  CheckpointInv'
<1>1. ASSUME [Next]_vars, UNCHANGED <<checkpoint, crashes>>, atTop' \in BOOLEAN
      PROVE  CheckpointInv'
  <2>1. ConversationInv' /\ WorkInv' /\ FollowInv'
    BY <1>1, NextKeeps, NextWork, NextFollows DEF CheckpointInv
  <2>2. UNCHANGED ENUMERATE_SOLUTIONS
    BY <1>1, ModeIsFixed
  <2>3. checkpoint # NULL => StoredInv(checkpoint)'
    BY <1>1, <2>2 DEF CheckpointInv, StoredInv
  <2> QED
    BY <1>1, <2>1, <2>3 DEF CheckpointInv
<1>2. CASE Run
  BY <1>1, <1>2 DEF Run
<1>3. CASE DumpCheckpoint
  <2>1. UNCHANGED vars /\ checkpoint' = Dump /\ UNCHANGED <<atTop, crashes>>
    BY <1>3 DEF DumpCheckpoint
  <2>2. ConversationInv' /\ WorkInv' /\ FollowInv'
    BY <2>1, NextKeeps, NextWork, NextFollows DEF CheckpointInv
  <2>3. Dump \in Snapshot /\ StoredInv(Dump)
    BY DumpStored DEF CheckpointInv
  <2>4. UNCHANGED ENUMERATE_SOLUTIONS
    BY <2>1, ModeIsFixed
  <2>5. StoredInv(checkpoint)'
    BY <2>1, <2>3, <2>4 DEF StoredInv
  <2> QED
    BY <2>1, <2>2, <2>3, <2>5 DEF CheckpointInv
<1>4. CASE CrashAndRestart
  <2>1. ConversationInv' /\ WorkInv' /\ FollowInv'
    BY <1>4, RestartConversation, RestartWork, RestartFollows
  <2>2. /\ UNCHANGED <<checkpoint, ENUMERATE_SOLUTIONS>> /\ atTop' = TRUE
        /\ crashes < MaxCrashes /\ crashes' = crashes + 1
    BY <1>4 DEF CrashAndRestart
  <2>3. crashes' \in 0 .. MaxCrashes
    BY <2>2, CrashAssumption DEF CheckpointInv
  <2>4. checkpoint # NULL => StoredInv(checkpoint)'
    BY <2>2 DEF CheckpointInv, StoredInv
  <2> QED
    BY <2>1, <2>2, <2>3, <2>4 DEF CheckpointInv
<1>5. CASE UNCHANGED allVars
  BY <1>1, <1>5 DEF allVars, checkpointVars, CheckpointInv
<1> QED
  BY <1>2, <1>3, <1>4, <1>5 DEF CNext

-----------------------------------------------------------------------------
(* What follows for runs that are started again                            *)

\* The whole invariant of the master and its workers holds over crashes and
\* restarts too.
THEOREM SurvivesCrashes == CSpec => []CheckpointInv
<1>1. CInit => CheckpointInv
  BY InitConversation, InitWork, InitFollows, CrashAssumption DEF CInit, CheckpointInv
<1>2. CheckpointInv /\ [CNext]_allVars => CheckpointInv'
  BY NextCheckpoint
<1> QED
  BY <1>1, <1>2, PTL DEF CSpec

\* What is dumped and read back has the types of what it replaces
\* (Master.cpp:81-92, load_checkpoint).
THEOREM CheckpointTypes == CSpec => []CheckpointTypeOK
<1>1. CheckpointInv => CheckpointTypeOK
  BY DEF CheckpointInv, CheckpointTypeOK, ConversationInv
<1> QED
  BY <1>1, SurvivesCrashes, PTL

\* A message that was given out before the checkpoint is in the buffer that is
\* read back, or done, even when it was with a worker at the time.
THEOREM CrashesLoseNothing == CSpec => []NoWorkLost
<1>1. CheckpointInv => NoWorkLost
  BY DEF CheckpointInv, WorkInv, NoneLost, TriesEverything, NoWorkLost
<1> QED
  BY <1>1, SurvivesCrashes, PTL

\* What the run that ends reports is complete, whatever the crashes before it.
THEOREM RestartsComplete == CSpec => []Complete
<1>1. CheckpointInv => Complete
  BY ReportedWhenDone DEF CheckpointInv
<1> QED
  BY <1>1, SurvivesCrashes, PTL

\* Mode 2 on a DAG in one piece reports one solution at most over restarts as
\* well, which mode 0 does not: the subgraph is dumped as finished.
THEOREM RestartsOneWinnerConnected == CSpec => []AtMostOneConnected
<1>1. CheckpointInv => AtMostOneConnected
  BY OneWhenConnected DEF CheckpointInv
<1> QED
  BY <1>1, SurvivesCrashes, PTL

\* What is reported is a solution over crashes and restarts too: answers that
\* were read back follow from messages that were read back.
THEOREM RestartsAreSound == Decomposes => (CSpec => []Sound)
<1> SUFFICES ASSUME Decomposes PROVE CSpec => []Sound
  OBVIOUS
<1>1. CheckpointInv => Sound
  BY ReportsAreSound DEF CheckpointInv
<1> QED
  BY <1>1, SurvivesCrashes, PTL
=============================================================================
