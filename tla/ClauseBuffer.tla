---------------------------- MODULE ClauseBuffer ----------------------------
(***************************************************************************)
(* One direction of an MpiBuffer (strengthener/MpiBuffer.cc): the sender's *)
(* two out buffers, what MPI carries, and the receiver's two in buffers.   *)
(* Each buffer is a ring of sizeOut integers in which clauses are          *)
(* separated by zeros; a full ring wraps around over its oldest clauses.   *)
(* While one buffer is being sent (received) the other is filled (read).   *)
(*                                                                         *)
(* A clause on its way is a sequence of integers: its literals and then    *)
(* litPool and litPoolPos, which say where the solver keeps it.            *)
(***************************************************************************)
EXTENDS Integers, Sequences, SequencesExt

CONSTANT sizeOut     \* MAX_BUFFER_SIZE, which is also sizeIn; positive

VARIABLES
  out,    \* the sender's side
  wire,   \* the messages sent and not received, in order
  in      \* the receiver's side

PADDING == 3
litPoolStorageOffset == 1000000
Index == 0 .. sizeOut - 1
Other(b) == 1 - b

(* Some elements of a sequence, in their order: which of n, and they.      *)
Selections(n) ==
  {f \in UNION {[1 .. m -> 1 .. n] : m \in 0 .. n} : \A i, j \in DOMAIN f : i < j => f[i] < f[j]}
Selected(s, f) == [k \in DOMAIN f |-> s[f[k]]]

(* malloc leaves the rings as they are: any integer that is no literal.    *)
Uninitialised == -1
Ring == [i \in Index |-> Uninitialised]

(* MpiBuffer::MpiBuffer.  A request that is not pending is                 *)
(* MPI_REQUEST_NULL.  A receive is posted on in-buffer 0 from the start    *)
(* and on the other one by every switch.                                   *)
NewOut == [cur |-> 0, data |-> [b \in 0 .. 1 |-> Ring], next |-> [b \in 0 .. 1 |-> 0],
           cycled |-> [b \in 0 .. 1 |-> FALSE], pending |-> [b \in 0 .. 1 |-> FALSE]]
NewIn  == [cur |-> 1, data |-> [b \in 0 .. 1 |-> Ring],
           next |-> [b \in 0 .. 1 |-> 0], end |-> [b \in 0 .. 1 |-> 0]]

Init == out = NewOut /\ wire = << >> /\ in = NewIn

-----------------------------------------------------------------------------
(* The sender.                                                             *)

getRemainingOutSpace(o) == IF o.cycled[o.cur] THEN 0 ELSE sizeOut - o.next[o.cur]

(* The two positions may be 0, which would end the clause.                 *)
StoredAsIs(clause) == clause        \* a slip
Stored(clause) ==
  [i \in 1 .. Len(clause) |->
     IF i > Len(clause) - 2 THEN clause[i] + litPoolStorageOffset ELSE clause[i]]

(* pushClauseNoAutoSend: the clause and a zero, around the end if need be. *)
Pushed(o, clause) ==
  LET b == o.cur
      place(i) == (i - o.next[b]) % sizeOut
      last == o.next[b] + Len(clause) + 1
  IN  IF Len(clause) + 1 > sizeOut THEN o
      ELSE [o EXCEPT !.data[b] = [i \in Index |->
                        IF place(i) < Len(clause) THEN Stored(clause)[place(i) + 1]
                        ELSE IF place(i) = Len(clause) THEN 0 ELSE @[i]],
                     !.next[b] = last % sizeOut,
                     !.cycled[b] = @ \/ last >= sizeOut]

(* Where the clauses of the buffer start: in a ring that has wrapped, one  *)
(* past the first zero, which ends the clause that is half overwritten.    *)
AfterFirstZero(o) ==
  LET b == o.cur
      zeros == {k \in Index : o.data[b][(o.next[b] + k) % sizeOut] = 0}
      first == CHOOSE k \in zeros : \A l \in zeros : k <= l
  IN  ((o.next[b] + first) % sizeOut) + 1
Beginning(o) == IF o.cycled[o.cur] THEN AfterFirstZero(o) ELSE 0

(* sendBufferOut: the header and as much of the ring as is in use.         *)
EndOf(o) == IF o.next[o.cur] = 0 THEN sizeOut - 1 ELSE o.next[o.cur] - 1
SendLength(o) == (IF EndOf(o) > Beginning(o) THEN EndOf(o) ELSE sizeOut) + PADDING + 1
InUse(o) == IF EndOf(o) > Beginning(o) THEN EndOf(o) + 1 ELSE sizeOut
Message(o, phase) ==
  [slot |-> o.cur, phase |-> phase, beginning |-> Beginning(o), end |-> EndOf(o),
   data |-> [i \in 1 .. InUse(o) |-> o.data[o.cur][i - 1]], sendLength |-> SendLength(o)]

(* testAndSwitchBufferOut.  MPI_Test on the request of the other buffer    *)
(* may fail only while that is pending; a send that MPI has copied may     *)
(* complete before it is received.                                         *)
MayTest(completed) == completed \/ out.pending[Other(out.cur)]
Touched == out.next[out.cur] # 0 \/ out.cycled[out.cur]
Sent(phase) == IF Touched THEN <<Message(out, phase)>> ELSE << >>
SwitchedUncleared ==       \* a slip: the old clauses would go again
  [out EXCEPT !.pending[out.cur] = Touched, !.pending[Other(out.cur)] = FALSE,
              !.cur = Other(out.cur)]
Switched ==
  LET b == out.cur
  IN  [out EXCEPT !.pending[b] = Touched, !.pending[Other(b)] = FALSE,
                  !.cur = Other(b), !.next[Other(b)] = 0, !.cycled[Other(b)] = FALSE]
Tested(completed) == IF completed THEN Switched ELSE out

(* The test, and then what is pushed after it: by pushClause one clause, by *)
(* push_to_reducer as many as fit.                                         *)
Push(completed, phase, after) ==
  /\ MayTest(completed)
  /\ out' = after
  /\ wire' = IF completed THEN wire \o Sent(phase) ELSE wire
  /\ UNCHANGED in

(* MpiBuffer::~MpiBuffer cancels the sends that are pending, which MPI may *)
(* still carry out.  The one of buffer b is the last that is on the wire.  *)
Pending(phase) ==
  {k \in 1 .. Len(wire) :
     /\ wire[k].phase = phase /\ out.pending[wire[k].slot]
     /\ \A l \in k + 1 .. Len(wire) : wire[l].slot # wire[k].slot}
CloseOut(phase) ==
  /\ out' = NewOut
  /\ \E kept \in Selections(Len(wire)) :
       /\ (1 .. Len(wire)) \ ToSet(kept) \subseteq Pending(phase)
       /\ wire' = Selected(wire, kept)

-----------------------------------------------------------------------------
(* The receiver.                                                           *)

(* The receive that is posted has room for sizeIn + PADDING integers; a    *)
(* longer message is an error, and an error in MPI ends the program.       *)
Fits(m) == m.sendLength <= sizeOut + PADDING
Overflows == wire # << >> /\ ~Fits(Head(wire))

(* testAndSwitchBufferIn when the receive has completed with message m.    *)
(* Clauses of another phase are skipped.                                   *)
AcceptsAny(m, phase) == TRUE          \* a slip
Accepts(m, phase) == m.phase = phase
Received(m, phase) ==
  LET b == Other(in.cur)
  IN  [in EXCEPT !.cur = b,
                 !.data[b] = [k \in Index |-> IF k < Len(m.data) THEN m.data[k + 1] ELSE @[k]],
                 !.next[b] = IF Accepts(m, phase) THEN m.beginning ELSE 0,
                 !.end[b]  = IF Accepts(m, phase) THEN m.end ELSE 0]

Unread == in.next[in.cur] # in.end[in.cur]

(* getClause on a buffer with clauses left: the integers up to the next    *)
(* zero, or to the end of the buffer if no zero comes before it.           *)
At(k) == (in.next[in.cur] + k) % sizeOut
Scanned ==
  LET stops == {k \in Index : in.data[in.cur][At(k)] = 0 \/ At(k) = in.end[in.cur]}
      n == CHOOSE k \in stops : \A l \in stops : k <= l
  IN  [k \in 1 .. n |-> in.data[in.cur][At(k - 1)]]
EndsInZero == in.data[in.cur][At(Len(Scanned))] = 0

(* What getClause returns, with the positions as they were pushed: a       *)
(* clause, or nothing.                                                     *)
ClauseRead ==
  IF Unread /\ EndsInZero
  THEN [k \in 1 .. Len(Scanned) |-> IF k > Len(Scanned) - 2
                                    THEN Scanned[k] - litPoolStorageOffset ELSE Scanned[k]]
  ELSE << >>

(* Past the clause next moves over the zero, unless that is the end.       *)
AfterClause ==
  IF EndsInZero /\ At(Len(Scanned)) # in.end[in.cur]
  THEN At(Len(Scanned) + 1) ELSE At(Len(Scanned))

GetClause(phase) ==
  \/ /\ Unread
     /\ in' = [in EXCEPT !.next[in.cur] = AfterClause]
     /\ UNCHANGED wire
  \/ /\ ~Unread /\ wire # << >> /\ Fits(Head(wire))
     /\ in' = Received(Head(wire), phase)
     /\ wire' = Tail(wire)
  \/ /\ ~Unread                       \* nothing has arrived yet
     /\ UNCHANGED <<in, wire>>

(* ~MpiBuffer again: the receive that is posted may have been matched.     *)
CloseIn ==
  /\ in' = NewIn
  /\ wire' = wire \/ (wire # << >> /\ wire' = Tail(wire))

(* What getClause asserts of a buffer it reads from: next is at a literal, *)
(* and a literal and two positions at least come before the zero.          *)
ReadsWholeClause ==
  Unread => /\ in.data[in.cur][in.next[in.cur]] # 0
            /\ EndsInZero
            /\ Len(Scanned) >= 3

(* The clauses between the sender and the receiver, the oldest first.      *)
ClausesIn(ring, first, last) ==
  LET n == (last - first) % sizeOut
      cell(k) == ring[(first + k) % sizeOut]
      zeros == SelectSeq([k \in 1 .. n + 1 |-> k - 1], LAMBDA k : cell(k) = 0)
      start(j) == IF j = 1 THEN 0 ELSE zeros[j - 1] + 1
  IN  [j \in 1 .. Len(zeros) |-> [k \in 1 .. zeros[j] - start(j) |-> cell(start(j) + k - 1)]]
InTransit ==
  LET unread == IF Unread THEN ClausesIn(in.data[in.cur], in.next[in.cur], in.end[in.cur]) ELSE << >>
      carried(m) == ClausesIn([i \in Index |-> IF i < Len(m.data) THEN m.data[i + 1] ELSE Uninitialised],
                              m.beginning, m.end)
      waiting == IF Touched THEN ClausesIn(out.data[out.cur], Beginning(out), EndOf(out)) ELSE << >>
  IN  unread \o FlattenSeq([k \in DOMAIN wire |-> carried(wire[k])]) \o waiting
=============================================================================
