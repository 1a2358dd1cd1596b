-------------------------- MODULE LocalSearchProofs --------------------------
(***************************************************************************)
(* The worker and its local searches, for any number of helpers, of        *)
(* prefixes and of messages of the master, and whether or not MPI buffers  *)
(* what they send: the worker reports answers to the problem it has, each  *)
(* once, and a helper ends up under the last prefix it was sent.           *)
(*                                                                         *)
(* The last needs to know that no prefix of one message is left when the   *)
(* next begins.  The prefix of length 0 is the last that a helper is sent  *)
(* for a message and the last it takes, and the collective call that       *)
(* follows keeps the next problem, and the prefixes under it, behind it.   *)
(***************************************************************************)
EXTENDS LocalSearch, SequenceTheorems, TLAPS

-----------------------------------------------------------------------------
(* Lemmas about sequences and remainders.                                  *)

\* What is in a sequence after an append.
LEMMA AppendFacts ==
  ASSUME NEW S, NEW s \in Seq(S), NEW e \in S
  PROVE  /\ Append(s, e) \in Seq(S) /\ Len(Append(s, e)) = Len(s) + 1
         /\ Len(s) \in Nat /\ Append(s, e) # << >>
         /\ DOMAIN s = 1 .. Len(s) /\ DOMAIN Append(s, e) = 1 .. Len(s) + 1
         /\ \A k \in 1 .. Len(s) : Append(s, e)[k] = s[k]
         /\ Append(s, e)[Len(s) + 1] = e
OBVIOUS

\* An order to a helper that has read all of them.
LEMMA FirstOrder ==
  ASSUME NEW e \in Int
  PROVE  Append(<< >>, e) = <<e>> /\ <<e>> \in Seq(Int) /\ <<e>> # << >>
         /\ Head(<<e>>) = e /\ Tail(<<e>>) = << >>
OBVIOUS

\* What is in a sequence once its head is taken.
LEMMA TailFacts ==
  ASSUME NEW S, NEW s \in Seq(S), s # << >>
  PROVE  /\ Head(s) \in S /\ Head(s) = s[1] /\ Tail(s) \in Seq(S)
         /\ Len(s) \in Nat \ {0} /\ Len(Tail(s)) = Len(s) - 1
         /\ DOMAIN s = 1 .. Len(s) /\ DOMAIN Tail(s) = 1 .. Len(s) - 1
         /\ \A k \in 1 .. Len(s) - 1 : Tail(s)[k] = s[k + 1]
         /\ (Tail(s) = << >>) <=> (Len(s) = 1)
<1>1. /\ Head(s) \in S /\ Head(s) = s[1] /\ Tail(s) \in Seq(S)
      /\ Len(s) \in Nat \ {0} /\ Len(Tail(s)) = Len(s) - 1
      /\ DOMAIN s = 1 .. Len(s) /\ DOMAIN Tail(s) = 1 .. Len(s) - 1
  OBVIOUS
<1>2. \A k \in 1 .. Len(s) - 1 : Tail(s)[k] = s[k + 1]
  OBVIOUS
<1>3. (Tail(s) = << >>) <=> (Len(Tail(s)) = 0)
  BY <1>1, EmptySeq
<1> QED BY <1>1, <1>2, <1>3

\* An answer that is not among those given keeps them distinct.
LEMMA AppendIsInjective ==
  ASSUME NEW S, NEW s \in Seq(S), NEW e \in S, IsInjective(s), e \notin ToSet(s)
  PROVE  IsInjective(Append(s, e))
BY AppendFacts DEF IsInjective, ToSet

\* Going round n helpers: after number a comes number a + 1.
LEMMA Round ==
  ASSUME NEW n \in Nat \ {0}, NEW a \in Nat
  PROVE  /\ a % n \in 0 .. n - 1
         /\ ((a % n) + 1) % n = (a + 1) % n
         /\ 0 % n = 0
<1> DEFINE q == a \div n
           r == a % n
<1>1. q \in Int /\ r \in 0 .. n - 1 /\ a = n * q + r
  OBVIOUS
<1>2. \A p \in Int, t \in 0 .. n - 1 : (n * p + t) % n = t
  OBVIOUS
<1>3. 0 % n = 0
  OBVIOUS
<1>4. (r + 1) % n = (a + 1) % n
  <2> HIDE DEF q, r
  <2>1. CASE r + 1 < n
    <3>1. a + 1 = n * q + (r + 1) /\ r + 1 \in 0 .. n - 1 /\ r + 1 = n * 0 + (r + 1)
      BY <1>1, <2>1
    <3>2. (a + 1) % n = r + 1 /\ (r + 1) % n = r + 1
      BY <1>1, <1>2, <3>1
    <3> QED BY <3>2
  <2>2. CASE r + 1 = n
    <3>1. a + 1 = n * (q + 1) + 0 /\ r + 1 = n * 1 + 0 /\ q + 1 \in Int /\ 0 \in 0 .. n - 1
      BY <1>1, <2>2
    <3>2. (n * (q + 1) + 0) % n = 0
      BY <1>2, <3>1
    <3>3. (n * 1 + 0) % n = 0
      BY <1>2, <3>1
    <3> QED BY <3>1, <3>2, <3>3, Zenon
  <2> QED BY <1>1, <2>1, <2>2
<1> QED BY <1>1, <1>3, <1>4

-----------------------------------------------------------------------------
(* The inductive invariant.                                                *)

Searching == {"searching", "testing", "sending"}
Solving == {"checking", "running", "prefixing", "polling", "finished"}
Leaving == {"deleting", "ending"}

AnswerType == Int \X Int
PrefixType == [id : Nat, len : Nat]
SearchType == [phase : Int, nogoods : SUBSET AnswerType, found : BOOLEAN, active : BOOLEAN,
               buffer : Nat, len : Nat, got : Nat, loaded : PrefixType]

LocalTypes ==
  /\ plan \in Plans
  /\ wpc \in {"idle", "allocating", "done"} \cup Solving \cup Leaving
  /\ phase \in Nat \cup {-1}
  /\ request \in AnswerType /\ given \in Seq(AnswerType)
  /\ sent \in Nat /\ currentSLS \in Helpers
  /\ orders \in [Helpers -> Seq(Int)]
  /\ prefixes \in [Helpers -> Seq(PrefixType)]
  /\ sols \in [Helpers -> Seq(AnswerType)]
  /\ hpc \in [Helpers -> {"idle", "allocating", "freeing", "exit"} \cup Searching]
  /\ search \in [Helpers -> SearchType]

\* Where worker and helper can be at the same time.
InStep(h) ==
  \/ wpc = "idle" /\ hpc[h] = "idle" /\ orders[h] = << >> /\ prefixes[h] = << >>
  \/ /\ wpc = "allocating" /\ phase \in Nat /\ prefixes[h] = << >> /\ sent = 0
     /\ \/ hpc[h] = "idle" /\ orders[h] = <<phase>>
        \/ hpc[h] = "allocating" /\ orders[h] = << >> /\ search[h] = NewSearch(phase)
  \/ wpc \in Solving /\ hpc[h] \in Searching /\ orders[h] = << >> /\ search[h].phase = phase
  \/ /\ wpc \in Leaving /\ orders[h] = << >>
     /\ hpc[h] \in Searching \/ (hpc[h] = "freeing" /\ prefixes[h] = << >>)
  \/ wpc = "done" /\ (hpc[h] = "exit" \/ (hpc[h] = "idle" /\ orders[h] = <<-1>>))

LastIn(s) == s[Len(s)]

\* The prefixes under way end with the last one sent, or it is what the helper
\* has in its buffer; and when the worker leaves, with the one of length 0.
HearsLast(h) ==
  hpc[h] \in Searching =>
    /\ wpc \in Solving =>
         /\ \A k \in DOMAIN prefixes[h] : prefixes[h][k].len > 0
         /\ search[h].active \/ search[h].len > 0
         /\ prefixes[h] = << >> => search[h].buffer = LastSent(h)
         /\ prefixes[h] # << >> => LastIn(prefixes[h]).id = LastSent(h)
    /\ wpc \in Leaving =>
         \/ prefixes[h] = << >> /\ ~search[h].active /\ search[h].len = 0
         \/ /\ prefixes[h] # << >> /\ LastIn(prefixes[h]) = NoPrefix
            /\ \A k \in 1 .. Len(prefixes[h]) - 1 : prefixes[h][k].len > 0
            /\ search[h].active \/ search[h].len > 0

\* What is in the buffer has been loaded, or will be at the end of the loop.
LoadsIt(h) ==
  hpc[h] \in Searching /\ search[h].active =>
    \/ search[h].loaded.id = search[h].buffer
    \/ hpc[h] # "searching" /\ search[h].got > 0

\* The helper whose turn it is (currentSLS).
InTurn ==
  /\ wpc # "prefixing" => currentSLS = (sent % plan.numSLSProcesses) + 1
  /\ wpc = "prefixing" => sent > 0 /\ currentSLS = ((sent - 1) % plan.numSLSProcesses) + 1

HelperInv(h) == InStep(h) /\ HearsLast(h) /\ LoadsIt(h)

LocalInv ==
  /\ LocalTypes
  /\ \A h \in Helpers : HelperInv(h)
  /\ InTurn
  /\ AnswersFitMessage
  /\ AnswersOnce

-----------------------------------------------------------------------------
(* The operators of the model.                                             *)

\* A plan, and what the types say of it.
LEMMA PlanFacts ==
  ASSUME LocalTypes
  PROVE  /\ plan.numSLSProcesses \in Nat \ {0} /\ Len(plan.messages) \in Nat
         /\ Helpers = 1 .. plan.numSLSProcesses /\ Helpers # {}
<1>1. plan \in [numSLSProcesses : Nat \ {0}, prefixes : Nat,
                messages : Seq([answers : Nat, unit : BOOLEAN])]
  BY LocalSearchAssumption DEF LocalTypes
<1>2. Len(plan.messages) \in Nat
  BY <1>1, LenProperties
<1>3. 1 \in 1 .. plan.numSLSProcesses
  BY <1>1
<1> QED BY <1>1, <1>2, <1>3 DEF Helpers

\* Answers are pairs, the first of which is their phase.
LEMMA AnswerFacts ==
  ASSUME NEW p \in Int, NEW answer \in Answers(p)
  PROVE  answer \in AnswerType /\ answer[1] = p
BY DEF Answers, AnswerType

\* Before the first prefix none has been sent; after another, it is the last
\* for the helper whose turn it was, and nothing changes for the others.
LEMMA LastSentFacts ==
  ASSUME LocalTypes, NEW h \in Helpers
  PROVE  /\ sent = 0 => LastSent(h) = 0
         /\ plan' = plan /\ sent' = sent + 1 =>
              LastSent(h)' = IF h = (sent % plan.numSLSProcesses) + 1 THEN sent + 1 ELSE LastSent(h)
         /\ plan' = plan /\ sent' = sent => LastSent(h)' = LastSent(h)
<1> DEFINE n == plan.numSLSProcesses
           mine == {k \in 1 .. sent : ((k - 1) % n) + 1 = h}
           next == {k \in 1 .. sent + 1 : ((k - 1) % n) + 1 = h}
<1>1. n \in Nat \ {0} /\ sent \in Nat
  BY PlanFacts DEF LocalTypes
<1>2. sent = 0 => LastSent(h) = 0
  <2>1. sent = 0 => mine = {}
    OBVIOUS
  <2> QED BY <2>1 DEF LastSent
<1>3. ASSUME plan' = plan, sent' = sent + 1
      PROVE  LastSent(h)' = IF h = (sent % n) + 1 THEN sent + 1 ELSE LastSent(h)
  <2>1. LastSent(h)' = IF next = {} THEN 0 ELSE CHOOSE k \in next : \A l \in next : l <= k
    BY <1>3 DEF LastSent
  <2>2. CASE h = (sent % n) + 1
    <3>1. sent + 1 \in next /\ \A l \in next : l \in Int /\ l <= sent + 1
      BY <1>1, <2>2
    <3>2. \A k \in next : (\A l \in next : l <= k) => k = sent + 1
      BY <1>1, <3>1
    <3> HIDE DEF next
    <3>3. (CHOOSE k \in next : \A l \in next : l <= k) = sent + 1
      BY <3>1, <3>2
    <3> QED BY <2>1, <2>2, <3>1, <3>3
  <2>3. CASE h # (sent % n) + 1
    <3>1. next = mine
      BY <1>1, <2>3
    <3>2. LastSent(h) = IF mine = {} THEN 0 ELSE CHOOSE k \in mine : \A l \in mine : l <= k
      BY DEF LastSent
    <3> HIDE DEF mine, next
    <3> QED BY <2>1, <2>3, <3>1, <3>2
  <2> QED BY <2>2, <2>3
<1>4. plan' = plan /\ sent' = sent => LastSent(h)' = LastSent(h)
  BY DEF LastSent
<1> QED BY <1>2, <1>3, <1>4

-----------------------------------------------------------------------------
(* What a step leaves alone.                                               *)

\* A helper that a step does not concern, while the worker stays where it is or
\* goes on with its search.
LEMMA OtherHelper ==
  ASSUME LocalTypes, NEW h \in Helpers, HelperInv(h),
         plan' = plan, phase' = phase, sent' = sent,
         wpc' = wpc \/ (wpc \in Solving /\ wpc' \in Solving),
         orders'[h] = orders[h], prefixes'[h] = prefixes[h],
         hpc'[h] = hpc[h], search'[h] = search[h]
  PROVE  HelperInv(h)'
<1>1. LastSent(h)' = LastSent(h)
  BY LastSentFacts
<1>2. wpc # wpc' => wpc \notin {"idle", "allocating", "done"} \cup Leaving
  BY DEF Solving, Leaving
<1>3. InStep(h)'
  BY <1>2 DEF HelperInv, InStep, NewSearch, Solving, Leaving
<1>4. HearsLast(h)'
  BY <1>1, <1>2 DEF HelperInv, HearsLast, Solving, Leaving
<1>5. LoadsIt(h)'
  BY DEF HelperInv, LoadsIt
<1> QED BY <1>3, <1>4, <1>5 DEF HelperInv

\* The answers given for a message.
LEMMA SameAnswers ==
  ASSUME AnswersFitMessage, AnswersOnce, plan' = plan, phase' = phase, given' = given
  PROVE  AnswersFitMessage' /\ AnswersOnce'
BY DEF AnswersFitMessage, AnswersOnce, Problem

\* Another answer, to the same message and not yet among them.
LEMMA AnotherAnswer ==
  ASSUME LocalTypes, AnswersFitMessage, AnswersOnce, plan' = plan, phase' = phase,
         NEW answer \in AnswerType, answer[1] = phase, answer \notin Excluded,
         given' = Append(given, answer)
  PROVE  given' \in Seq(AnswerType) /\ AnswersFitMessage' /\ AnswersOnce'
<1>1. given \in Seq(AnswerType)
  BY DEF LocalTypes
<1>2. /\ given' \in Seq(AnswerType) /\ Len(given) \in Nat
      /\ DOMAIN given = 1 .. Len(given) /\ DOMAIN given' = 1 .. Len(given) + 1
      /\ \A k \in 1 .. Len(given) : given'[k] = given[k]
      /\ given'[Len(given) + 1] = answer
  BY <1>1, AppendFacts
<1>3. AnswersFitMessage'
  BY <1>2 DEF AnswersFitMessage
<1>4. ASSUME phase >= 0, ~Problem.unit PROVE IsInjective(given')
  <2>1. IsInjective(given) /\ answer \notin ToSet(given)
    BY <1>4 DEF AnswersOnce, Excluded
  <2> QED BY <1>1, <2>1, AppendIsInjective
<1>5. AnswersOnce'
  BY <1>4 DEF AnswersOnce, Problem
<1> QED BY <1>2, <1>3, <1>5

-----------------------------------------------------------------------------
(* The steps of the worker.                                                *)

\* The solver looks at an answer of a helper, finds one itself, or stops.
LEMMA SolvingKeeps ==
  ASSUME LocalInv, CheckSolutions \/ Run \/ ReceivePoll
  PROVE  LocalInv'
<1> USE DEF LocalInv
<1>1. /\ plan' = plan /\ phase' = phase /\ sent' = sent /\ currentSLS' = currentSLS
      /\ orders' = orders /\ prefixes' = prefixes /\ sols' = sols /\ hpc' = hpc /\ search' = search
      /\ wpc \in Solving \ {"prefixing"} /\ wpc' \in Solving \ {"prefixing"}
  BY DEF CheckSolutions, Run, ReceivePoll, Answer, wires, Solving
<1>2. request' \in AnswerType
  BY DEF CheckSolutions, Run, ReceivePoll, LocalTypes, AnswerType, Null, Posted
<1>3. given' \in Seq(AnswerType) /\ AnswersFitMessage' /\ AnswersOnce'
  <2>1. CASE given' = given
    BY <1>1, <2>1, SameAnswers DEF LocalTypes
  <2>2. CASE CheckSolutions /\ Novel(request) /\ Answer(request)
    BY <1>1, <2>2, AnotherAnswer DEF Answer, Novel, LocalTypes
  <2>3. ASSUME NEW answer \in Answers(phase) \ ToSet(given), Answer(answer)
        PROVE  given' \in Seq(AnswerType) /\ AnswersFitMessage' /\ AnswersOnce'
    <3>1. answer \in AnswerType /\ answer[1] = phase
      BY AnswerFacts DEF LocalTypes
    <3>2. answer \notin Excluded
      BY DEF Excluded
    <3> QED BY <1>1, <2>3, <3>1, <3>2, AnotherAnswer DEF Answer
  <2>4. CheckSolutions => given' = given \/ (Novel(request) /\ Answer(request))
    BY DEF CheckSolutions
  <2> QED BY <2>1, <2>2, <2>3, <2>4 DEF Run, ReceivePoll
<1>4. LocalTypes'
  BY <1>1, <1>2, <1>3 DEF LocalTypes, Helpers
<1>5. \A h \in Helpers : HelperInv(h)'
  BY <1>1, OtherHelper
<1>6. InTurn'
  BY <1>1 DEF InTurn
<1> QED BY <1>1, <1>3, <1>4, <1>5, <1>6 DEF Helpers

\* What the next solver begins with, when its helpers are idle and have read
\* everything.
LEMMA NewSolverKeeps ==
  ASSUME LocalInv, NewSolver, plan' = plan, prefixes' = prefixes, sols' = sols, search' = search,
         hpc' = [h \in Helpers |-> "idle"],
         \A h \in Helpers : orders[h] = << >> /\ prefixes[h] = << >>
  PROVE  LocalInv'
<1> USE DEF LocalInv
<1>1. /\ wpc' = "allocating" /\ phase' = phase + 1 /\ phase' \in Nat /\ given' = << >>
      /\ sent' = 0 /\ currentSLS' = 1 /\ request' \in AnswerType
      /\ orders' = [h \in Helpers |-> Append(orders[h], phase + 1)]
  BY DEF NewSolver, SendOrders, LocalTypes, Null, AnswerType
<1>2. \A h \in Helpers : orders'[h] = <<phase'>> /\ orders'[h] \in Seq(Int)
  <2>1. Append(<< >>, phase') = <<phase'>> /\ <<phase'>> \in Seq(Int)
    BY <1>1, FirstOrder
  <2>2. \A h \in Helpers : orders'[h] = Append(<< >>, phase')
    BY <1>1
  <2> QED BY <2>1, <2>2
<1>3. plan.numSLSProcesses \in Nat \ {0} /\ 1 \in Helpers
  BY PlanFacts
<1>4. LocalTypes'
  <2>1. orders' \in [Helpers -> Seq(Int)]
    BY <1>1, <1>2, Zenon
  <2>2. hpc' \in [Helpers -> {"idle", "allocating", "freeing", "exit"} \cup Searching]
    OBVIOUS
  <2>3. given' \in Seq(AnswerType)
    BY <1>1
  <2> QED BY <1>1, <1>3, <2>1, <2>2, <2>3 DEF LocalTypes, Helpers
<1>5. \A h \in Helpers : HelperInv(h)'
  BY <1>1, <1>2 DEF HelperInv, InStep, HearsLast, LoadsIt, Searching
<1>6. InTurn'
  BY <1>1, <1>3, Round DEF InTurn
<1>7. AnswersFitMessage' /\ AnswersOnce'
  BY <1>1 DEF AnswersFitMessage, AnswersOnce, IsInjective
<1> QED BY <1>4, <1>5, <1>6, <1>7 DEF Helpers

\* The worker tells its helpers to leave their search: ~SatSolver.
LEMMA SignalKeeps ==
  ASSUME LocalInv, wpc \in {"polling", "finished"}, wpc' \in Leaving, prefixes' = SignalCompletion,
         UNCHANGED <<plan, phase, request, given, sent, currentSLS, orders, sols, hpc, search>>
  PROVE  LocalInv'
<1> USE DEF LocalInv
<1>1. NoPrefix \in PrefixType
  BY DEF NoPrefix, PrefixType
<1>2. \A h \in Helpers :
        /\ prefixes[h] \in Seq(PrefixType) /\ Len(prefixes[h]) \in Nat
        /\ prefixes'[h] \in Seq(PrefixType) /\ Len(prefixes'[h]) = Len(prefixes[h]) + 1
        /\ prefixes'[h] # << >> /\ LastIn(prefixes'[h]) = NoPrefix
        /\ DOMAIN prefixes[h] = 1 .. Len(prefixes[h])
        /\ \A k \in 1 .. Len(prefixes[h]) : prefixes'[h][k] = prefixes[h][k]
  <2> TAKE h \in Helpers
  <2>1. prefixes[h] \in Seq(PrefixType) /\ prefixes'[h] = Append(prefixes[h], NoPrefix)
    BY DEF LocalTypes, SignalCompletion
  <2> QED BY <1>1, <2>1, AppendFacts DEF LastIn
<1>3. LocalTypes'
  <2>1. prefixes' \in [Helpers -> Seq(PrefixType)]
    BY <1>2, Zenon DEF SignalCompletion
  <2> QED BY <2>1 DEF LocalTypes, Helpers
<1>4. ASSUME NEW h \in Helpers PROVE HelperInv(h)'
  <2>1. hpc[h] \in Searching /\ orders[h] = << >> /\ (search[h].active \/ search[h].len > 0)
        /\ \A k \in 1 .. Len(prefixes[h]) : prefixes[h][k].len > 0
    BY <1>2 DEF HelperInv, InStep, HearsLast, Solving, Leaving
  <2>2. InStep(h)'
    BY <2>1 DEF InStep
  <2>3. HearsLast(h)'
    <3>1. wpc' \notin Solving
      BY DEF Solving, Leaving
    <3>2. \A k \in 1 .. Len(prefixes'[h]) - 1 : prefixes'[h][k].len > 0
      BY <1>2, <2>1
    <3> QED BY <1>2, <2>1, <3>1, <3>2 DEF HearsLast
  <2>4. LoadsIt(h)'
    BY DEF HelperInv, LoadsIt
  <2> QED BY <2>2, <2>3, <2>4 DEF HelperInv
<1>5. InTurn'
  BY DEF InTurn, Leaving
<1>6. AnswersFitMessage' /\ AnswersOnce'
  BY SameAnswers
<1> QED BY <1>3, <1>4, <1>5, <1>6 DEF Helpers

\* The worker ends when its helpers are idle.
LEMMA EndKeeps ==
  ASSUME LocalInv, wpc' = "done", wpc # "prefixing", SendOrders(-1), request' \in AnswerType,
         hpc' = [h \in Helpers |-> "idle"], \A h \in Helpers : orders[h] = << >>,
         UNCHANGED <<plan, phase, given, sent, currentSLS, prefixes, sols, search>>
  PROVE  LocalInv'
<1> USE DEF LocalInv
<1>1. orders' = [h \in Helpers |-> Append(orders[h], -1)]
  BY DEF SendOrders
<1>2. \A h \in Helpers : orders'[h] = <<-1>> /\ orders'[h] \in Seq(Int)
  <2>1. Append(<< >>, -1) = <<-1>> /\ <<-1>> \in Seq(Int)
    BY <1>1, FirstOrder
  <2>2. \A h \in Helpers : orders'[h] = Append(<< >>, -1)
    BY <1>1
  <2> QED BY <2>1, <2>2
<1>3. LocalTypes'
  <2>1. orders' \in [Helpers -> Seq(Int)]
    BY <1>1, <1>2, Zenon
  <2>2. hpc' \in [Helpers -> {"idle", "allocating", "freeing", "exit"} \cup Searching]
    OBVIOUS
  <2> QED BY <2>1, <2>2 DEF LocalTypes, Helpers
<1>4. \A h \in Helpers : HelperInv(h)'
  BY <1>2 DEF HelperInv, InStep, HearsLast, LoadsIt, Searching
<1>5. InTurn'
  BY DEF InTurn
<1>6. AnswersFitMessage' /\ AnswersOnce'
  BY SameAnswers
<1> QED BY <1>3, <1>4, <1>5, <1>6 DEF Helpers

\* A message of the master.
LEMMA MasterKeeps ==
  ASSUME LocalInv, ReceiveAssignment \/ ReceiveKill
  PROVE  LocalInv'
<1>1. CASE wpc = "idle"
  <2>1. \A h \in Helpers : hpc[h] = "idle" /\ orders[h] = << >> /\ prefixes[h] = << >>
    BY <1>1 DEF LocalInv, HelperInv, InStep, Solving, Leaving
  <2>2. hpc' = [h \in Helpers |-> "idle"]
    BY <1>1, <2>1 DEF ReceiveAssignment, ReceiveKill, LocalInv, LocalTypes
  <2>3. CASE ReceiveAssignment
    BY <1>1, <2>1, <2>2, <2>3, NewSolverKeeps DEF ReceiveAssignment
  <2>4. CASE ReceiveKill
    BY <1>1, <2>1, <2>2, <2>4, EndKeeps DEF ReceiveKill, LocalInv, LocalTypes
  <2> QED BY <2>3, <2>4
<1>2. CASE wpc # "idle"
  BY <1>2, SignalKeeps DEF ReceiveAssignment, ReceiveKill, Leaving
<1> QED BY <1>1, <1>2

\* The collective calls: all helpers begin to search, or all are idle again.
LEMMA CollectiveKeeps ==
  ASSUME LocalInv, Collective
  PROVE  LocalInv'
<1>1. CASE WinAllocate
  <2> USE DEF LocalInv
  <2>1. /\ wpc = "allocating" /\ wpc' = "checking" /\ \A h \in Helpers : hpc[h] = "allocating"
        /\ hpc' = [h \in Helpers |-> "searching"]
        /\ UNCHANGED <<plan, phase, request, given, sent, currentSLS, orders, prefixes, sols, search>>
    BY <1>1 DEF WinAllocate, wires
  <2>2. LocalTypes'
    <3>1. hpc' \in [Helpers -> {"idle", "allocating", "freeing", "exit"} \cup Searching]
      BY <2>1 DEF Searching
    <3> QED BY <2>1, <3>1 DEF LocalTypes, Helpers, Solving
  <2>3. ASSUME NEW h \in Helpers PROVE HelperInv(h)'
    <3>1. /\ prefixes[h] = << >> /\ sent = 0 /\ orders[h] = << >> /\ search[h] = NewSearch(phase)
          /\ hpc'[h] = "searching"
      BY <2>1 DEF HelperInv, InStep, Solving, Leaving
    <3>2. LastSent(h)' = 0
      BY <2>1, <3>1, LastSentFacts
    <3>3. /\ search'[h].phase = phase' /\ search'[h].active /\ search'[h].buffer = 0
          /\ search'[h].loaded.id = 0
      BY <2>1, <3>1 DEF NewSearch, NoPrefix
    <3> QED BY <2>1, <3>1, <3>2, <3>3
            DEF HelperInv, InStep, HearsLast, LoadsIt, Searching, Solving, Leaving
  <2>4. InTurn'
    BY <2>1 DEF InTurn
  <2>5. AnswersFitMessage' /\ AnswersOnce'
    BY <2>1, SameAnswers
  <2> QED BY <2>1, <2>2, <2>3, <2>4, <2>5 DEF Helpers
<1>2. CASE WinFree
  <2>1. /\ wpc \in Leaving /\ hpc' = [h \in Helpers |-> "idle"]
        /\ \A h \in Helpers : hpc[h] = "freeing"
        /\ UNCHANGED <<plan, prefixes, sols, search>>
    BY <1>2 DEF WinFree, Leaving
  <2>2. \A h \in Helpers : orders[h] = << >> /\ prefixes[h] = << >>
    BY <2>1 DEF LocalInv, HelperInv, InStep, Solving, Leaving, Searching
  <2>3. CASE wpc = "deleting" /\ NewSolver
    BY <2>1, <2>2, <2>3, NewSolverKeeps
  <2>4. CASE wpc = "ending" /\ wpc' = "done" /\ SendOrders(-1) /\ request' = Null
             /\ UNCHANGED <<phase, given, sent, currentSLS>>
    <3>1. request' \in AnswerType
      BY <2>4 DEF Null, AnswerType
    <3> QED BY <2>1, <2>2, <2>4, <3>1, EndKeeps
  <2> QED BY <1>2, <2>3, <2>4 DEF WinFree
<1> QED BY <1>1, <1>2 DEF Collective

\* A prefix is sent to the helper whose turn it is.
LEMMA SendPrefixKeeps ==
  ASSUME LocalInv, SendPrefix
  PROVE  LocalInv'
<1> USE DEF LocalInv
<1>1. PICK len \in 1 .. 2 :
        prefixes' = [prefixes EXCEPT ![currentSLS] = Append(@, [id |-> sent + 1, len |-> len])]
  BY DEF SendPrefix
<1> DEFINE prefix == [id |-> sent + 1, len |-> len]
<1>2. /\ wpc = "running" /\ wpc' = "prefixing" /\ sent' = sent + 1 /\ sent \in Nat
      /\ UNCHANGED <<plan, phase, request, given, currentSLS, orders, sols, hpc, search>>
  BY DEF SendPrefix, LocalTypes
<1>3. prefix \in PrefixType /\ prefix.id = sent + 1 /\ prefix.len > 0
  BY <1>2 DEF PrefixType
<1>4. /\ currentSLS \in Helpers /\ prefixes[currentSLS] \in Seq(PrefixType)
      /\ prefixes'[currentSLS] = Append(prefixes[currentSLS], prefix)
      /\ \A h \in Helpers \ {currentSLS} : prefixes'[h] = prefixes[h]
  BY <1>1 DEF LocalTypes
<1>5. currentSLS = (sent % plan.numSLSProcesses) + 1
  BY <1>2 DEF InTurn
<1> HIDE DEF prefix
<1>6. /\ Append(prefixes[currentSLS], prefix) \in Seq(PrefixType)
      /\ Append(prefixes[currentSLS], prefix) # << >>
      /\ LastIn(Append(prefixes[currentSLS], prefix)) = prefix
      /\ DOMAIN prefixes[currentSLS] = 1 .. Len(prefixes[currentSLS])
      /\ DOMAIN Append(prefixes[currentSLS], prefix) = 1 .. Len(prefixes[currentSLS]) + 1
      /\ \A k \in 1 .. Len(prefixes[currentSLS]) :
           Append(prefixes[currentSLS], prefix)[k] = prefixes[currentSLS][k]
      /\ Append(prefixes[currentSLS], prefix)[Len(prefixes[currentSLS]) + 1] = prefix
      /\ Len(prefixes[currentSLS]) \in Nat
  BY <1>3, <1>4, AppendFacts DEF LastIn
<1>7. LocalTypes'
  <2>1. prefixes' \in [Helpers -> Seq(PrefixType)]
    BY <1>1, <1>4, <1>6 DEF prefix, LocalTypes
  <2> QED BY <1>2, <2>1 DEF LocalTypes, Helpers, Solving
<1>8. ASSUME NEW h \in Helpers PROVE HelperInv(h)'
  <2>1. CASE h = currentSLS
    <3>1. LastSent(h)' = sent + 1
      BY <1>2, <1>5, <2>1, LastSentFacts
    <3>2. /\ hpc[h] \in Searching /\ orders[h] = << >> /\ search[h].phase = phase
          /\ search[h].active \/ search[h].len > 0
          /\ \A k \in DOMAIN prefixes[h] : prefixes[h][k].len > 0
      BY <1>2 DEF HelperInv, InStep, HearsLast, Solving, Leaving
    <3>3. InStep(h)'
      BY <1>2, <3>2 DEF InStep, Solving
    <3>4. \A k \in DOMAIN prefixes'[h] : prefixes'[h][k].len > 0
      <4>1. prefixes'[h] = Append(prefixes[h], prefix)
        BY <1>4, <2>1
      <4>2. \A k \in DOMAIN prefixes'[h] : k \in DOMAIN prefixes[h] \/ k = Len(prefixes[h]) + 1
        BY <1>6, <2>1, <4>1
      <4> QED
        BY <1>3, <1>6, <2>1, <3>2, <4>1, <4>2
    <3>5. HearsLast(h)'
      BY <1>2, <1>3, <1>4, <1>6, <2>1, <3>1, <3>2, <3>4 DEF HearsLast, Solving, Leaving
    <3>6. LoadsIt(h)'
      BY <1>2 DEF HelperInv, LoadsIt
    <3> QED BY <3>3, <3>5, <3>6 DEF HelperInv
  <2>2. CASE h # currentSLS
    <3>1. LastSent(h)' = LastSent(h) /\ prefixes'[h] = prefixes[h]
      BY <1>2, <1>4, <1>5, <2>2, LastSentFacts
    <3>2. wpc \in Solving /\ wpc' \in Solving /\ wpc \notin {"idle", "allocating", "done"} \cup Leaving
          /\ wpc' \notin Leaving
      BY <1>2 DEF Solving, Leaving
    <3> QED BY <1>2, <3>1, <3>2 DEF HelperInv, InStep, HearsLast, LoadsIt
  <2> QED BY <2>1, <2>2
<1>9. InTurn'
  BY <1>2, <1>5 DEF InTurn
<1>10. AnswersFitMessage' /\ AnswersOnce'
  BY <1>2, SameAnswers
<1> QED BY <1>2, <1>7, <1>8, <1>9, <1>10 DEF Helpers

\* The turn passes to the next helper.
LEMMA PrefixSentKeeps ==
  ASSUME LocalInv, PrefixSent
  PROVE  LocalInv'
<1> USE DEF LocalInv
<1> DEFINE n == plan.numSLSProcesses
<1>1. /\ wpc = "prefixing" /\ wpc' = "running" /\ currentSLS' = (currentSLS % n) + 1
      /\ UNCHANGED <<plan, phase, request, given, sent, orders, prefixes, sols, hpc, search>>
  BY DEF PrefixSent, wires
<1>2. n \in Nat \ {0} /\ Helpers = 1 .. n /\ sent \in Nat
  BY PlanFacts DEF LocalTypes
<1>3. sent > 0 /\ sent - 1 \in Nat /\ currentSLS = ((sent - 1) % n) + 1
  BY <1>1, <1>2 DEF InTurn
<1>4. currentSLS % n = sent % n /\ sent % n \in 0 .. n - 1
  <2>1. (((sent - 1) % n) + 1) % n = ((sent - 1) + 1) % n
    BY <1>2, <1>3, Round
  <2>2. (sent - 1) + 1 = sent
    BY <1>2
  <2>3. sent % n \in 0 .. n - 1
    BY <1>2, Round
  <2> QED BY <1>3, <2>1, <2>2, <2>3
<1>5. LocalTypes'
  <2>1. currentSLS' \in Helpers'
    BY <1>1, <1>2, <1>4 DEF Helpers
  <2> QED BY <1>1, <2>1 DEF LocalTypes, Helpers, Solving
<1>6. \A h \in Helpers : HelperInv(h)'
  BY <1>1, OtherHelper DEF Solving
<1>7. InTurn'
  BY <1>1, <1>4 DEF InTurn
<1>8. AnswersFitMessage' /\ AnswersOnce'
  BY <1>1, SameAnswers
<1> QED BY <1>1, <1>5, <1>6, <1>7, <1>8 DEF Helpers

-----------------------------------------------------------------------------
(* The steps of a helper, and what MPI delivers.                           *)

\* A step that concerns the worker in nothing, and no other helper.
LEMMA OneHelper ==
  ASSUME LocalInv, NEW h \in Helpers, HelperInv(h)',
         UNCHANGED <<plan, wpc, phase, given, sent, currentSLS>>, request' \in AnswerType,
         orders' \in [Helpers -> Seq(Int)], prefixes' \in [Helpers -> Seq(PrefixType)],
         sols' \in [Helpers -> Seq(AnswerType)],
         hpc' \in [Helpers -> {"idle", "allocating", "freeing", "exit"} \cup Searching],
         search' \in [Helpers -> SearchType],
         \A g \in Helpers \ {h} : orders'[g] = orders[g] /\ prefixes'[g] = prefixes[g]
                                  /\ hpc'[g] = hpc[g] /\ search'[g] = search[g]
  PROVE  LocalInv'
<1> USE DEF LocalInv
<1>1. LocalTypes'
  BY DEF LocalTypes, Helpers
<1>2. \A g \in Helpers \ {h} : HelperInv(g)'
  BY OtherHelper
<1>3. InTurn'
  BY DEF InTurn
<1>4. AnswersFitMessage' /\ AnswersOnce'
  BY SameAnswers
<1> QED BY <1>1, <1>2, <1>3, <1>4 DEF Helpers

\* MPI delivers an answer.
LEMMA MatchSolutionKeeps ==
  ASSUME LocalInv, NEW h \in Helpers, MatchSolution(h)
  PROVE  LocalInv'
<1>1. /\ sols[h] \in Seq(AnswerType) /\ sols[h] # << >>
      /\ request' = Head(sols[h]) /\ sols' = [sols EXCEPT ![h] = Tail(sols[h])]
      /\ UNCHANGED <<plan, wpc, phase, given, sent, currentSLS, orders, prefixes, hpc, search>>
  BY DEF MatchSolution, LocalInv, LocalTypes
<1>2. Head(sols[h]) \in AnswerType /\ Tail(sols[h]) \in Seq(AnswerType)
  BY <1>1, TailFacts
<1>3. sols' \in [Helpers -> Seq(AnswerType)]
  BY <1>1, <1>2 DEF LocalInv, LocalTypes
<1>4. HelperInv(h)'
  BY <1>1, OtherHelper DEF LocalInv
<1> QED BY <1>1, <1>2, <1>3, <1>4, OneHelper DEF LocalInv, LocalTypes

\* MPI delivers a prefix: it is the last one sent when there is none behind it,
\* and the one of length 0 when that is the last.
LEMMA MatchPrefixKeeps ==
  ASSUME LocalInv, NEW h \in Helpers, MatchPrefix(h)
  PROVE  LocalInv'
<1> USE DEF LocalInv
<1> DEFINE q == prefixes[h]
           m == Head(q)
           t == [search[h] EXCEPT !.active = FALSE, !.len = m.len,
                                  !.buffer = IF m.len = 0 THEN @ ELSE m.id]
<1>1. /\ q # << >> /\ q \in Seq(PrefixType) /\ hpc[h] \in Searching
      /\ prefixes' = [prefixes EXCEPT ![h] = Tail(q)] /\ search' = [search EXCEPT ![h] = t]
      /\ UNCHANGED <<plan, wpc, phase, request, given, sent, currentSLS, orders, sols, hpc>>
  BY DEF MatchPrefix, workerVars, LocalTypes, Searching
<1>2. /\ m \in PrefixType /\ m = q[1] /\ Tail(q) \in Seq(PrefixType)
      /\ Len(q) \in Nat \ {0} /\ Len(Tail(q)) = Len(q) - 1
      /\ DOMAIN q = 1 .. Len(q) /\ DOMAIN Tail(q) = 1 .. Len(q) - 1
      /\ \A k \in 1 .. Len(q) - 1 : Tail(q)[k] = q[k + 1]
      /\ (Tail(q) = << >>) <=> (Len(q) = 1)
  BY <1>1, TailFacts
<1>3. search[h] \in SearchType
  BY DEF LocalTypes
<1>4. /\ t \in SearchType /\ ~t.active /\ t.len = m.len /\ t.phase = search[h].phase
      /\ m.len # 0 => t.buffer = m.id
  BY <1>2, <1>3 DEF SearchType, PrefixType
<1>5. /\ prefixes' \in [Helpers -> Seq(PrefixType)] /\ search' \in [Helpers -> SearchType]
      /\ prefixes'[h] = Tail(q) /\ search'[h] = t
      /\ \A g \in Helpers \ {h} : prefixes'[g] = prefixes[g] /\ search'[g] = search[g]
  <2> HIDE DEF t, q
  <2> QED BY <1>1, <1>2, <1>4 DEF LocalTypes
<1>6. /\ wpc \in Solving \cup Leaving /\ orders[h] = << >>
      /\ wpc \in Solving => search[h].phase = phase
      /\ wpc \in Solving => \A k \in 1 .. Len(q) : q[k].len > 0
      /\ wpc \in Solving => LastIn(q).id = LastSent(h)
      /\ wpc \in Leaving => LastIn(q) = NoPrefix /\ \A k \in 1 .. Len(q) - 1 : q[k].len > 0
  BY <1>1, <1>2 DEF HelperInv, InStep, HearsLast, Searching, Solving, Leaving
<1>7. LastSent(h)' = LastSent(h)
  BY <1>1, LastSentFacts
<1> HIDE DEF q, m, t
<1>8. /\ Len(q) = 1 => LastIn(q) = m
      /\ Len(q) # 1 => LastIn(Tail(q)) = LastIn(q)
  BY <1>2 DEF LastIn
<1>9. InStep(h)'
  BY <1>1, <1>4, <1>5, <1>6 DEF InStep
<1>10. ASSUME wpc \in Solving
       PROVE  /\ \A k \in DOMAIN Tail(q) : Tail(q)[k].len > 0
              /\ t.len > 0
              /\ Tail(q) = << >> => t.buffer = LastSent(h)
              /\ Tail(q) # << >> => LastIn(Tail(q)).id = LastSent(h)
  <2>1. \A k \in 1 .. Len(q) - 1 : k + 1 \in 1 .. Len(q)
    BY <1>2
  <2>2. m.len > 0
    BY <1>2, <1>6, <1>10
  <2>3. \A k \in DOMAIN Tail(q) : Tail(q)[k].len > 0
    BY <1>2, <1>6, <1>10, <2>1
  <2> QED BY <1>2, <1>4, <1>6, <1>8, <1>10, <2>2, <2>3
<1>11. ASSUME wpc \in Leaving
       PROVE  \/ Tail(q) = << >> /\ t.len = 0
              \/ /\ Tail(q) # << >> /\ LastIn(Tail(q)) = NoPrefix /\ t.len > 0
                 /\ \A k \in 1 .. Len(Tail(q)) - 1 : Tail(q)[k].len > 0
  <2>1. CASE Len(q) = 1
    BY <1>2, <1>4, <1>6, <1>8, <1>11, <2>1 DEF NoPrefix
  <2>2. CASE Len(q) # 1
    <3>1. m.len > 0
      BY <1>2, <1>6, <1>11, <2>2
    <3>2. \A k \in 1 .. Len(Tail(q)) - 1 : k + 1 \in 1 .. Len(q) - 1 /\ Tail(q)[k] = q[k + 1]
      BY <1>2
    <3>3. \A k \in 1 .. Len(Tail(q)) - 1 : Tail(q)[k].len > 0
      BY <1>6, <1>11, <3>2
    <3> QED BY <1>2, <1>4, <1>6, <1>8, <1>11, <2>2, <3>1, <3>3
  <2> QED BY <2>1, <2>2
<1>12. HearsLast(h)'
  BY <1>1, <1>4, <1>5, <1>7, <1>10, <1>11 DEF HearsLast
<1>13. LoadsIt(h)'
  BY <1>4, <1>5 DEF LoadsIt
<1>14. HelperInv(h)'
  BY <1>9, <1>12, <1>13 DEF HelperInv
<1> QED BY <1>1, <1>5, <1>14, OneHelper DEF LocalTypes

\* A helper receives the next problem or the order to end.
LEMMA ReceiveOrderKeeps ==
  ASSUME LocalInv, NEW h \in Helpers, ReceiveOrder(h)
  PROVE  LocalInv'
<1> USE DEF LocalInv
<1>1. /\ hpc[h] = "idle" /\ orders[h] # << >> /\ orders[h] \in Seq(Int)
      /\ orders' = [orders EXCEPT ![h] = Tail(orders[h])]
      /\ UNCHANGED <<plan, wpc, phase, request, given, sent, currentSLS, prefixes, sols>>
  BY DEF ReceiveOrder, workerVars, LocalTypes
<1>2. \/ /\ wpc = "allocating" /\ phase \in Nat /\ orders[h] = <<phase>>
         /\ prefixes[h] = << >> /\ sent = 0
      \/ wpc = "done" /\ orders[h] = <<-1>>
  BY <1>1 DEF HelperInv, InStep, Searching, Leaving
<1>3. /\ Tail(orders[h]) = << >> /\ Tail(orders[h]) \in Seq(Int)
      /\ wpc = "allocating" => Head(orders[h]) = phase
      /\ wpc = "done" => Head(orders[h]) = -1
  <2>1. PICK e \in Int : /\ orders[h] = <<e>>
                         /\ wpc = "allocating" => e = phase
                         /\ wpc = "done" => e = -1
    BY <1>2
  <2>2. Head(<<e>>) = e /\ Tail(<<e>>) = << >>
    BY FirstOrder
  <2> QED BY <2>1, <2>2
<1>4. orders' \in [Helpers -> Seq(Int)] /\ orders'[h] = << >>
      /\ \A g \in Helpers \ {h} : orders'[g] = orders[g]
  BY <1>1, <1>3 DEF LocalTypes
<1>5. CASE wpc = "allocating"
  <2>1. Goto(h, "allocating") /\ search' = [search EXCEPT ![h] = NewSearch(phase)]
    BY <1>2, <1>3, <1>5 DEF ReceiveOrder
  <2>2. NewSearch(phase) \in SearchType
    BY <1>2, <1>5 DEF NewSearch, SearchType, NoPrefix, PrefixType
  <2>3. /\ hpc' \in [Helpers -> {"idle", "allocating", "freeing", "exit"} \cup Searching]
        /\ search' \in [Helpers -> SearchType]
        /\ hpc'[h] = "allocating" /\ search'[h] = NewSearch(phase)
        /\ \A g \in Helpers \ {h} : hpc'[g] = hpc[g] /\ search'[g] = search[g]
    BY <2>1, <2>2 DEF Goto, LocalTypes
  <2>4. NewSearch(phase)' = NewSearch(phase)
    BY <1>1 DEF NewSearch
  <2>5. HelperInv(h)'
    BY <1>1, <1>2, <1>4, <1>5, <2>3, <2>4 DEF HelperInv, InStep, HearsLast, LoadsIt, Searching
  <2> QED BY <1>1, <1>4, <2>3, <2>5, OneHelper DEF LocalTypes
<1>6. CASE wpc = "done"
  <2>1. Goto(h, "exit") /\ search' = search
    BY <1>2, <1>3, <1>6 DEF ReceiveOrder
  <2>2. /\ hpc' \in [Helpers -> {"idle", "allocating", "freeing", "exit"} \cup Searching]
        /\ hpc'[h] = "exit" /\ \A g \in Helpers \ {h} : hpc'[g] = hpc[g]
    BY <2>1 DEF Goto, LocalTypes
  <2>3. HelperInv(h)'
    BY <1>1, <1>6, <2>2 DEF HelperInv, InStep, HearsLast, LoadsIt, Searching
  <2> QED BY <1>1, <1>4, <2>1, <2>2, <2>3, OneHelper DEF LocalTypes
<1> QED BY <1>2, <1>5, <1>6

\* A helper that searches: where the worker is, and what a step of its search
\* has to keep.
LEMMA SearchingHelper ==
  ASSUME LocalInv, NEW h \in Helpers, hpc[h] \in Searching, hpc'[h] \in Searching,
         UNCHANGED <<plan, wpc, phase, sent>>, orders'[h] = orders[h], prefixes'[h] = prefixes[h],
         search'[h].phase = search[h].phase, search'[h].buffer = search[h].buffer,
         search'[h].active = search[h].active, search'[h].len = search[h].len, LoadsIt(h)'
  PROVE  HelperInv(h)'
<1>1. HelperInv(h) /\ LastSent(h)' = LastSent(h)
  BY LastSentFacts DEF LocalInv
<1>2. InStep(h)'
  BY <1>1 DEF HelperInv, InStep, Searching, Solving, Leaving
<1>3. HearsLast(h)'
  BY <1>1 DEF HelperInv, HearsLast
<1> QED BY <1>2, <1>3 DEF HelperInv

\* What loading the prefix does to the search.
LEMMA LoadFacts ==
  ASSUME NEW s \in SearchType
  PROVE  /\ LoadPrefix(s) \in SearchType
         /\ LoadPrefix(s).phase = s.phase /\ LoadPrefix(s).buffer = s.buffer
         /\ LoadPrefix(s).active = s.active /\ LoadPrefix(s).len = s.len
         /\ s.got > 0 \/ s.loaded.id = s.buffer => LoadPrefix(s).loaded.id = s.buffer
BY DEF LoadPrefix, SearchType, PrefixType

\* Some flips: what was tested before has been loaded.
LEMMA FlipKeeps ==
  ASSUME LocalInv, NEW h \in Helpers, Flip(h)
  PROVE  LocalInv'
<1> USE DEF LocalInv
<1>1. /\ hpc[h] = "searching" /\ hpc' = [hpc EXCEPT ![h] = "testing"]
      /\ UNCHANGED <<plan, wpc, phase, request, given, sent, currentSLS, orders, prefixes, sols>>
  BY DEF Flip, Goto, workerVars, wires
<1>2. PICK f \in BOOLEAN : search' = [search EXCEPT ![h].found = f, ![h].got = 0]
  BY Zenon DEF Flip
<1> DEFINE t == [search[h] EXCEPT !.found = f, !.got = 0]
<1>3. search[h] \in SearchType
  BY DEF LocalTypes
<1>4. /\ t \in SearchType /\ t.phase = search[h].phase /\ t.buffer = search[h].buffer
      /\ t.active = search[h].active /\ t.len = search[h].len /\ t.loaded = search[h].loaded
  BY <1>3 DEF SearchType
<1>5. search' = [search EXCEPT ![h] = t]
  BY <1>2
<1> HIDE DEF t
<1>6. /\ search' \in [Helpers -> SearchType] /\ search'[h] = t
      /\ hpc' \in [Helpers -> {"idle", "allocating", "freeing", "exit"} \cup Searching]
      /\ hpc'[h] = "testing"
      /\ \A g \in Helpers \ {h} : hpc'[g] = hpc[g] /\ search'[g] = search[g]
  BY <1>1, <1>4, <1>5 DEF LocalTypes, Searching
<1>7. LoadsIt(h)'
  BY <1>1, <1>4, <1>6 DEF HelperInv, LoadsIt, Searching
<1>8. HelperInv(h)'
  BY <1>1, <1>4, <1>6, <1>7, SearchingHelper DEF Searching
<1> QED BY <1>1, <1>6, <1>8, OneHelper DEF LocalTypes

\* A prefix is noted, or makes the helper leave its search; there is then none
\* behind it.
LEMMA TestPrefixKeeps ==
  ASSUME LocalInv, NEW h \in Helpers, TestPrefix(h)
  PROVE  LocalInv'
<1> USE DEF LocalInv
<1>1. /\ hpc[h] = "testing" /\ ~search[h].active /\ search[h] \in SearchType
      /\ UNCHANGED <<plan, wpc, phase, request, given, sent, currentSLS, orders, prefixes, sols>>
  BY DEF TestPrefix, workerVars, wires, LocalTypes
<1>2. /\ wpc \in Solving \cup Leaving /\ orders[h] = << >>
      /\ wpc \in Solving => search[h].len > 0 /\ search[h].phase = phase
  BY <1>1 DEF HelperInv, InStep, HearsLast, Searching, Solving, Leaving
<1>3. CASE search[h].len = 0
  <2>1. wpc \in Leaving /\ prefixes[h] = << >>
    BY <1>1, <1>2, <1>3 DEF HelperInv, HearsLast, Searching
  <2>2. hpc' = [hpc EXCEPT ![h] = "freeing"] /\ search' = search
    BY <1>3 DEF TestPrefix, Goto
  <2>3. /\ hpc' \in [Helpers -> {"idle", "allocating", "freeing", "exit"} \cup Searching]
        /\ hpc'[h] = "freeing" /\ \A g \in Helpers \ {h} : hpc'[g] = hpc[g]
    BY <2>2 DEF LocalTypes
  <2>4. HelperInv(h)'
    BY <1>1, <1>2, <2>1, <2>3 DEF HelperInv, InStep, HearsLast, LoadsIt, Searching
  <2> QED BY <1>1, <2>2, <2>3, <2>4, OneHelper DEF LocalTypes
<1>4. CASE search[h].len # 0
  <2> DEFINE t == [search[h] EXCEPT !.active = TRUE, !.got = search[h].len]
  <2>1. search' = [search EXCEPT ![h] = t] /\ hpc' = hpc
    BY <1>4 DEF TestPrefix
  <2>2. /\ t \in SearchType /\ t.phase = search[h].phase /\ t.buffer = search[h].buffer
        /\ t.active /\ t.len = search[h].len /\ t.len > 0 /\ t.got > 0
    <3>1. search[h].len \in Nat /\ search[h].len > 0
      BY <1>1, <1>4 DEF SearchType
    <3>2. t \in SearchType
      BY <1>1, <3>1 DEF SearchType
    <3>3. t.active
      BY <1>1, Zenon DEF SearchType
    <3>4. /\ t.phase = search[h].phase /\ t.buffer = search[h].buffer
          /\ t.len = search[h].len /\ t.got = search[h].len
      BY <1>1 DEF SearchType
    <3> QED BY <3>1, <3>2, <3>3, <3>4
  <2> HIDE DEF t
  <2>3. /\ search' \in [Helpers -> SearchType] /\ search'[h] = t
        /\ \A g \in Helpers \ {h} : search'[g] = search[g]
    BY <2>1, <2>2 DEF LocalTypes
  <2>4. LastSent(h)' = LastSent(h)
    BY <1>1, LastSentFacts
  <2>5. InStep(h)'
    BY <1>1, <1>2, <2>1, <2>2, <2>3 DEF InStep, Searching
  <2>6. HearsLast(h)'
    BY <1>1, <1>4, <2>1, <2>2, <2>3, <2>4 DEF HelperInv, HearsLast
  <2>7. LoadsIt(h)'
    BY <1>1, <2>1, <2>2, <2>3 DEF LoadsIt
  <2>8. HelperInv(h)'
    BY <2>5, <2>6, <2>7 DEF HelperInv
  <2> QED BY <1>1, <2>1, <2>3, <2>8, OneHelper DEF LocalTypes
<1> QED BY <1>3, <1>4

\* The end of the loop: what the buffer holds is loaded.
LEMMA LoadKeeps ==
  ASSUME LocalInv, NEW h \in Helpers, NoAnswer(h) \/ AnswerSent(h)
  PROVE  LocalInv'
<1> USE DEF LocalInv
<1> DEFINE t == LoadPrefix(search[h])
<1>1. /\ hpc[h] \in {"testing", "sending"} /\ hpc' = [hpc EXCEPT ![h] = "searching"]
      /\ search' = [search EXCEPT ![h] = t] /\ search[h] \in SearchType
      /\ UNCHANGED <<plan, wpc, phase, request, given, sent, currentSLS, orders, prefixes, sols>>
  BY DEF NoAnswer, AnswerSent, Goto, workerVars, wires, LocalTypes
<1>2. /\ t \in SearchType /\ t.phase = search[h].phase /\ t.buffer = search[h].buffer
      /\ t.active = search[h].active /\ t.len = search[h].len
      /\ search[h].got > 0 \/ search[h].loaded.id = search[h].buffer => t.loaded.id = t.buffer
  BY <1>1, LoadFacts
<1> HIDE DEF t
<1>3. /\ search' \in [Helpers -> SearchType] /\ search'[h] = t
      /\ hpc' \in [Helpers -> {"idle", "allocating", "freeing", "exit"} \cup Searching]
      /\ hpc'[h] = "searching"
      /\ \A g \in Helpers \ {h} : hpc'[g] = hpc[g] /\ search'[g] = search[g]
  BY <1>1, <1>2 DEF LocalTypes, Searching
<1>4. LoadsIt(h)'
  BY <1>1, <1>2, <1>3 DEF HelperInv, LoadsIt, Searching
<1>5. HelperInv(h)'
  BY <1>1, <1>2, <1>3, <1>4, SearchingHelper DEF Searching
<1> QED BY <1>1, <1>3, <1>5, OneHelper DEF LocalTypes

\* An answer is sent to the worker.
LEMMA SendAnswerKeeps ==
  ASSUME LocalInv, NEW h \in Helpers, SendAnswer(h)
  PROVE  LocalInv'
<1> USE DEF LocalInv
<1>1. /\ hpc[h] = "testing" /\ hpc' = [hpc EXCEPT ![h] = "sending"]
      /\ search[h] \in SearchType /\ search[h].phase \in Int
      /\ UNCHANGED <<plan, wpc, phase, request, given, sent, currentSLS, orders, prefixes>>
  BY DEF SendAnswer, Goto, workerVars, LocalTypes, SearchType
<1>2. PICK answer \in Answers(search[h].phase) :
        /\ search' = [search EXCEPT ![h].nogoods = @ \cup {answer}]
        /\ sols' = [sols EXCEPT ![h] = Append(@, answer)]
  BY DEF SendAnswer
<1>3. answer \in AnswerType
  BY <1>1, AnswerFacts
<1> DEFINE t == [search[h] EXCEPT !.nogoods = @ \cup {answer}]
<1>4. /\ t \in SearchType /\ t.phase = search[h].phase /\ t.buffer = search[h].buffer
      /\ t.active = search[h].active /\ t.len = search[h].len
      /\ t.loaded = search[h].loaded /\ t.got = search[h].got
  BY <1>1, <1>3 DEF SearchType
<1>5. search' = [search EXCEPT ![h] = t]
  BY <1>2
<1> HIDE DEF t
<1>6. sols' \in [Helpers -> Seq(AnswerType)]
  <2>1. sols[h] \in Seq(AnswerType)
    BY DEF LocalTypes
  <2>2. Append(sols[h], answer) \in Seq(AnswerType)
    BY <1>3, <2>1, AppendFacts
  <2> QED BY <1>2, <2>2 DEF LocalTypes
<1>7. /\ search' \in [Helpers -> SearchType] /\ search'[h] = t
      /\ hpc' \in [Helpers -> {"idle", "allocating", "freeing", "exit"} \cup Searching]
      /\ hpc'[h] = "sending"
      /\ \A g \in Helpers \ {h} : hpc'[g] = hpc[g] /\ search'[g] = search[g]
  BY <1>1, <1>4, <1>5 DEF LocalTypes, Searching
<1>8. LoadsIt(h)'
  BY <1>1, <1>4, <1>7 DEF HelperInv, LoadsIt, Searching
<1>9. HelperInv(h)'
  BY <1>1, <1>4, <1>7, <1>8, SearchingHelper DEF Searching
<1> QED BY <1>1, <1>6, <1>7, <1>9, OneHelper DEF LocalTypes

-----------------------------------------------------------------------------
(* The theorems.                                                           *)

\* Worker and helpers before the first message of the master.
LEMMA LocalInit == Init => LocalInv
<1> SUFFICES ASSUME Init PROVE LocalInv
  OBVIOUS
<1>1. plan \in Plans /\ plan.numSLSProcesses \in Nat \ {0} /\ 1 \in Helpers
  BY LocalSearchAssumption DEF Init, Helpers
<1>2. NewSearch(-1) \in SearchType
  BY DEF NewSearch, SearchType, NoPrefix, PrefixType
<1>3. LocalTypes
  <2>1. /\ orders \in [Helpers -> Seq(Int)] /\ prefixes \in [Helpers -> Seq(PrefixType)]
        /\ sols \in [Helpers -> Seq(AnswerType)] /\ given \in Seq(AnswerType)
    BY DEF Init
  <2>2. /\ hpc \in [Helpers -> {"idle", "allocating", "freeing", "exit"} \cup Searching]
        /\ search \in [Helpers -> SearchType]
    BY <1>2 DEF Init
  <2>3. request \in AnswerType /\ currentSLS \in Helpers
    BY <1>1 DEF Init, Null, AnswerType
  <2> QED BY <1>1, <2>1, <2>2, <2>3 DEF Init, LocalTypes
<1>4. \A h \in Helpers : HelperInv(h)
  BY DEF Init, HelperInv, InStep, HearsLast, LoadsIt, Searching
<1>5. InTurn
  BY <1>1, Round DEF Init, InTurn
<1>6. AnswersFitMessage /\ AnswersOnce
  BY DEF Init, AnswersFitMessage, AnswersOnce
<1> QED BY <1>3, <1>4, <1>5, <1>6 DEF LocalInv

\* Every step keeps the invariant.
LEMMA LocalStep == LocalInv /\ [Next]_vars => LocalInv'
<1> SUFFICES ASSUME LocalInv, [Next]_vars PROVE LocalInv'
  OBVIOUS
<1>1. CASE MasterStep
  BY <1>1, MasterKeeps, SolvingKeeps DEF MasterStep
<1>2. CASE SolverStep
  BY <1>2, SolvingKeeps, SendPrefixKeeps, PrefixSentKeeps DEF SolverStep
<1>3. CASE Collective
  BY <1>3, CollectiveKeeps
<1>4. ASSUME NEW h \in Helpers, HelperStep(h) PROVE LocalInv'
  BY <1>4, ReceiveOrderKeeps, FlipKeeps, TestPrefixKeeps, LoadKeeps, SendAnswerKeeps DEF HelperStep
<1>5. ASSUME NEW h \in Helpers, Progress(h) PROVE LocalInv'
  BY <1>5, MatchSolutionKeeps, MatchPrefixKeeps DEF Progress
<1>6. CASE UNCHANGED vars
  <2>1. UNCHANGED <<plan, wpc, phase, request, given, sent, currentSLS, orders, prefixes, sols, hpc, search>>
    BY <1>6 DEF vars, workerVars, wires
  <2>2. LocalTypes' /\ InTurn' /\ AnswersFitMessage' /\ AnswersOnce'
    BY <2>1, SameAnswers DEF LocalInv, LocalTypes, InTurn, Helpers
  <2>3. \A h \in Helpers : HelperInv(h)'
    BY <2>1, OtherHelper DEF LocalInv
  <2> QED BY <2>1, <2>2, <2>3 DEF LocalInv, Helpers
<1> QED BY <1>1, <1>2, <1>3, <1>4, <1>5, <1>6 DEF Next, Rest

\* The invariant of a worker and its local searches, from one message of the
\* master to the next (SatSolver.cpp, gnovelty_main.cc).
THEOREM LocalSearchInvariant == Spec => []LocalInv
BY LocalInit, LocalStep, PTL DEF Spec

\* The answers that are reported for a message are answers to it, though those
\* of helpers to the last message may come late (sls__get_solutions).
THEOREM LateAnswersDropped == Spec => []AnswersFitMessage
<1>1. LocalInv => AnswersFitMessage
  BY DEF LocalInv
<1> QED BY <1>1, LocalSearchInvariant, PTL

\* Solver and helpers together report no answer of several literals twice
\* (sls__get_solutions).
THEOREM AnswersReportedOnce == Spec => []AnswersOnce
<1>1. LocalInv => AnswersOnce
  BY DEF LocalInv
<1> QED BY <1>1, LocalSearchInvariant, PTL

\* A helper that goes on with its search and has taken note of every prefix is
\* under the last one it was sent for this message, although it loads what is
\* in the buffer with the length of another message (gnovelty_main.cc).
THEOREM LastPrefixLoaded == Spec => []PrefixUpToDate
<1>1. LocalInv => PrefixUpToDate
  <2> SUFFICES ASSUME LocalInv, NEW h \in Helpers, hpc[h] = "searching",
                      search[h].phase = phase, search[h].active, prefixes[h] = << >>
               PROVE  search[h].loaded.id = LastSent(h)
    BY DEF PrefixUpToDate
  <2>1. wpc \in Solving
    BY DEF LocalInv, HelperInv, InStep, HearsLast, Searching, Solving, Leaving
  <2> QED BY <2>1 DEF LocalInv, HelperInv, HearsLast, LoadsIt, Searching
<1> QED BY <1>1, LocalSearchInvariant, PTL
=============================================================================
