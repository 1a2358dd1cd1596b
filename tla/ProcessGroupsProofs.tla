-------------------------- MODULE ProcessGroupsProofs --------------------------
(***************************************************************************)
(* For any number of processes and of local searches asked for: each       *)
(* process computes its place from its own rank alone, and the places fit: *)
(* every communicator is led by the process that the others expect, has    *)
(* all the helpers it should, and nobody else.                             *)
(*                                                                         *)
(* Two things are needed.  A communicator numbers its members by their     *)
(* keys, so the member with the least key is its rank 0 and the numbering  *)
(* leaves nobody out.  And a process whose group number is n shares it     *)
(* with a full group: those of ranks n * GroupSize + 1 to                  *)
(* (n + 1) * GroupSize, which all exist.                                   *)
(***************************************************************************)
EXTENDS ProcessGroups, FiniteSetTheorems, TLAPS

-----------------------------------------------------------------------------
(* The order of ranks in a communicator                                    *)

Precedes(key, m, r) == key[m] < key[r] \/ (key[m] = key[r] /\ m <= r)
UpTo(S, key, r) == {m \in S : Precedes(key, m, r)}
Place(S, key) == [r \in S |-> Cardinality(UpTo(S, key, r))]

\* Of two processes the one that precedes the other has the lower place.
LEMMA PlacesDiffer ==
  ASSUME NEW S \in SUBSET Int, IsFiniteSet(S), NEW key \in [S -> Int],
         NEW a \in S, NEW b \in S, a # b, Precedes(key, a, b)
  PROVE  Place(S, key)[a] < Place(S, key)[b]
<1>0. \A m \in S : m \in Int /\ key[m] \in Int
  OBVIOUS
<1>1. UpTo(S, key, a) \subseteq UpTo(S, key, b) /\ b \notin UpTo(S, key, a) /\ b \in UpTo(S, key, b)
  <2>1. \A m \in S : Precedes(key, m, a) => Precedes(key, m, b)
    BY <1>0 DEF Precedes
  <2>2. ~Precedes(key, b, a) /\ Precedes(key, b, b)
    BY <1>0 DEF Precedes
  <2> QED
    BY <2>1, <2>2 DEF UpTo
<1>2. IsFiniteSet(UpTo(S, key, b)) /\ Cardinality(UpTo(S, key, b)) \in Nat
  BY FS_Subset, FS_CardinalityType DEF UpTo
<1>3. /\ IsFiniteSet(UpTo(S, key, a)) /\ Cardinality(UpTo(S, key, a)) \in Nat
      /\ Cardinality(UpTo(S, key, a)) <= Cardinality(UpTo(S, key, b))
      /\ Cardinality(UpTo(S, key, a)) # Cardinality(UpTo(S, key, b))
  BY <1>1, <1>2, FS_Subset, FS_CardinalityType
<1> QED
  BY <1>2, <1>3 DEF Place

\* The places are those from 1 to the number of processes, each taken once.
LEMMA PlacesTaken ==
  ASSUME NEW S \in SUBSET Int, IsFiniteSet(S), NEW key \in [S -> Int]
  PROVE  /\ Cardinality(S) \in Nat
         /\ Place(S, key) \in [S -> 1 .. Cardinality(S)]
         /\ \A a, b \in S : Place(S, key)[a] = Place(S, key)[b] => a = b
         /\ \A i \in 1 .. Cardinality(S) : \E r \in S : Place(S, key)[r] = i
<1> DEFINE n == Cardinality(S)
           place == Place(S, key)
<1>1. n \in Nat
  BY FS_CardinalityType
<1>2. ASSUME NEW r \in S
      PROVE  Cardinality(UpTo(S, key, r)) \in 1 .. n
  <2>1. r \in UpTo(S, key, r) /\ UpTo(S, key, r) \in SUBSET S
    BY DEF UpTo, Precedes
  <2>2. IsFiniteSet(UpTo(S, key, r)) /\ Cardinality(UpTo(S, key, r)) \in Nat /\ Cardinality(UpTo(S, key, r)) <= n
    BY <2>1, FS_Subset, FS_CardinalityType
  <2>3. Cardinality(UpTo(S, key, r)) # 0
    BY <2>1, <2>2, FS_EmptySet
  <2> QED
    BY <1>1, <2>2, <2>3
<1>3. place \in [S -> 1 .. n]
  BY <1>2 DEF Place
<1>4. ASSUME NEW a \in S, NEW b \in S, place[a] = place[b]
      PROVE  a = b
  <2>1. place[a] \in Int /\ place[b] \in Int
    BY <1>1, <1>3
  <2>2. a # b => Precedes(key, a, b) \/ Precedes(key, b, a)
    BY DEF Precedes
  <2> QED
    BY <1>4, <2>1, <2>2, PlacesDiffer
<1> HIDE DEF place, n
<1>5. place \in Injection(S, 1 .. n)
  BY <1>3, <1>4, Zenon DEF Injection, IsInjective
<1>6. IsFiniteSet(1 .. n) /\ Cardinality(1 .. n) = n
  BY <1>1, FS_Interval
<1>7. place \in Surjection(S, 1 .. n)
  BY <1>5, <1>6, FS_Injection DEF n
<1>8. \A i \in 1 .. n : \E r \in S : place[r] = i
  BY <1>7 DEF Surjection
<1> QED
  BY <1>1, <1>3, <1>4, <1>8 DEF place, n

\* The ranks of a communicator: the process that precedes all others is the
\* first, and every other rank is that of another member.
LEMMA RanksInOrder ==
  ASSUME NEW S \in SUBSET Int, IsFiniteSet(S), NEW key \in [S -> Int],
         NEW first \in S, \A r \in S : r # first => ~Precedes(key, r, first),
         NEW ranks, ranks = Inverse(Place(S, key), S, 1 .. Cardinality(S))
  PROVE  /\ Len(ranks) = Cardinality(S) /\ Cardinality(S) \in Nat
         /\ ranks[1] = first
         /\ \A i \in 2 .. Len(ranks) : ranks[i] \in S /\ ranks[i] # first
<1> DEFINE n == Cardinality(S)
           place == Place(S, key)
<1>1. /\ n \in Nat /\ place \in [S -> 1 .. n]
      /\ \A a, b \in S : place[a] = place[b] => a = b
      /\ \A i \in 1 .. n : \E r \in S : place[r] = i
  BY PlacesTaken
<1>2. place[first] = 1
  <2>1. first \in Int /\ key[first] \in Int
    OBVIOUS
  <2>2. Precedes(key, first, first)
    BY <2>1 DEF Precedes
  <2>3. UpTo(S, key, first) = {first}
    BY <2>2, Zenon DEF UpTo
  <2> QED
    BY <2>3, FS_Singleton DEF Place
<1>s. ranks = Inverse(place, S, 1 .. n)
  OBVIOUS
<1> HIDE DEF place, n
<1>3. ASSUME NEW i \in 1 .. n
      PROVE  ranks[i] \in S /\ place[ranks[i]] = i
  <2>1. PICK r \in S : place[r] = i
    BY <1>1
  <2>2. i \in Range(place)
    BY <1>1, <2>1 DEF Range
  <2>3. ranks[i] = CHOOSE s \in S : i \in Range(place) => place[s] = i
    BY <1>s DEF Inverse
  <2> QED
    BY <2>1, <2>2, <2>3
<1>4. ranks = [i \in 1 .. n |-> ranks[i]]
  BY <1>s DEF Inverse
<1>5. ranks \in [1 .. n -> S]
  BY <1>3, <1>4
<1>6. Len(ranks) = n
  BY <1>1, <1>5
<1>7. n >= 1 /\ ranks[1] = first
  <2>1. n >= 1 /\ 1 \in 1 .. n
    <3>1. place[first] \in 1 .. n
      BY <1>1
    <3> QED
      BY <1>1, <1>2, <3>1
  <2>2. ranks[1] \in S /\ place[ranks[1]] = 1
    BY <1>3, <2>1
  <2>3. ranks[1] = first
    <3>1. \A a, b \in S : place[a] = place[b] => a = b
      BY <1>1, Zenon
    <3> QED
      BY <1>2, <2>2, <3>1, Zenon
  <2> QED
    BY <2>1, <2>3
<1>8. ASSUME NEW i \in 2 .. n
      PROVE  ranks[i] \in S /\ ranks[i] # first
  BY <1>1, <1>2, <1>3
<1> QED
  BY <1>1, <1>6, <1>7, <1>8 DEF n

-----------------------------------------------------------------------------
(* The groups                                                              *)

\* How many numbers an interval has, and how many elements a pair.
LEMMA IntervalSize ==
  ASSUME NEW a \in Int, NEW n \in Nat
  PROVE  IsFiniteSet(a .. a + n - 1) /\ Cardinality(a .. a + n - 1) = n
<1> DEFINE b == a + n - 1
<1>1. b \in Int /\ (a > b <=> n = 0) /\ b - a + 1 = n
  OBVIOUS
<1> HIDE DEF b
<1>2. IsFiniteSet(a .. b) /\ Cardinality(a .. b) = IF a > b THEN 0 ELSE b - a + 1
  BY <1>1, FS_Interval
<1> QED
  BY <1>1, <1>2 DEF b

LEMMA PairSize ==
  ASSUME NEW a, NEW b, a # b
  PROVE  Cardinality({a} \cup {b}) = 2
<1>1. IsFiniteSet({a}) /\ Cardinality({a}) = 1 /\ b \notin {a}
  BY FS_Singleton
<1> QED
  BY <1>1, FS_AddElement

\* Quotient and remainder, which are the group and the index of a process.
LEMMA Division ==
  ASSUME NEW a \in Nat, NEW b \in Nat \ {0}
  PROVE  /\ a \div b \in Nat /\ a % b \in 0 .. b - 1
         /\ a = (a \div b) * b + (a % b)
OBVIOUS

\* There is one way to write a number as quotient and remainder.
LEMMA DivisionIsUnique ==
  ASSUME NEW b \in Nat \ {0}, NEW q \in Nat, NEW p \in Nat,
         NEW r \in 0 .. b - 1, NEW s \in 0 .. b - 1, q * b + r = p * b + s
  PROVE  q = p /\ r = s
<1>1. ASSUME NEW x \in Nat, NEW y \in Nat, x < y
      PROVE  x * b + b <= y * b
  <2>1. PICK d \in Nat : y = x + 1 + d
    <3>1. y - x - 1 \in Nat /\ y = x + 1 + (y - x - 1)
      BY <1>1
    <3> QED
      BY <3>1, Zenon
  <2>2. y * b = x * b + b + d * b /\ d * b \in Nat
    BY <2>1
  <2> QED
    BY <2>2
<1>2. q * b \in Nat /\ p * b \in Nat
  OBVIOUS
<1>3. ~(q < p) /\ ~(p < q)
  BY <1>1, <1>2
<1>4. q = p
  BY <1>3
<1> QED
  BY <1>2, <1>4

\* What does not change: the arguments of the program and what each process
\* computed from them.
Static ==
  /\ mode \in Mode /\ novelty_number \in NoveltyNumber(mode)
  /\ world_size \in 1 .. MaxWorldSize /\ Starts
  /\ role = [r \in Rank |-> RoleOf(r)] /\ splits = [r \in Rank |-> Splits(r)]

\* The size of a group by the mode, and that there is at least one group.
LEMMA GroupSizes ==
  ASSUME Static
  PROVE  /\ GroupSize \in Nat \ {0} /\ novelty_number \in Nat
         /\ world_size \in Nat /\ world_size >= 1 + GroupSize
         /\ mode = 1 => GroupSize = 1 + novelty_number
         /\ mode = 2 => GroupSize = 2 + novelty_number /\ novelty_number >= 1
         /\ mode = 3 => GroupSize = 2
<1>1. mode \in 0 .. 4 /\ novelty_number \in Nat /\ world_size \in Nat /\ world_size >= 1 + GroupSize
  BY GroupsAssumption DEF Static, Mode, NoveltyNumber, Starts
<1>2. mode = 2 => novelty_number >= 1
  BY GroupsAssumption DEF Static, NoveltyNumber
<1> QED
  BY <1>1, <1>2 DEF GroupSize

\* A process is in a group all of whose ranks exist, at the place its own
\* rank gives it, or beyond if it is left over.
LEMMA GroupIsFull ==
  ASSUME Static, NEW rank \in Rank, rank # 0
  PROVE  /\ GroupOf(rank).number \in Nat /\ GroupOf(rank).index \in Nat
         /\ rank = GroupOf(rank).number * GroupSize + GroupOf(rank).index + 1
         /\ GroupOf(rank).number * GroupSize + GroupSize <= world_size - 1
<1> DEFINE G == GroupSize
           group == (rank - 1) \div G
           index == (rank - 1) % G
<1>1. G \in Nat \ {0} /\ world_size \in Nat /\ world_size >= 1 + G /\ rank \in Nat /\ rank - 1 \in Nat /\ rank <= world_size - 1
  BY GroupSizes DEF Rank
<1>g. GroupOf(rank) = IF (group + 1) * G >= world_size THEN [number |-> group - 1, index |-> index + G]
                      ELSE [number |-> group, index |-> index]
  BY DEF GroupOf, Underfull
<1> HIDE DEF G
<1>2. group \in Nat /\ index \in 0 .. G - 1 /\ rank - 1 = group * G + index
  BY <1>1, Division
<1> HIDE DEF group, index
<1>3. group * G \in Nat /\ (group + 1) * G = group * G + G
  BY <1>1, <1>2
<1>4. CASE (group + 1) * G >= world_size
  <2>1. group # 0
    BY <1>1, <1>3, <1>4
  <2>2. group - 1 \in Nat /\ (group - 1) * G = group * G - G
    BY <1>1, <1>2, <2>1
  <2>3. GroupOf(rank).number = group - 1 /\ GroupOf(rank).index = index + G
    BY <1>g, <1>4
  <2> QED
    BY <1>1, <1>2, <1>3, <2>2, <2>3 DEF G
<1>5. CASE ~((group + 1) * G >= world_size)
  <2>1. GroupOf(rank).number = group /\ GroupOf(rank).index = index
    BY <1>g, <1>5
  <2> QED
    BY <1>1, <1>2, <1>3, <1>5, <2>1 DEF G
<1> QED
  BY <1>4, <1>5

\* Of a full group every process is there and knows its place.
LEMMA GroupIsMade ==
  ASSUME Static, NEW n \in Nat, n * GroupSize + GroupSize <= world_size - 1, NEW j \in 0 .. GroupSize - 1
  PROVE  /\ n * GroupSize + j + 1 \in Rank /\ n * GroupSize + j + 1 > 0
         /\ GroupOf(n * GroupSize + j + 1) = [number |-> n, index |-> j]
<1> DEFINE G == GroupSize
           rank == n * G + j + 1
           group == (rank - 1) \div G
           index == (rank - 1) % G
<1>1. G \in Nat \ {0} /\ world_size \in Nat /\ n * G + G <= world_size - 1
  BY GroupSizes
<1>g. GroupOf(rank) = IF (group + 1) * G >= world_size THEN [number |-> group - 1, index |-> index + G]
                      ELSE [number |-> group, index |-> index]
  BY DEF GroupOf, Underfull
<1>j. j \in 0 .. G - 1
  OBVIOUS
<1> HIDE DEF G
<1>2. n * G \in Nat /\ rank \in Rank /\ rank > 0 /\ rank - 1 \in Nat /\ rank - 1 = n * G + j
  BY <1>1, <1>j DEF Rank
<1> HIDE DEF rank
<1>3. group \in Nat /\ index \in 0 .. G - 1 /\ rank - 1 = group * G + index
  BY <1>1, <1>2, Division
<1> HIDE DEF group, index
<1>4. group = n /\ index = j
  BY <1>1, <1>2, <1>3, <1>j, DivisionIsUnique
<1>5. (group + 1) * G = n * G + G
  BY <1>1, <1>4
<1>6. GroupOf(rank) = [number |-> n, index |-> j]
  BY <1>1, <1>2, <1>4, <1>5, <1>g
<1> QED
  BY <1>2, <1>6 DEF rank, G

-----------------------------------------------------------------------------
(* The communicators                                                       *)

\* The call of a process that makes the communicator, and the communicators
\* that are made, in their order.
CallFor(r, comm) ==
  CASE comm = "mastercommunicator" ->
         SplitUnless(RoleOf(r) \notin {"master", "worker"}, comm, 0,
                     IF r = 0 THEN 0 ELSE IF mode \in {0, 4} THEN r ELSE GroupOf(r).number + 1)
    [] comm = "subcommunicator_sls" ->
         SplitUnless(RoleOf(r) \in {"master", "strengthener"}, comm, GroupOf(r).number, GroupOf(r).index)
    [] comm = "subcommunicator_strengthener" ->
         SplitUnless(RoleOf(r) \in {"master", "gnovelty"}, comm, GroupOf(r).number, GroupOf(r).index)

Comms ==
  CASE mode \in {0, 4} -> <<"mastercommunicator">>
    [] mode = 1 -> <<"subcommunicator_sls", "mastercommunicator">>
    [] mode = 2 -> <<"mastercommunicator", "subcommunicator_sls", "subcommunicator_strengthener">>
    [] mode = 3 -> <<"mastercommunicator", "subcommunicator_strengthener">>

\* The k-th calls of all processes are for one communicator, another for
\* each k.
LEMMA CommsFacts ==
  ASSUME Static
  PROVE  /\ \A r \in Rank : DOMAIN splits[r] = DOMAIN Comms
         /\ \A k \in DOMAIN Comms :
              /\ Comms[k] = "mastercommunicator" \/ (Comms[k] = "subcommunicator_sls" /\ mode \in {1, 2})
                 \/ (Comms[k] = "subcommunicator_strengthener" /\ mode \in {2, 3})
              /\ \A i \in DOMAIN Comms : Comms[i] = Comms[k] => i = k
              /\ \A r \in Rank : splits[r][k] = CallFor(r, Comms[k]) /\ splits[r][k].comm = Comms[k]
<1>1. \A r, c : c = "mastercommunicator" \/ c = "subcommunicator_sls" \/ c = "subcommunicator_strengthener" => CallFor(r, c).comm = c
  BY DEF CallFor, SplitUnless, Split
<1>2. \A r \in Rank : splits[r] = Splits(r)
  BY DEF Static
<1>m. mode \in 0 .. 4
  BY DEF Static, Mode
<1>3. CASE mode \in {0, 4}
  <2>1. Comms = <<"mastercommunicator">>
    BY <1>3 DEF Comms
  <2>2. \A r : Splits(r) = <<CallFor(r, "mastercommunicator")>>
    BY <1>3 DEF Splits, CallFor
  <2> QED
    BY <1>1, <1>2, <2>1, <2>2
<1>4. CASE mode = 1
  <2>1. Comms = <<"subcommunicator_sls", "mastercommunicator">>
    BY <1>4 DEF Comms
  <2>2. \A r : Splits(r) = <<CallFor(r, "subcommunicator_sls"), CallFor(r, "mastercommunicator")>>
    BY <1>4 DEF Splits, CallFor
  <2> QED
    BY <1>1, <1>2, <1>4, <2>1, <2>2
<1>5. CASE mode = 2
  <2>1. Comms = <<"mastercommunicator", "subcommunicator_sls", "subcommunicator_strengthener">>
    BY <1>5 DEF Comms
  <2>2. \A r : Splits(r) = <<CallFor(r, "mastercommunicator"), CallFor(r, "subcommunicator_sls"), CallFor(r, "subcommunicator_strengthener")>>
    BY <1>5 DEF Splits, CallFor
  <2> QED
    BY <1>1, <1>2, <1>5, <2>1, <2>2
<1>6. CASE mode = 3
  <2>1. Comms = <<"mastercommunicator", "subcommunicator_strengthener">>
    BY <1>6 DEF Comms
  <2>2. \A r : Splits(r) = <<CallFor(r, "mastercommunicator"), CallFor(r, "subcommunicator_strengthener")>>
    BY <1>6 DEF Splits, CallFor
  <2> QED
    BY <1>1, <1>2, <1>6, <2>1, <2>2
<1> QED
  BY <1>m, <1>3, <1>4, <1>5, <1>6

\* Who is in the communicator, and how it is ordered, by the calls for it.
MembersOf(rank, comm) == {r \in Rank : CallFor(r, comm).color = CallFor(rank, comm).color}
KeysOf(rank, comm) == [r \in MembersOf(rank, comm) |-> CallFor(r, comm).key]

\* What RanksIn says of the k-th communicator, in these terms.
LEMMA RanksInFacts ==
  ASSUME Static, NEW rank \in Rank, NEW k \in DOMAIN Comms
  PROVE  /\ In(rank, Comms[k]) <=> CallFor(rank, Comms[k]).color # -1
         /\ RanksIn(rank, Comms[k]) =
              Inverse(Place(MembersOf(rank, Comms[k]), KeysOf(rank, Comms[k])),
                      MembersOf(rank, Comms[k]), 1 .. Cardinality(MembersOf(rank, Comms[k])))
<1> DEFINE comm == Comms[k]
           S == MembersOf(rank, comm)
           key == KeysOf(rank, comm)
<1>1. k \in DOMAIN splits[rank] /\ splits[rank][k].comm = comm
      /\ \A i \in DOMAIN splits[rank] : splits[rank][i].comm = comm => i = k
  BY CommsFacts
<1>2. Made(rank, comm) = k
  BY <1>1 DEF Made
<1>3. \A r \in Rank : splits[r][k] = CallFor(r, comm)
  BY CommsFacts
<1>4. In(rank, comm) <=> CallFor(rank, comm).color # -1
  BY <1>1, <1>2, <1>3 DEF In, MPI_UNDEFINED
<1>5. {r \in Rank : splits[r][k].color = splits[rank][k].color} = S
  BY <1>3 DEF MembersOf
<1>6. \A r \in S : r \in Rank /\ key[r] = splits[r][k].key
  BY <1>3 DEF MembersOf, KeysOf
<1> HIDE DEF S, key
<1>7. ASSUME NEW r \in S
      PROVE  UpTo(S, key, r) = {m \in S : splits[m][k].key < splits[r][k].key \/ (splits[m][k].key = splits[r][k].key /\ m <= r)}
  BY <1>6 DEF UpTo, Precedes
<1>8. Place(S, key) = [r \in S |-> Cardinality({m \in S : splits[m][k].key < splits[r][k].key \/ (splits[m][k].key = splits[r][k].key /\ m <= r)})]
  BY <1>7, Zenon DEF Place
<1>9. RanksIn(rank, comm) = Inverse(Place(S, key), S, 1 .. Cardinality(S))
  <2> DEFINE Coloured(i) == {r \in Rank : splits[r][i].color = splits[rank][i].color}
             Keyed(i, T) == [r \in T |-> Cardinality({m \in T :
                              splits[m][i].key < splits[r][i].key \/ (splits[m][i].key = splits[r][i].key /\ m <= r)})]
             Ordered(i, T) == Inverse(Keyed(i, T), T, 1 .. Cardinality(T))
  <2>1. RanksIn(rank, comm) = Ordered(Made(rank, comm), Coloured(Made(rank, comm)))
    BY Zenon DEF RanksIn
  <2>2. Coloured(k) = S
    BY <1>5, Zenon
  <2>3. Keyed(k, S) = Place(S, key)
    BY <1>8, Zenon
  <2>4. Ordered(k, S) = Inverse(Place(S, key), S, 1 .. Cardinality(S))
    <3> HIDE DEF Keyed
    <3> QED
      BY <2>3, Zenon
  <2> HIDE DEF Coloured, Ordered
  <2> QED
    BY <1>2, <2>1, <2>2, <2>4, Zenon
<1> QED
  BY <1>4, <1>9 DEF S, key

\* The member with the least key is rank 0 of the communicator.
LEMMA LeastKeyLeads ==
  ASSUME Static, NEW rank \in Rank, NEW k \in DOMAIN Comms,
         NEW S, S = MembersOf(rank, Comms[k]),
         NEW first \in S, \A r \in S : CallFor(r, Comms[k]).key \in Int,
         \A r \in S : r # first => CallFor(first, Comms[k]).key < CallFor(r, Comms[k]).key
  PROVE  /\ IsFiniteSet(S)
         /\ Len(RanksIn(rank, Comms[k])) = Cardinality(S) /\ Cardinality(S) \in Nat
         /\ RanksIn(rank, Comms[k])[1] = first
         /\ \A i \in 2 .. Len(RanksIn(rank, Comms[k])) :
              RanksIn(rank, Comms[k])[i] \in S /\ RanksIn(rank, Comms[k])[i] # first
<1> DEFINE key == KeysOf(rank, Comms[k])
<1>1. IsFiniteSet(Rank) /\ Rank \subseteq Int
  BY GroupSizes, FS_Interval DEF Rank
<1>2. S \subseteq Rank
  BY DEF MembersOf
<1>3. S \in SUBSET Int /\ IsFiniteSet(S)
  BY <1>1, <1>2, FS_Subset
<1>4. key \in [S -> Int] /\ \A r \in S : key[r] = CallFor(r, Comms[k]).key
  BY DEF KeysOf
<1>5. RanksIn(rank, Comms[k]) = Inverse(Place(S, key), S, 1 .. Cardinality(S))
  BY RanksInFacts
<1> HIDE DEF key
<1>6. ASSUME NEW r \in S, r # first
      PROVE  ~Precedes(key, r, first)
  <2>1. key[first] \in Int /\ key[r] \in Int /\ key[first] < key[r]
    BY <1>4, <1>6
  <2> QED
    BY <2>1 DEF Precedes
<1> QED
  BY <1>3, <1>4, <1>5, <1>6, RanksInOrder

\* The role of a process by its index in its group.
LEMMA Roles ==
  ASSUME Static
  PROVE  /\ 0 \in Rank /\ RoleOf(0) = "master"
         /\ \A r \in Rank : r # 0 =>
              /\ r > 0
              /\ GroupOf(r).index = 0 => RoleOf(r) = "worker"
              /\ GroupOf(r).index = 1 /\ mode \in {2, 3} => RoleOf(r) = "strengthener"
              /\ GroupOf(r).index # 0 /\ (GroupOf(r).index # 1 \/ mode \notin {2, 3}) => RoleOf(r) = "gnovelty"
<1>1. 0 \in Rank /\ \A r \in Rank : r # 0 => r > 0 /\ r \in Nat
  BY GroupSizes DEF Rank
<1>2. RoleOf(0) = "master"
  BY DEF RoleOf
<1>3. ASSUME NEW r \in Rank, r # 0
      PROVE  /\ GroupOf(r).index = 0 => RoleOf(r) = "worker"
             /\ GroupOf(r).index = 1 /\ mode \in {2, 3} => RoleOf(r) = "strengthener"
             /\ GroupOf(r).index # 0 /\ (GroupOf(r).index # 1 \/ mode \notin {2, 3}) => RoleOf(r) = "gnovelty"
  BY <1>1, <1>3 DEF RoleOf
<1> QED
  BY <1>1, <1>2, <1>3

\* The master leads the workers, at least one.
LEMMA MasterCommunicator ==
  ASSUME Static, NEW rank \in Rank, NEW k \in DOMAIN Comms, Comms[k] = "mastercommunicator",
         NEW ranks, ranks = RanksIn(rank, Comms[k])
  PROVE  /\ ~In(rank, Comms[k]) => RoleOf(rank) \notin {"master", "worker"}
         /\ In(rank, Comms[k]) =>
              /\ RoleOf(ranks[1]) = "master" /\ ranks[1] \in Rank
              /\ \A i \in 2 .. Len(ranks) : ranks[i] \in Rank /\ RoleOf(ranks[i]) = "worker"
              /\ Len(ranks) > 1
<1> DEFINE S == MembersOf(rank, Comms[k])
<1>1. \A r \in Rank : CallFor(r, Comms[k]).color = IF RoleOf(r) \in {"master", "worker"} THEN 0 ELSE -1
  BY DEF CallFor, SplitUnless, Split, MPI_UNDEFINED
<1>2. In(rank, Comms[k]) <=> RoleOf(rank) \in {"master", "worker"}
  BY <1>1, RanksInFacts
<1>3. SUFFICES ASSUME In(rank, Comms[k])
               PROVE  /\ RoleOf(ranks[1]) = "master" /\ ranks[1] \in Rank
                      /\ \A i \in 2 .. Len(ranks) : ranks[i] \in Rank /\ RoleOf(ranks[i]) = "worker"
                      /\ Len(ranks) > 1
  BY <1>2
<1>4. S = {r \in Rank : RoleOf(r) \in {"master", "worker"}}
  BY <1>1, <1>2, <1>3 DEF MembersOf
<1>5. 0 \in S /\ CallFor(0, Comms[k]).key = 0
  BY <1>4, Roles DEF CallFor, SplitUnless, Split
<1>6. ASSUME NEW r \in S, r # 0
      PROVE  CallFor(r, Comms[k]).key \in Int /\ 0 < CallFor(r, Comms[k]).key
  <2>1. r \in Rank /\ r \in Nat /\ r > 0 /\ GroupOf(r).number \in Nat /\ RoleOf(r) \in {"master", "worker"}
    BY <1>4, <1>6, Roles, GroupIsFull DEF Rank
  <2>2. CallFor(r, Comms[k]).key = IF mode \in {0, 4} THEN r ELSE GroupOf(r).number + 1
    BY <2>1 DEF CallFor, SplitUnless, Split
  <2> QED
    BY <2>1, <2>2
<1>7. 1 \in S
  <2>1. GroupSize \in Nat \ {0} /\ world_size \in Nat /\ world_size >= 1 + GroupSize
    BY GroupSizes
  <2>2. 0 * GroupSize = 0 /\ 0 * GroupSize + 0 + 1 = 1 /\ 0 \in 0 .. GroupSize - 1 /\ 0 * GroupSize + GroupSize <= world_size - 1
    BY <2>1
  <2>3. 1 \in Rank /\ GroupOf(1) = [number |-> 0, index |-> 0]
    BY <2>2, GroupIsMade
  <2> QED
    BY <1>4, <2>3, Roles
<1> HIDE DEF S
<1>8. \A r \in S : r # 0 => RoleOf(r) = "worker"
  <2>1. ASSUME NEW r \in S, r # 0
        PROVE  RoleOf(r) # "master"
    BY <1>4, <2>1, Roles
  <2> QED
    BY <1>4, <2>1
<1>9. /\ IsFiniteSet(S) /\ Len(ranks) = Cardinality(S) /\ Cardinality(S) \in Nat /\ ranks[1] = 0
      /\ \A i \in 2 .. Len(ranks) : ranks[i] \in S /\ ranks[i] # 0
  <2>1. \A r \in S : CallFor(r, Comms[k]).key \in Int
    BY <1>5, <1>6
  <2>2. \A r \in S : r # 0 => CallFor(0, Comms[k]).key < CallFor(r, Comms[k]).key
    BY <1>5, <1>6
  <2> QED
    BY <1>5, <2>1, <2>2, LeastKeyLeads DEF S
<1>10. Len(ranks) > 1
  <2> DEFINE T == {0} \cup {1}
  <2>1. Cardinality(T) = 2
    <3>1. 0 # 1
      OBVIOUS
    <3> QED
      BY <3>1, PairSize, Zenon
  <2>2. T \in SUBSET S
    BY <1>5, <1>7
  <2> HIDE DEF T
  <2>3. Cardinality(T) <= Cardinality(S)
    BY <1>9, <2>2, FS_Subset
  <2> QED
    BY <1>9, <2>1, <2>3
<1> QED
  BY <1>4, <1>8, <1>9, <1>10, Roles

\* Who has the number of a group and a place in it below its size.
LEMMA PlaceInGroup ==
  ASSUME Static, NEW n \in Nat, n * GroupSize + GroupSize <= world_size - 1,
         NEW r \in (n * GroupSize + 1) .. (n * GroupSize + GroupSize)
  PROVE  /\ r \in Rank /\ r # 0
         /\ GroupOf(r).number = n /\ GroupOf(r).index = r - n * GroupSize - 1
<1> DEFINE j == r - n * GroupSize - 1
<1>1. GroupSize \in Nat \ {0} /\ n * GroupSize \in Nat
  BY GroupSizes
<1>2. j \in 0 .. GroupSize - 1 /\ n * GroupSize + j + 1 = r
  BY <1>1
<1> HIDE DEF j
<1>3. r \in Rank /\ r > 0 /\ GroupOf(r) = [number |-> n, index |-> j]
  BY <1>2, GroupIsMade
<1> QED
  BY <1>1, <1>3 DEF j

\* A worker leads its local searches, as many as asked for or more.
LEMMA LocalSearchCommunicator ==
  ASSUME Static, NEW rank \in Rank, NEW k \in DOMAIN Comms, Comms[k] = "subcommunicator_sls",
         NEW ranks, ranks = RanksIn(rank, Comms[k])
  PROVE  /\ ~In(rank, Comms[k]) => RoleOf(rank) \notin {"worker", "gnovelty"}
         /\ In(rank, Comms[k]) =>
              /\ RoleOf(ranks[1]) = "worker" /\ ranks[1] \in Rank
              /\ \A i \in 2 .. Len(ranks) : ranks[i] \in Rank /\ RoleOf(ranks[i]) = "gnovelty"
              /\ Len(ranks) > novelty_number
<1> DEFINE S == MembersOf(rank, Comms[k])
           n == GroupOf(rank).number
           first == n * GroupSize + 1
           Out(r) == RoleOf(r) \in {"master", "strengthener"}
<1>m. mode \in {1, 2}
  BY CommsFacts
<1>1. \A r \in Rank : /\ CallFor(r, Comms[k]).color = IF Out(r) THEN -1 ELSE GroupOf(r).number
                      /\ ~Out(r) => CallFor(r, Comms[k]).key = GroupOf(r).index
  BY DEF CallFor, SplitUnless, Split, MPI_UNDEFINED
<1>2. \A r \in Rank : ~Out(r) => r # 0 /\ GroupOf(r).number \in Nat /\ GroupOf(r).index \in Nat
  BY Roles, GroupIsFull
<1>3. \A r \in Rank : r # 0 /\ ~Out(r) => RoleOf(r) = (IF GroupOf(r).index = 0 THEN "worker" ELSE "gnovelty")
  BY Roles, GroupIsFull
<1>4. In(rank, Comms[k]) <=> ~Out(rank)
  <2>1. In(rank, Comms[k]) <=> CallFor(rank, Comms[k]).color # -1
    BY RanksInFacts
  <2> QED
    BY <1>1, <1>2, <2>1
<1>5. SUFFICES ASSUME ~Out(rank)
               PROVE  /\ RoleOf(ranks[1]) = "worker" /\ ranks[1] \in Rank
                      /\ \A i \in 2 .. Len(ranks) : ranks[i] \in Rank /\ RoleOf(ranks[i]) = "gnovelty"
                      /\ Len(ranks) > novelty_number
  BY <1>4
<1>6. S = {r \in Rank : ~Out(r) /\ GroupOf(r).number = n}
  BY <1>1, <1>2, <1>5 DEF MembersOf
<1>g. /\ GroupSize \in Nat \ {0} /\ novelty_number \in Nat /\ n \in Nat /\ n * GroupSize \in Nat
      /\ n * GroupSize + GroupSize <= world_size - 1
      /\ (mode = 1 /\ GroupSize = 1 + novelty_number) \/ (mode = 2 /\ GroupSize = 2 + novelty_number /\ novelty_number >= 1)
  BY <1>m, <1>2, <1>5, GroupSizes, GroupIsFull
<1>7. ASSUME NEW r \in (n * GroupSize + 1) .. (n * GroupSize + GroupSize), mode = 1 \/ r # n * GroupSize + 2
      PROVE  r \in S /\ GroupOf(r).index = r - n * GroupSize - 1
  <2>1. r \in Rank /\ r # 0 /\ GroupOf(r).number = n /\ GroupOf(r).index = r - n * GroupSize - 1
    BY <1>g, PlaceInGroup
  <2>2. ~(GroupOf(r).index = 1 /\ mode \in {2, 3})
    BY <1>g, <1>7, <2>1
  <2>3. RoleOf(r) = "worker" \/ RoleOf(r) = "gnovelty"
    BY <2>1, <2>2, Roles
  <2> QED
    BY <1>6, <2>1, <2>3
<1>8. first \in S /\ GroupOf(first).index = 0
  <2>1. first \in (n * GroupSize + 1) .. (n * GroupSize + GroupSize) /\ first # n * GroupSize + 2 /\ first - n * GroupSize - 1 = 0
    BY <1>g
  <2> QED
    BY <1>7, <2>1
<1>9. ASSUME NEW r \in S, r # first
      PROVE  GroupOf(r).index \in Nat /\ GroupOf(r).index # 0
  <2>1. r \in Rank /\ r # 0 /\ GroupOf(r).number = n /\ GroupOf(r).index \in Nat
    BY <1>2, <1>6
  <2>2. r = n * GroupSize + GroupOf(r).index + 1
    BY <2>1, GroupIsFull
  <2> QED
    BY <1>g, <1>9, <2>1, <2>2
<1>10. \A r \in S : r \in Rank /\ r # 0 /\ ~Out(r)
  BY <1>2, <1>6
<1> HIDE DEF S, first, Out
<1>11. /\ IsFiniteSet(S) /\ Len(ranks) = Cardinality(S) /\ Cardinality(S) \in Nat /\ ranks[1] = first
       /\ \A i \in 2 .. Len(ranks) : ranks[i] \in S /\ ranks[i] # first
  <2>1. \A r \in S : CallFor(r, Comms[k]).key = GroupOf(r).index
    BY <1>1, <1>10
  <2>2. \A r \in S : CallFor(r, Comms[k]).key \in Int
    BY <1>8, <1>9, <2>1
  <2>3. \A r \in S : r # first => CallFor(first, Comms[k]).key < CallFor(r, Comms[k]).key
    BY <1>8, <1>9, <2>1
  <2> QED
    BY <1>8, <2>2, <2>3, LeastKeyLeads DEF S
<1>12. Cardinality(S) > novelty_number
  <2>1. CASE mode = 1
    <3> DEFINE I == (n * GroupSize + 1) .. (n * GroupSize + GroupSize)
    <3>1. I \in SUBSET S
      BY <1>7, <2>1
    <3>2. Cardinality(I) = novelty_number + 1
      BY <1>g, <2>1, FS_Interval
    <3>3. Cardinality(I) <= Cardinality(S)
      BY <1>11, <3>1, FS_Subset
    <3> HIDE DEF I
    <3> QED
      BY <1>11, <1>g, <3>2, <3>3
  <2>2. CASE mode = 2
    <3> DEFINE I == (n * GroupSize + 3) .. (n * GroupSize + GroupSize)
    <3>1. I \in SUBSET S
      BY <1>7, <1>g
    <3>2. IsFiniteSet(I) /\ Cardinality(I) = novelty_number
      <4>1. n * GroupSize + 3 \in Int /\ n * GroupSize + GroupSize = (n * GroupSize + 3) + novelty_number - 1
        BY <1>g, <2>2
      <4> QED
        BY <1>g, <4>1, IntervalSize
    <3>3. first \notin I
      BY <1>g DEF first
    <3> HIDE DEF I
    <3>4. Cardinality(I \cup {first}) = novelty_number + 1
      BY <3>2, <3>3, FS_AddElement
    <3>5. Cardinality(I \cup {first}) <= Cardinality(S)
      <4>1. I \cup {first} \in SUBSET S
        BY <1>8, <3>1
      <4> QED
        BY <1>11, <4>1, FS_Subset
    <3> QED
      BY <1>11, <1>g, <3>4, <3>5
  <2> QED
    BY <1>g, <2>1, <2>2
<1> QED
  BY <1>3, <1>8, <1>9, <1>10, <1>11, <1>12

\* A worker and its strengthener are two.
LEMMA StrengthenerCommunicator ==
  ASSUME Static, NEW rank \in Rank, NEW k \in DOMAIN Comms, Comms[k] = "subcommunicator_strengthener",
         NEW ranks, ranks = RanksIn(rank, Comms[k])
  PROVE  /\ ~In(rank, Comms[k]) => RoleOf(rank) \notin {"worker", "strengthener"}
         /\ In(rank, Comms[k]) =>
              /\ RoleOf(ranks[1]) = "worker" /\ ranks[1] \in Rank
              /\ \A i \in 2 .. Len(ranks) : ranks[i] \in Rank /\ RoleOf(ranks[i]) = "strengthener"
              /\ Len(ranks) = 2
<1> DEFINE S == MembersOf(rank, Comms[k])
           n == GroupOf(rank).number
           first == n * GroupSize + 1
           Out(r) == RoleOf(r) \in {"master", "gnovelty"}
<1>m. mode \in {2, 3}
  BY CommsFacts
<1>1. \A r \in Rank : /\ CallFor(r, Comms[k]).color = IF Out(r) THEN -1 ELSE GroupOf(r).number
                      /\ ~Out(r) => CallFor(r, Comms[k]).key = GroupOf(r).index
  BY DEF CallFor, SplitUnless, Split, MPI_UNDEFINED
<1>2. \A r \in Rank : ~Out(r) => r # 0 /\ GroupOf(r).number \in Nat /\ GroupOf(r).index \in Nat
  BY Roles, GroupIsFull
<1>3. \A r \in Rank : r # 0 => /\ ~Out(r) <=> GroupOf(r).index \in {0, 1}
                               /\ GroupOf(r).index = 0 => RoleOf(r) = "worker"
                               /\ GroupOf(r).index = 1 => RoleOf(r) = "strengthener"
  BY <1>m, Roles, GroupIsFull
<1>4. In(rank, Comms[k]) <=> ~Out(rank)
  <2>1. In(rank, Comms[k]) <=> CallFor(rank, Comms[k]).color # -1
    BY RanksInFacts
  <2> QED
    BY <1>1, <1>2, <2>1
<1>5. SUFFICES ASSUME ~Out(rank)
               PROVE  /\ RoleOf(ranks[1]) = "worker" /\ ranks[1] \in Rank
                      /\ \A i \in 2 .. Len(ranks) : ranks[i] \in Rank /\ RoleOf(ranks[i]) = "strengthener"
                      /\ Len(ranks) = 2
  BY <1>4
<1>6. S = {r \in Rank : ~Out(r) /\ GroupOf(r).number = n}
  BY <1>1, <1>2, <1>5 DEF MembersOf
<1>g. /\ GroupSize \in Nat \ {0} /\ n \in Nat /\ n * GroupSize \in Nat
      /\ n * GroupSize + GroupSize <= world_size - 1 /\ GroupSize >= 2
  BY <1>m, <1>2, <1>5, GroupSizes, GroupIsFull
<1>7. ASSUME NEW r \in {first, first + 1}
      PROVE  r \in S /\ GroupOf(r).index = r - first
  <2>1. r \in (n * GroupSize + 1) .. (n * GroupSize + GroupSize) /\ r - n * GroupSize - 1 = r - first /\ r - first \in {0, 1}
    <3>1. r = n * GroupSize + 1 \/ r = n * GroupSize + 2
      BY <1>g, <1>7
    <3> QED
      BY <1>g, <3>1
  <2>2. r \in Rank /\ r # 0 /\ GroupOf(r).number = n /\ GroupOf(r).index = r - n * GroupSize - 1
    BY <1>g, <2>1, PlaceInGroup
  <2> QED
    BY <1>3, <1>6, <2>1, <2>2
<1>8. ASSUME NEW r \in S
      PROVE  r \in {first, first + 1} /\ r \in Rank /\ r # 0 /\ ~Out(r)
  <2>1. r \in Rank /\ r # 0 /\ ~Out(r) /\ GroupOf(r).number = n /\ GroupOf(r).index \in {0, 1}
    BY <1>2, <1>3, <1>6
  <2>2. r = n * GroupSize + GroupOf(r).index + 1
    BY <2>1, GroupIsFull
  <2> QED
    BY <1>g, <2>1, <2>2
<1>f. first \in Nat /\ first - first = 0 /\ first + 1 - first = 1 /\ first + 1 # first
  BY <1>g
<1> HIDE DEF S, first, Out
<1>9. S = {first} \cup {first + 1}
  BY <1>7, <1>8
<1>10. GroupOf(first).index = 0 /\ GroupOf(first + 1).index = 1
  BY <1>7, <1>f
<1>11. /\ Len(ranks) = Cardinality(S) /\ ranks[1] = first
       /\ \A i \in 2 .. Len(ranks) : ranks[i] \in S /\ ranks[i] # first
  <2>1. CallFor(first, Comms[k]).key = 0 /\ CallFor(first + 1, Comms[k]).key = 1
    BY <1>1, <1>8, <1>9, <1>10
  <2>2. first \in S /\ \A r \in S : CallFor(r, Comms[k]).key \in Int
    BY <1>9, <2>1
  <2>3. \A r \in S : r # first => CallFor(first, Comms[k]).key < CallFor(r, Comms[k]).key
    BY <1>9, <2>1
  <2> QED
    BY <2>2, <2>3, LeastKeyLeads DEF S
<1>12. Cardinality(S) = 2
  BY <1>f, <1>9, PairSize
<1>13. first \in Rank /\ first # 0 /\ first + 1 \in Rank /\ first + 1 # 0
  BY <1>8, <1>9
<1> QED
  BY <1>3, <1>9, <1>10, <1>11, <1>12, <1>13

-----------------------------------------------------------------------------
(* The theorem                                                             *)

\* No process computes its place again.
LEMMA StaticInvariant == Spec => []Static
<1>1. Init => Static
  BY DEF Init, Static
<1>2. Static /\ [Next]_vars => Static'
  <2> SUFFICES ASSUME Static, [Next]_vars
               PROVE  Static'
    OBVIOUS
  <2>1. UNCHANGED arguments
    BY DEF Next, Step, CommSplit, Leave, Finalized, vars
  <2>2. mode' = mode /\ world_size' = world_size /\ novelty_number' = novelty_number /\ role' = role /\ splits' = splits
    BY <2>1 DEF arguments
  <2>3. GroupSize' = GroupSize /\ Rank' = Rank
    BY <2>2 DEF GroupSize, Rank
  <2>4. \A r : GroupOf(r)' = GroupOf(r)
    BY <2>2, <2>3 DEF GroupOf, Underfull
  <2>5. \A r : RoleOf(r)' = RoleOf(r)
    BY <2>2, <2>4 DEF RoleOf
  <2>6. \A r : Splits(r)' = Splits(r)
    BY <2>2, <2>4, <2>5 DEF Splits
  <2>7. Starts'
    BY <2>2, <2>3 DEF Static, Starts
  <2>8. role' = [r \in Rank' |-> RoleOf(r)'] /\ splits' = [r \in Rank' |-> Splits(r)']
    BY <2>2, <2>3, <2>5, <2>6 DEF Static
  <2> QED
    BY <2>2, <2>7, <2>8 DEF Static
<1> QED
  BY <1>1, <1>2, PTL DEF Spec

\* Whatever the mode, the number of processes and of local searches: every
\* communicator that a process is in when it enters its loop is led by the
\* master or a worker and has, besides, that leader's helpers, all it should
\* have; and no leader or helper is left out (mode_2_execute and the others).
THEOREM GroupsAreComplete == Spec => []GroupsComplete
<1>1. Static => GroupsComplete
  <2> SUFFICES ASSUME Static, NEW rank \in Rank, NEW k \in DOMAIN splits[rank]
               PROVE  LET comm == splits[rank][k].comm
                          ranks == RanksIn(rank, comm)
                      IN  IF ~In(rank, comm) THEN role[rank] \notin {Leads(comm), Helps[comm]}
                          ELSE /\ role[ranks[1]] = Leads(comm)
                               /\ \A i \in 2 .. Len(ranks) : role[ranks[i]] = Helps[comm]
                               /\ Len(ranks) > (IF comm = "subcommunicator_sls" THEN novelty_number ELSE 1)
                               /\ comm = "subcommunicator_strengthener" => Len(ranks) = 2
    BY DEF GroupsComplete
  <2>1. k \in DOMAIN Comms /\ splits[rank][k].comm = Comms[k]
        /\ Comms[k] \in {"mastercommunicator", "subcommunicator_sls", "subcommunicator_strengthener"}
    BY CommsFacts
  <2>2. \A r \in Rank : role[r] = RoleOf(r)
    BY DEF Static
  <2>3. CASE Comms[k] = "mastercommunicator"
    <3>1. Leads(Comms[k]) = "master" /\ Helps[Comms[k]] = "worker"
      BY <2>3 DEF Leads, Helps
    <3> QED
      BY <2>1, <2>2, <2>3, <3>1, MasterCommunicator
  <2>4. CASE Comms[k] = "subcommunicator_sls"
    <3>1. Leads(Comms[k]) = "worker" /\ Helps[Comms[k]] = "gnovelty"
      BY <2>4 DEF Leads, Helps
    <3> QED
      BY <2>1, <2>2, <2>4, <3>1, LocalSearchCommunicator
  <2>5. CASE Comms[k] = "subcommunicator_strengthener"
    <3>1. Leads(Comms[k]) = "worker" /\ Helps[Comms[k]] = "strengthener"
      BY <2>5 DEF Leads, Helps
    <3> QED
      BY <2>1, <2>2, <2>5, <3>1, StrengthenerCommunicator
  <2> QED
    BY <2>1, <2>3, <2>4, <2>5
<1> QED
  BY <1>1, StaticInvariant, PTL
=============================================================================
