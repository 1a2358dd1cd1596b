------------------------- MODULE StrengtheningProofs -------------------------
(***************************************************************************)
(* The worker's and the strengthener's buffers of clauses, for rings and   *)
(* work sets of any size and any number of messages: what is read from a   *)
(* buffer is a whole clause, however the rings have wrapped around; and    *)
(* what the worker reads shortens the clause that it was made from.        *)
(***************************************************************************)
EXTENDS Strengthening, SequenceTheorems, WellFoundedInduction, TLAPS

-----------------------------------------------------------------------------
(* Remainders, as they occur in a ring.                                    *)

LEMMA Remainders ==
  ASSUME NEW n \in Nat \ {0}, NEW x \in Int
  PROVE  /\ x \in 0 .. n - 1 => x % n = x
         /\ x \in -n .. -1 => x % n = x + n
         /\ x \in n .. n + n - 1 => x % n = x - n
<1>1. \A p \in Int, t \in 0 .. n - 1 : (n * p + t) % n = t
  BY SMT
<1>2. ASSUME x \in 0 .. n - 1 PROVE x % n = x
  <2>1. (n * 0 + x) % n = x
    BY <1>1, <1>2
  <2> QED
    BY <2>1
<1>3. ASSUME x \in -n .. -1 PROVE x % n = x + n
  <2>1. (n * (-1) + (x + n)) % n = x + n
    BY <1>1, <1>3
  <2> QED
    BY <2>1
<1>4. ASSUME x \in n .. n + n - 1 PROVE x % n = x - n
  <2>1. (n * 1 + (x - n)) % n = x - n
    BY <1>1, <1>4
  <2> QED
    BY <2>1
<1> QED
  BY <1>2, <1>3, <1>4

\* A set of natural numbers has a least element.
LEMMA LeastNatural ==
  ASSUME NEW S \in SUBSET Nat, S # {}
  PROVE  \E k \in S : \A j \in S : k <= j
<1> DEFINE R == OpToRel(<, Nat)
<1>1. IsWellFoundedOn(R, Nat)
  BY NatLessThanWellFounded
<1>2. \A j, k \in Nat : j < k => <<j, k>> \in R
  BY DEF OpToRel
<1> HIDE DEF R
<1>3. PICK k \in S : \A j \in S : ~ (<<j, k>> \in R)
  BY <1>1, WFMin
<1>4. ASSUME NEW j \in S PROVE k <= j
  <2>1. j < k => <<j, k>> \in R
    BY <1>2
  <2> QED
    BY <1>3, <2>1
<1> QED
  BY <1>4

-----------------------------------------------------------------------------
(* Clauses in a ring.                                                      *)

Offset == To!litPoolStorageOffset

LEMMA OffsetFacts == Offset \in Nat /\ Offset > 0
  BY SMT DEF Offset, To!litPoolStorageOffset

Cell == 0 .. sizeOut - 1
Cells == [Cell -> Int]

\* A clause that is pushed: literals, and the two positions.
Clauses ==
  {c \in Seq(Int) : /\ Len(c) >= 3 /\ \A k \in 1 .. Len(c) - 2 : c[k] # 0
                    /\ c[Len(c) - 1] = 0 /\ c[Len(c)] \in Nat}

\* After each zero among the first n cells there is a literal and there are
\* two positions, unless it is the last; and it comes after two positions.
Ruled(d, n) ==
  /\ n > 0 => d[n - 1] = 0
  /\ \A z \in 0 .. n - 1 : d[z] = 0 =>
       /\ z < n - 1 => z + 4 <= n - 1 /\ d[z + 1] # 0 /\ d[z + 2] # 0 /\ d[z + 3] # 0
       /\ z >= 1 => d[z - 1] >= Offset
       /\ z >= 2 => d[z - 2] = Offset
Starts(d, n) == n > 0 => n >= 4 /\ d[0] # 0 /\ d[1] # 0 /\ d[2] # 0

\* The cells that were written since the ring last wrapped around, or all if
\* that has just happened.
Written(n, cyc) == IF n = 0 /\ cyc THEN sizeOut ELSE n
LapOK(d, n, cyc) == Ruled(d, Written(n, cyc)) /\ (~cyc => Starts(d, Written(n, cyc)))

\* A clause that is written with its zero from cell n on.
Placed(d, n, c) ==
  [i \in Cell |-> IF (i - n) % sizeOut < Len(c) THEN To!Stored(c)[((i - n) % sizeOut) + 1]
                  ELSE IF (i - n) % sizeOut = Len(c) THEN 0 ELSE d[i]]

LEMMA StoredFacts ==
  ASSUME NEW c \in Clauses
  PROVE  /\ Len(c) \in Nat /\ Len(c) >= 3
         /\ \A k \in 1 .. Len(c) : To!Stored(c)[k] \in Int /\ To!Stored(c)[k] # 0
         /\ \A k \in 1 .. Len(c) - 2 : To!Stored(c)[k] = c[k]
         /\ To!Stored(c)[Len(c) - 1] = Offset /\ To!Stored(c)[Len(c)] = Offset + c[Len(c)]
<1>1. /\ Len(c) \in Nat /\ Len(c) >= 3 /\ c[Len(c) - 1] = 0 /\ c[Len(c)] \in Nat
      /\ \A k \in 1 .. Len(c) : c[k] \in Int
      /\ \A k \in 1 .. Len(c) - 2 : c[k] # 0
  BY DEF Clauses
<1>2. \A k \in 1 .. Len(c) : To!Stored(c)[k] = IF k > Len(c) - 2 THEN c[k] + Offset ELSE c[k]
  BY DEF To!Stored, Offset
<1>3. Len(c) - 1 \in 1 .. Len(c) /\ Len(c) \in 1 .. Len(c)
  BY <1>1
<1>4. \A k \in 1 .. Len(c) : k > Len(c) - 2 => k = Len(c) - 1 \/ k = Len(c)
  BY <1>1
<1> DEFINE st == To!Stored(c)
<1>5. Offset \in Nat /\ Offset > 0
  BY OffsetFacts
<1> HIDE DEF st
<1>6. \A k \in 1 .. Len(c) : st[k] = IF k > Len(c) - 2 THEN c[k] + Offset ELSE c[k]
  BY <1>2 DEF st
<1>7. \A k \in 1 .. Len(c) - 2 : st[k] = c[k]
  BY <1>6, <1>1
<1>8. st[Len(c) - 1] = Offset /\ st[Len(c)] = Offset + c[Len(c)]
  <2>1. Len(c) - 1 > Len(c) - 2 /\ Len(c) > Len(c) - 2
    BY <1>1
  <2>2. st[Len(c) - 1] = 0 + Offset /\ st[Len(c)] = c[Len(c)] + Offset
    BY <1>6, <1>1, <1>3, <2>1
  <2> QED
    BY <1>1, <1>5, <2>2
<1>9. ASSUME NEW k \in 1 .. Len(c) PROVE st[k] \in Int /\ st[k] # 0
  <2>1. CASE k \in 1 .. Len(c) - 2
    BY <2>1, <1>7, <1>1
  <2>2. CASE k = Len(c) - 1 \/ k = Len(c)
    BY <2>2, <1>8, <1>1, <1>5
  <2> QED
    BY <2>1, <2>2, <1>1, <1>9
<1> QED
  BY <1>1, <1>7, <1>8, <1>9 DEF st

\* Where the cells are.
LEMMA PlacedFacts ==
  ASSUME NEW d \in Cells, NEW n \in Cell, NEW c \in Clauses, Len(c) + 1 <= sizeOut
  PROVE  /\ Placed(d, n, c) \in Cells
         /\ n + Len(c) + 1 <= sizeOut =>
              /\ \A i \in 0 .. n - 1 : Placed(d, n, c)[i] = d[i]
              /\ \A i \in n .. n + Len(c) - 1 : Placed(d, n, c)[i] = To!Stored(c)[i - n + 1]
              /\ Placed(d, n, c)[n + Len(c)] = 0
         /\ n + Len(c) + 1 > sizeOut =>
              LET m == n + Len(c) + 1 - sizeOut
              IN  /\ m \in 1 .. Len(c) /\ m \in Cell
                  /\ \A i \in 0 .. m - 2 : Placed(d, n, c)[i] = To!Stored(c)[i + sizeOut - n + 1]
                  /\ Placed(d, n, c)[m - 1] = 0
<1> DEFINE L == Len(c)
           p == Placed(d, n, c)
           st == To!Stored(c)
<1>1. L \in Nat /\ L >= 3 /\ \A k \in 1 .. L : st[k] \in Int
  BY StoredFacts
<1>2. sizeOut \in Nat \ {0} /\ n \in Nat /\ n < sizeOut /\ L + 1 <= sizeOut
  BY StrengtheningAssumption DEF Cell
<1>3. ASSUME NEW i \in Cell PROVE (i - n) % sizeOut = IF i >= n THEN i - n ELSE i - n + sizeOut
  <2>1. i \in Int /\ 0 <= i /\ i < sizeOut
    BY <1>2 DEF Cell
  <2>2. CASE i >= n
    <3>1. i - n \in 0 .. sizeOut - 1
      BY <2>1, <2>2, <1>2
    <3> QED
      BY <3>1, <2>2, <1>2, Remainders
  <2>3. CASE ~ (i >= n)
    <3>1. i - n \in -sizeOut .. -1 /\ i - n \in Int
      BY <2>1, <2>3, <1>2
    <3> QED
      BY <3>1, <2>3, <1>2, Remainders
  <2> QED
    BY <2>2, <2>3
<1>4. \A i \in Cell : LET q == IF i >= n THEN i - n ELSE i - n + sizeOut
                      IN  p[i] = IF q < L THEN st[q + 1] ELSE IF q = L THEN 0 ELSE d[i]
  BY <1>3 DEF Placed
<1> HIDE DEF L, p, st
<1>5. \A i \in Cell : i \in Int /\ 0 <= i /\ i < sizeOut /\ d[i] \in Int
  BY <1>2 DEF Cell, Cells
<1>6. \A i \in Int : 0 <= i /\ i < sizeOut => i \in Cell
  BY <1>2 DEF Cell
<1>7. p \in Cells
  <2>1. ASSUME NEW i \in Cell PROVE p[i] \in Int
    <3> DEFINE q == IF i >= n THEN i - n ELSE i - n + sizeOut
    <3>1. p[i] = IF q < L THEN st[q + 1] ELSE IF q = L THEN 0 ELSE d[i]
      BY <1>4
    <3>2. q \in Nat
      BY <1>5, <1>2
    <3>3. q < L => q + 1 \in 1 .. L
      BY <3>2, <1>1
    <3> QED
      BY <3>1, <3>3, <1>1, <1>5
  <2>2. p = [i \in Cell |-> p[i]]
    BY DEF p, Placed
  <2> QED
    BY <2>1, <2>2 DEF Cells
<1>8. ASSUME n + L + 1 <= sizeOut
      PROVE  /\ \A i \in 0 .. n - 1 : p[i] = d[i]
             /\ \A i \in n .. n + L - 1 : p[i] = st[i - n + 1]
             /\ p[n + L] = 0
  <2>1. \A i \in 0 .. n - 1 : i \in Cell /\ ~ (i >= n) /\ i - n + sizeOut > L
    BY <1>8, <1>1, <1>2, <1>6
  <2>2. \A i \in n .. n + L - 1 : i \in Cell /\ i >= n /\ i - n < L
    BY <1>8, <1>1, <1>2, <1>6
  <2>3. n + L \in Cell /\ n + L >= n /\ (n + L) - n = L
    BY <1>8, <1>1, <1>2, <1>6
  <2>4. \A i \in 0 .. n - 1 : i - n + sizeOut \in Int
    BY <1>2
  <2> QED
    BY <2>1, <2>2, <2>3, <2>4, <1>4, <1>1
<1>9. ASSUME n + L + 1 > sizeOut, NEW m \in Int, m = n + L + 1 - sizeOut
      PROVE  /\ m \in 1 .. L /\ m \in Cell
             /\ \A i \in 0 .. m - 2 : p[i] = st[i + sizeOut - n + 1]
             /\ p[m - 1] = 0
  <2>1. m \in 1 .. L /\ m \in Cell
    BY <1>9, <1>1, <1>2, <1>6
  <2>2. \A i \in 0 .. m - 2 : i \in Cell /\ ~ (i >= n) /\ i - n + sizeOut < L /\ i - n + sizeOut + 1 = i + sizeOut - n + 1
    BY <1>9, <1>1, <1>2, <1>6
  <2>3. m - 1 \in Cell /\ ~ (m - 1 >= n) /\ (m - 1) - n + sizeOut = L
    BY <1>9, <1>1, <1>2, <1>6
  <2>4. \A i \in 0 .. m - 2 : p[i] = st[i + sizeOut - n + 1]
    <3> SUFFICES ASSUME NEW i \in 0 .. m - 2 PROVE p[i] = st[i + sizeOut - n + 1]
      OBVIOUS
    <3> QED
      BY <2>2, <1>4
  <2>5. p[m - 1] = 0
    BY <2>3, <1>4, <1>1
  <2> QED
    BY <2>1, <2>4, <2>5
<1>10. n + L + 1 - sizeOut \in Int
  BY <1>1, <1>2
<1> QED
  BY <1>7, <1>8, <1>9, <1>10 DEF L, p, st

\* A push keeps the lap in order.
LEMMA PushedLap ==
  ASSUME NEW d \in Cells, NEW n \in Cell, NEW cyc \in BOOLEAN, LapOK(d, n, cyc),
         NEW c \in Clauses, Len(c) + 1 <= sizeOut
  PROVE  LET last == n + Len(c) + 1
         IN  /\ last % sizeOut \in Cell
             /\ LapOK(Placed(d, n, c), last % sizeOut, cyc \/ last >= sizeOut)
<1> DEFINE L == Len(c)
           p == Placed(d, n, c)
           st == To!Stored(c)
           last == n + L + 1
           next == last % sizeOut
           w == Written(next, cyc \/ last >= sizeOut)
<1>1. /\ L \in Nat /\ L >= 3 /\ \A k \in 1 .. L : st[k] \in Int /\ st[k] # 0
      /\ st[L - 1] = Offset /\ st[L] \in Int /\ st[L] >= Offset /\ Offset \in Nat
  BY StoredFacts, OffsetFacts DEF Clauses
<1>2. sizeOut \in Nat \ {0} /\ n \in Nat /\ n < sizeOut /\ L + 1 <= sizeOut
  BY StrengtheningAssumption DEF Cell
<1>3. n > 0 => Ruled(d, n) /\ (~cyc => Starts(d, n))
  BY <1>2 DEF LapOK, Written
<1>4. CASE last <= sizeOut
  <2>1. /\ \A i \in 0 .. n - 1 : p[i] = d[i]
        /\ \A i \in n .. n + L - 1 : p[i] = st[i - n + 1]
        /\ p[n + L] = 0
    BY <1>4, PlacedFacts
  <2>2. next \in Cell /\ w = last
    <3>1. CASE last < sizeOut
      <4>1. last \in 0 .. sizeOut - 1 /\ last \in Int
        BY <3>1, <1>1, <1>2
      <4>2. next = last
        BY <4>1, <1>2, Remainders
      <4> QED
        BY <4>1, <4>2, <1>1, <1>2 DEF Cell, Written
    <3>2. CASE last = sizeOut
      <4>1. last \in sizeOut .. sizeOut + sizeOut - 1 /\ last \in Int
        BY <3>2, <1>2
      <4>2. next = 0
        BY <4>1, <3>2, <1>2, Remainders
      <4> QED
        BY <4>2, <3>2, <1>2 DEF Cell, Written
    <3>3. last < sizeOut \/ last = sizeOut
      <4>1. last \in Int /\ sizeOut \in Int
        BY <1>1, <1>2
      <4> QED
        BY <4>1, <1>4
    <3> QED
      BY <3>1, <3>2, <3>3
  <2> HIDE DEF p, st, next, L
  <2>3. \A i \in n .. n + L - 1 : p[i] # 0
    <3> SUFFICES ASSUME NEW i \in n .. n + L - 1 PROVE p[i] # 0
      OBVIOUS
    <3>1. i - n + 1 \in 1 .. L
      BY <1>1, <1>2
    <3> QED
      BY <3>1, <2>1, <1>1
  <2>4. p[n + L - 1] = st[L] /\ p[n + L - 2] = st[L - 1]
    <3>1. n + L - 1 \in n .. n + L - 1 /\ n + L - 2 \in n .. n + L - 1
      BY <1>1, <1>2
    <3>2. (n + L - 1) - n + 1 = L /\ (n + L - 2) - n + 1 = L - 1
      BY <1>1, <1>2
    <3> QED
      BY <3>1, <3>2, <2>1
  <2>5. ASSUME NEW z \in 0 .. n + L, p[z] = 0
        PROVE  /\ z < n + L => z + 4 <= n + L /\ p[z + 1] # 0 /\ p[z + 2] # 0 /\ p[z + 3] # 0
               /\ z >= 1 => p[z - 1] >= Offset
               /\ z >= 2 => p[z - 2] = Offset
    <3>1. CASE z < n
      <4>1. z \in 0 .. n - 1 /\ p[z] = d[z] /\ n > 0 /\ n \in Int
        BY <3>1, <2>1, <1>2
      <4>2. z >= 1 => p[z - 1] = d[z - 1]
        BY <4>1, <2>1, <1>2
      <4>3. z >= 2 => p[z - 2] = d[z - 2]
        BY <4>1, <2>1, <1>2
      <4>4. /\ z < n - 1 => z + 4 <= n - 1 /\ d[z + 1] # 0 /\ d[z + 2] # 0 /\ d[z + 3] # 0
            /\ z >= 1 => d[z - 1] >= Offset
            /\ z >= 2 => d[z - 2] = Offset
        BY <4>1, <1>3, <2>5 DEF Ruled
      <4>5. z + 4 <= n + L /\ p[z + 1] # 0 /\ p[z + 2] # 0 /\ p[z + 3] # 0
        <5>1. CASE z < n - 1
          <6>1. z + 4 <= n - 1 /\ z + 1 \in 0 .. n - 1 /\ z + 2 \in 0 .. n - 1 /\ z + 3 \in 0 .. n - 1
            BY <5>1, <4>1, <4>4
          <6> QED
            BY <6>1, <5>1, <4>4, <2>1, <1>1, <1>2
        <5>2. CASE z = n - 1
          <6>1. z + 1 \in n .. n + L - 1 /\ z + 2 \in n .. n + L - 1 /\ z + 3 \in n .. n + L - 1 /\ z + 4 <= n + L
            BY <5>2, <1>1, <1>2
          <6> QED
            BY <6>1, <2>3
        <5> QED
          BY <5>1, <5>2, <4>1
      <4> QED
        BY <4>2, <4>3, <4>4, <4>5
    <3>2. CASE z = n + L
      BY <3>2, <2>4, <1>1, <1>2
    <3> QED
      BY <3>1, <3>2, <2>3, <2>5, <1>1, <1>2
  <2>6. Ruled(p, n + L + 1)
    BY <2>1, <2>5, <1>1, <1>2 DEF Ruled
  <2>7. ASSUME ~cyc PROVE Starts(p, n + L + 1)
    <3>1. CASE n = 0
      <4>1. 0 \in n .. n + L - 1 /\ 1 \in n .. n + L - 1 /\ 2 \in n .. n + L - 1
        BY <3>1, <1>1
      <4> QED
        BY <4>1, <2>3, <3>1, <1>1 DEF Starts
    <3>2. CASE n > 0
      <4>1. n >= 4 /\ d[0] # 0 /\ d[1] # 0 /\ d[2] # 0
        BY <3>2, <1>3, <2>7 DEF Starts
      <4>2. p[0] = d[0] /\ p[1] = d[1] /\ p[2] = d[2]
        BY <4>1, <2>1, <1>2
      <4> QED
        BY <4>1, <4>2, <1>1, <1>2 DEF Starts
    <3> QED
      BY <3>1, <3>2, <1>2
  <2> QED
    BY <2>2, <2>6, <2>7 DEF LapOK, w, last, p, next, L
<1>5. CASE last > sizeOut
  <2> DEFINE m == last - sizeOut
  <2>1. /\ m \in 1 .. L /\ m \in Cell
        /\ \A i \in 0 .. m - 2 : p[i] = st[i + sizeOut - n + 1]
        /\ p[m - 1] = 0
    <3>1. n + Len(c) + 1 > sizeOut /\ m = n + Len(c) + 1 - sizeOut
      BY <1>5, <1>1, <1>2
    <3> HIDE DEF m, p, st
    <3>2. LET q == n + Len(c) + 1 - sizeOut
          IN  /\ q \in 1 .. L /\ q \in Cell
              /\ \A i \in 0 .. q - 2 : p[i] = st[i + sizeOut - n + 1]
              /\ p[q - 1] = 0
      BY <3>1, PlacedFacts DEF p, st
    <3> QED
      BY <3>1, <3>2
  <2>2. next = m /\ w = m /\ last >= sizeOut
    <3>1. last \in sizeOut .. sizeOut + sizeOut - 1 /\ last \in Int
      BY <1>5, <1>1, <1>2
    <3>2. next = m
      BY <3>1, <1>2, Remainders
    <3> QED
      BY <3>1, <3>2, <2>1, <1>2 DEF Written
  <2> HIDE DEF p, st, next
  <2>3. \A i \in 0 .. m - 2 : i + sizeOut - n + 1 \in 1 .. L
    BY <2>1, <1>1, <1>2
  <2>4. \A i \in 0 .. m - 2 : p[i] # 0
    BY <2>3, <2>1, <1>1
  <2>5. m >= 2 => p[m - 2] = st[L]
    <3>1. (m - 2) + sizeOut - n + 1 = L
      BY <1>1, <1>2
    <3>2. m >= 2 => m - 2 \in 0 .. m - 2
      BY <2>1
    <3> QED
      BY <3>1, <3>2, <2>1
  <2>6. m >= 3 => p[m - 3] = st[L - 1]
    <3>1. (m - 3) + sizeOut - n + 1 = L - 1
      BY <1>1, <1>2
    <3>2. m >= 3 => m - 3 \in 0 .. m - 2
      BY <2>1
    <3> QED
      BY <3>1, <3>2, <2>1
  <2> HIDE DEF m
  <2>7. ASSUME NEW z \in 0 .. m - 1, p[z] = 0
        PROVE  /\ z = m - 1
               /\ z >= 1 => p[z - 1] >= Offset
               /\ z >= 2 => p[z - 2] = Offset
    <3>1. z = m - 1
      BY <2>7, <2>4, <2>1, <1>1
    <3>2. z - 1 = m - 2 /\ z - 2 = m - 3
      BY <3>1, <2>1
    <3> QED
      BY <3>1, <3>2, <2>1, <2>5, <2>6, <1>1
  <2>8. Ruled(p, m)
    BY <2>1, <2>7, <1>1 DEF Ruled
  <2>9. LapOK(p, next, cyc \/ last >= sizeOut)
    BY <2>2, <2>8 DEF LapOK, w
  <2> QED
    BY <2>1, <2>2, <2>9 DEF p, last, next
<1> QED
  BY <1>4, <1>5, <1>1, <1>2

-----------------------------------------------------------------------------
(* The sender.                                                             *)

Outs == [cur : 0 .. 1, data : [0 .. 1 -> Cells], next : [0 .. 1 -> Cell],
         cycled : [0 .. 1 -> BOOLEAN], pending : [0 .. 1 -> BOOLEAN]]
OutOK(o) == o \in Outs /\ \A b \in 0 .. 1 : LapOK(o.data[b], o.next[b], o.cycled[b])

LEMMA PushedOK ==
  ASSUME NEW o, OutOK(o), NEW c \in Clauses
  PROVE  OutOK(To!Pushed(o, c))
<1> DEFINE b == o.cur
           last == o.next[b] + Len(c) + 1
           q == To!Pushed(o, c)
<1>1. /\ o \in Outs /\ b \in 0 .. 1 /\ o.data[b] \in Cells /\ o.next[b] \in Cell /\ o.cycled[b] \in BOOLEAN
      /\ LapOK(o.data[b], o.next[b], o.cycled[b])
  BY DEF OutOK, Outs
<1>2. CASE Len(c) + 1 > sizeOut
  <2>1. q = o
    BY <1>2 DEF To!Pushed
  <2> QED
    BY <2>1
<1>3. CASE ~ (Len(c) + 1 > sizeOut)
  <2>1. q = [o EXCEPT !.data[b] = Placed(o.data[b], o.next[b], c), !.next[b] = last % sizeOut,
                      !.cycled[b] = o.cycled[b] \/ last >= sizeOut]
    BY <1>3 DEF To!Pushed, Placed, To!Index, Cell
  <2>2. Len(c) \in Nat /\ sizeOut \in Nat
    BY StoredFacts, StrengtheningAssumption
  <2>3. Len(c) + 1 <= sizeOut
    BY <1>3, <2>2
  <2>4. Placed(o.data[b], o.next[b], c) \in Cells
    BY <1>1, <2>3, PlacedFacts
  <2>5. /\ last % sizeOut \in Cell
        /\ LapOK(Placed(o.data[b], o.next[b], c), last % sizeOut, o.cycled[b] \/ last >= sizeOut)
    BY <1>1, <2>3, PushedLap
  <2> HIDE DEF last, q
  <2>6. /\ q \in Outs
        /\ q.data[b] = Placed(o.data[b], o.next[b], c)
        /\ q.next[b] = last % sizeOut /\ q.cycled[b] = (o.cycled[b] \/ last >= sizeOut)
        /\ \A x \in (0 .. 1) \ {b} : q.data[x] = o.data[x] /\ q.next[x] = o.next[x] /\ q.cycled[x] = o.cycled[x]
    BY <2>1, <2>4, <2>5, <1>1 DEF Outs
  <2>7. ASSUME NEW x \in 0 .. 1 PROVE LapOK(q.data[x], q.next[x], q.cycled[x])
    <3>1. CASE x = b
      BY <3>1, <2>5, <2>6
    <3>2. CASE x # b
      BY <3>2, <2>6 DEF OutOK
    <3> QED
      BY <3>1, <3>2
  <2> QED
    BY <2>6, <2>7 DEF OutOK, q
<1> QED
  BY <1>2, <1>3

\* Whole clauses, from cell lo to cell hi.
SegmentOK(d, lo, hi) ==
  /\ lo \in Nat /\ hi \in Cell /\ lo + 3 <= hi
  /\ d[lo] # 0 /\ d[lo + 1] # 0 /\ d[lo + 2] # 0 /\ d[hi] = 0
  /\ \A z \in lo .. hi : d[z] = 0 =>
       /\ z < hi => z + 4 <= hi /\ d[z + 1] # 0 /\ d[z + 2] # 0 /\ d[z + 3] # 0
       /\ d[z - 1] >= Offset /\ d[z - 2] = Offset

Messages == [slot : 0 .. 1, phase : Int, beginning : Nat, end : Cell, data : Seq(Int), sendLength : Int]
Carried(m) == [i \in Cell |-> IF i < Len(m.data) THEN m.data[i + 1] ELSE To!Uninitialised]

TouchedOf(o) == o.next[o.cur] # 0 \/ o.cycled[o.cur]

\* In a ring that has wrapped around the clauses start behind a zero.
LEMMA BeginningFacts ==
  ASSUME NEW o, OutOK(o), TouchedOf(o)
  PROVE  LET n == o.next[o.cur]
             w == Written(n, o.cycled[o.cur])
         IN  /\ w \in 1 .. sizeOut /\ To!EndOf(o) = w - 1
             /\ IF o.cycled[o.cur]
                THEN \E z \in Cell : o.data[o.cur][z] = 0 /\ To!Beginning(o) = z + 1
                ELSE To!Beginning(o) = 0
<1> DEFINE b == o.cur
           d == o.data[b]
           n == o.next[b]
           w == Written(n, o.cycled[b])
<1>1. /\ b \in 0 .. 1 /\ d \in Cells /\ n \in Cell /\ o.cycled[b] \in BOOLEAN
      /\ LapOK(d, n, o.cycled[b])
  BY DEF OutOK, Outs
<1>2. sizeOut \in Nat \ {0} /\ n \in Nat /\ n < sizeOut
  BY <1>1, StrengtheningAssumption DEF Cell
<1>3. w \in 1 .. sizeOut /\ To!EndOf(o) = w - 1
  BY <1>1, <1>2 DEF TouchedOf, Written, To!EndOf
<1>4. d[w - 1] = 0
  BY <1>1, <1>3 DEF LapOK, Ruled
<1>5. ASSUME o.cycled[b] PROVE \E z \in Cell : d[z] = 0 /\ To!Beginning(o) = z + 1
  <2> DEFINE zeros == {k \in Cell : d[(n + k) % sizeOut] = 0}
             first == CHOOSE k \in zeros : \A l \in zeros : k <= l
  <2>1. To!Beginning(o) = ((n + first) % sizeOut) + 1
    BY <1>5 DEF To!Beginning, To!AfterFirstZero, To!Index, Cell
  <2>2. sizeOut - 1 \in zeros
    <3>1. sizeOut - 1 \in Cell
      BY <1>2 DEF Cell
    <3>2. (n + (sizeOut - 1)) % sizeOut = w - 1
      <4>1. CASE n = 0
        <5>1. sizeOut - 1 \in 0 .. sizeOut - 1 /\ n + (sizeOut - 1) = sizeOut - 1 /\ w = sizeOut
          BY <4>1, <1>2, <1>5 DEF Written
        <5> QED
          BY <5>1, <1>2, Remainders
      <4>2. CASE n # 0
        <5>1. n + (sizeOut - 1) \in sizeOut .. sizeOut + sizeOut - 1 /\ n + (sizeOut - 1) \in Int /\ w = n
          BY <4>2, <1>2 DEF Written
        <5> QED
          BY <5>1, <1>2, Remainders
      <4> QED
        BY <4>1, <4>2
    <3> QED
      BY <3>1, <3>2, <1>4
  <2>3. zeros \in SUBSET Nat
    BY <1>2 DEF Cell
  <2>4. first \in zeros
    <3> HIDE DEF zeros
    <3>1. \E k \in zeros : \A l \in zeros : k <= l
      BY <2>2, <2>3, LeastNatural
    <3> QED
      BY <3>1
  <2>5. first \in Cell /\ d[(n + first) % sizeOut] = 0
    BY <2>4
  <2> HIDE DEF first, zeros
  <2>6. (n + first) % sizeOut \in Cell
    BY <2>5, <1>2 DEF Cell
  <2> QED
    BY <2>1, <2>5, <2>6
<1>6. ~ o.cycled[b] => To!Beginning(o) = 0
  BY DEF To!Beginning
<1> QED
  BY <1>3, <1>5, <1>6

\* A message that the receiver can hold carries whole clauses.
WholeMessages ==
  {m \in Messages : To!Fits(m) => /\ Len(m.data) = m.end + 1
                                  /\ SegmentOK(Carried(m), m.beginning, m.end)}

LEMMA MessageFacts ==
  ASSUME NEW o, OutOK(o), TouchedOf(o), NEW p \in Int
  PROVE  To!Message(o, p) \in WholeMessages
<1> DEFINE b == o.cur
           d == o.data[b]
           n == o.next[b]
           w == Written(n, o.cycled[b])
           m == To!Message(o, p)
           lo == To!Beginning(o)
           hi == To!EndOf(o)
           use == To!InUse(o)
<1>1. /\ b \in 0 .. 1 /\ d \in Cells /\ n \in Cell /\ o.cycled[b] \in BOOLEAN
      /\ LapOK(d, n, o.cycled[b])
  BY DEF OutOK, Outs
<1>2. sizeOut \in Nat \ {0} /\ n \in Nat /\ n < sizeOut
  BY <1>1, StrengtheningAssumption DEF Cell
<1>3. /\ w \in 1 .. sizeOut /\ hi = w - 1
      /\ IF o.cycled[b] THEN \E z \in Cell : d[z] = 0 /\ lo = z + 1 ELSE lo = 0
  BY BeginningFacts
<1>4. m = [slot |-> b, phase |-> p, beginning |-> lo, end |-> hi,
           data |-> [i \in 1 .. use |-> d[i - 1]], sendLength |-> To!SendLength(o)]
  BY DEF To!Message
<1>5. /\ use = IF hi > lo THEN hi + 1 ELSE sizeOut
      /\ To!SendLength(o) = (IF hi > lo THEN hi ELSE sizeOut) + 3 + 1
  BY DEF To!InUse, To!SendLength, To!PADDING
<1>6. Ruled(d, w) /\ (~ o.cycled[b] => Starts(d, w))
  BY <1>1 DEF LapOK
<1> HIDE DEF b, d, n, w, m, lo, hi, use
<1>7. /\ lo \in Nat /\ hi \in Cell /\ use \in 1 .. sizeOut
      /\ \A i \in Cell : d[i] \in Int
  <2>1. lo \in Nat
    BY <1>1, <1>2, <1>3 DEF Cell
  <2>2. hi \in Cell
    BY <1>2, <1>3 DEF Cell
  <2>3. use \in 1 .. sizeOut
    BY <2>2, <1>2, <1>3, <1>5
  <2> QED
    BY <2>1, <2>2, <2>3, <1>1 DEF Cells
<1>8. m.data \in Seq(Int) /\ Len(m.data) = use /\ \A i \in 1 .. use : m.data[i] = d[i - 1]
  <2>1. \A i \in 1 .. use : d[i - 1] \in Int
    <3>1. \A i \in 1 .. use : i - 1 \in Cell
      BY <1>7, <1>2 DEF Cell
    <3> QED
      BY <3>1, <1>7
  <2>2. m.data = [i \in 1 .. use |-> d[i - 1]]
    BY <1>4
  <2>3. use \in Nat
    BY <1>7
  <2> QED
    BY <2>1, <2>2, <2>3
<1>9. m \in Messages
  <2>1. To!SendLength(o) \in Int
    BY <1>5, <1>7, <1>2 DEF Cell
  <2> QED
    BY <2>1, <1>4, <1>7, <1>8, <1>1 DEF Messages
<1>10. ASSUME To!Fits(m)
       PROVE  Len(m.data) = m.end + 1 /\ SegmentOK(Carried(m), m.beginning, m.end)
  <2>1. hi > lo
    <3>1. m.sendLength <= sizeOut + 3
      BY <1>10 DEF To!Fits, To!PADDING
    <3> QED
      BY <3>1, <1>4, <1>5, <1>2
  <2>2. use = hi + 1
    BY <2>1, <1>5
  <2> DEFINE a == Carried(m)
  <2>3. \A i \in 0 .. hi : a[i] = d[i]
    <3>1. ASSUME NEW i \in 0 .. hi PROVE a[i] = d[i]
      <4>1. i \in Cell /\ i < Len(m.data) /\ i + 1 \in 1 .. use /\ (i + 1) - 1 = i
        BY <2>2, <1>7, <1>8, <1>2 DEF Cell
      <4>2. a[i] = m.data[i + 1]
        BY <4>1 DEF Carried
      <4> QED
        BY <4>1, <4>2, <1>8
    <3> QED
      BY <3>1
  <2> HIDE DEF a
  <2>4. lo \in Int /\ hi \in Int /\ 0 <= lo /\ hi = w - 1 /\ w \in Int
    BY <1>7, <1>3 DEF Cell
  <2>5. d[hi] = 0
    BY <1>6, <2>4, <2>1 DEF Ruled
  <2>6. lo + 3 <= hi /\ d[lo] # 0 /\ d[lo + 1] # 0 /\ d[lo + 2] # 0
    <3>1. CASE o.cycled[b]
      <4>1. PICK z \in Cell : d[z] = 0 /\ lo = z + 1
        BY <3>1, <1>3
      <4>2. z \in 0 .. w - 1 /\ z < w - 1 /\ z \in Int
        BY <4>1, <2>1, <2>4 DEF Cell
      <4>3. z + 4 <= w - 1 /\ d[z + 1] # 0 /\ d[z + 2] # 0 /\ d[z + 3] # 0
        BY <4>1, <4>2, <1>6 DEF Ruled
      <4>4. z + 1 = lo /\ z + 2 = lo + 1 /\ z + 3 = lo + 2
        BY <4>1, <4>2
      <4> QED
        BY <4>2, <4>3, <4>4, <2>4
    <3>2. CASE ~ o.cycled[b]
      <4>1. lo = 0 /\ Starts(d, w)
        BY <3>2, <1>3, <1>6
      <4>2. w >= 4 /\ d[0] # 0 /\ d[1] # 0 /\ d[2] # 0
        BY <4>1, <2>4, <2>1 DEF Starts
      <4> QED
        BY <4>1, <4>2, <2>4
    <3> QED
      BY <3>1, <3>2
  <2>7. ASSUME NEW z \in lo .. hi, a[z] = 0
        PROVE  /\ z < hi => z + 4 <= hi /\ a[z + 1] # 0 /\ a[z + 2] # 0 /\ a[z + 3] # 0
               /\ a[z - 1] >= Offset /\ a[z - 2] = Offset
    <3>1. d[z] = 0 /\ z \in 0 .. w - 1 /\ z \in Int
      BY <2>7, <2>3, <2>4
    <3>2. z # lo /\ z # lo + 1 /\ z # lo + 2
      BY <3>1, <2>6
    <3>3. z >= lo + 3
      BY <3>1, <3>2, <2>4, <2>7
    <3>4. d[z - 1] >= Offset /\ d[z - 2] = Offset
      BY <3>1, <3>3, <2>4, <1>6 DEF Ruled
    <3>5. a[z - 1] = d[z - 1] /\ a[z - 2] = d[z - 2]
      BY <3>1, <3>3, <2>3, <2>4
    <3>6. ASSUME z < hi PROVE z + 4 <= hi /\ a[z + 1] # 0 /\ a[z + 2] # 0 /\ a[z + 3] # 0
      <4>1. z < w - 1
        BY <3>6, <2>4
      <4>2. z + 4 <= w - 1 /\ d[z + 1] # 0 /\ d[z + 2] # 0 /\ d[z + 3] # 0
        BY <3>1, <4>1, <1>6 DEF Ruled
      <4>3. z + 1 \in 0 .. hi /\ z + 2 \in 0 .. hi /\ z + 3 \in 0 .. hi
        BY <4>2, <3>1, <2>4
      <4> QED
        BY <4>2, <4>3, <2>3, <2>4
    <3> QED
      BY <3>4, <3>5, <3>6
  <2>8. a[hi] = 0 /\ a[lo] # 0 /\ a[lo + 1] # 0 /\ a[lo + 2] # 0
    BY <2>3, <2>4, <2>5, <2>6
  <2>9. SegmentOK(a, lo, hi)
    BY <2>6, <2>7, <2>8, <1>7 DEF SegmentOK
  <2> QED
    BY <2>2, <2>9, <1>4, <1>8 DEF a
<1> QED
  BY <1>9, <1>10 DEF WholeMessages, m

-----------------------------------------------------------------------------
(* The receiver: what ClauseBuffer says of in, of any in i.                *)

Ins == [cur : 0 .. 1, data : [0 .. 1 -> Cells], next : [0 .. 1 -> Cell], end : [0 .. 1 -> Cell]]
UnreadOf(i) == i.next[i.cur] # i.end[i.cur]
InOK(i) == i \in Ins /\ (UnreadOf(i) => SegmentOK(i.data[i.cur], i.next[i.cur], i.end[i.cur]))

AtOf(i, k) == (i.next[i.cur] + k) % sizeOut
ScannedOf(i) ==
  LET stops == {k \in Cell : i.data[i.cur][AtOf(i, k)] = 0 \/ AtOf(i, k) = i.end[i.cur]}
      n == CHOOSE k \in stops : \A l \in stops : k <= l
  IN  [k \in 1 .. n |-> i.data[i.cur][AtOf(i, k - 1)]]
EndsInZeroOf(i) == i.data[i.cur][AtOf(i, Len(ScannedOf(i)))] = 0
ClauseReadOf(i) ==
  IF UnreadOf(i) /\ EndsInZeroOf(i)
  THEN [k \in 1 .. Len(ScannedOf(i)) |-> IF k > Len(ScannedOf(i)) - 2
                                         THEN ScannedOf(i)[k] - Offset ELSE ScannedOf(i)[k]]
  ELSE << >>
AfterOf(i) ==
  IF EndsInZeroOf(i) /\ AtOf(i, Len(ScannedOf(i))) # i.end[i.cur]
  THEN AtOf(i, Len(ScannedOf(i)) + 1) ELSE AtOf(i, Len(ScannedOf(i)))
ReceivedOf(i, m, p) ==
  LET b == 1 - i.cur
  IN  [i EXCEPT !.cur = b,
                !.data[b] = [k \in Cell |-> IF k < Len(m.data) THEN m.data[k + 1] ELSE @[k]],
                !.next[b] = IF m.phase = p THEN m.beginning ELSE 0,
                !.end[b]  = IF m.phase = p THEN m.end ELSE 0]

\* The first stop is the first zero.
LEMMA ScannedFacts ==
  ASSUME NEW i, InOK(i), UnreadOf(i)
  PROVE  \E n \in Nat :
           LET lo == i.next[i.cur]
               d == i.data[i.cur]
           IN  /\ n >= 3 /\ lo + n <= i.end[i.cur] /\ AtOf(i, n) = lo + n /\ d[lo + n] = 0
               /\ ScannedOf(i) = [k \in 1 .. n |-> d[lo + k - 1]]
               /\ Len(ScannedOf(i)) = n
               /\ \A k \in 0 .. n - 1 : d[lo + k] # 0
<1> DEFINE lo == i.next[i.cur]
           hi == i.end[i.cur]
           d == i.data[i.cur]
           stops == {k \in Cell : d[AtOf(i, k)] = 0 \/ AtOf(i, k) = hi}
           n == CHOOSE k \in stops : \A l \in stops : k <= l
<1>1. i.cur \in 0 .. 1 /\ lo \in Cell /\ hi \in Cell /\ d \in Cells /\ SegmentOK(d, lo, hi)
  BY DEF InOK, Ins
<1>2. /\ sizeOut \in Nat \ {0} /\ lo \in Nat /\ hi \in Nat /\ lo < sizeOut /\ hi < sizeOut
      /\ lo + 3 <= hi /\ d[lo] # 0 /\ d[lo + 1] # 0 /\ d[lo + 2] # 0 /\ d[hi] = 0
  BY <1>1, StrengtheningAssumption DEF Cell, SegmentOK
<1>3. \A k \in 0 .. hi - lo : AtOf(i, k) = lo + k
  <2> SUFFICES ASSUME NEW k \in 0 .. hi - lo PROVE AtOf(i, k) = lo + k
    OBVIOUS
  <2>1. lo + k \in 0 .. sizeOut - 1 /\ lo + k \in Int
    BY <1>2
  <2> QED
    BY <2>1, <1>2, Remainders DEF AtOf
<1>4. hi - lo \in stops
  <2>1. hi - lo \in Cell /\ hi - lo \in 0 .. hi - lo /\ lo + (hi - lo) = hi
    BY <1>2 DEF Cell
  <2> QED
    BY <2>1, <1>3
<1>5. ScannedOf(i) = [k \in 1 .. n |-> d[AtOf(i, k - 1)]]
  BY DEF ScannedOf
<1>6. n \in stops /\ \A l \in stops : n <= l
  <2>1. stops \in SUBSET Nat
    BY <1>2 DEF Cell
  <2> HIDE DEF stops
  <2>2. \E k \in stops : \A l \in stops : k <= l
    BY <1>4, <2>1, LeastNatural
  <2> QED
    BY <2>2
<1>7. n \in Cell /\ (d[AtOf(i, n)] = 0 \/ AtOf(i, n) = hi)
  BY <1>6
<1>8. \A k \in Cell : d[AtOf(i, k)] = 0 => n <= k
  BY <1>6
<1>9. n <= hi - lo
  BY <1>4, <1>6
<1> HIDE DEF n, stops
<1>10. n \in Nat /\ n \in 0 .. hi - lo /\ AtOf(i, n) = lo + n
  BY <1>7, <1>9, <1>3, <1>2 DEF Cell
<1>11. d[lo + n] = 0
  BY <1>7, <1>10, <1>2
<1>12. \A k \in 0 .. n - 1 : d[lo + k] # 0
  <2> SUFFICES ASSUME NEW k \in 0 .. n - 1 PROVE d[lo + k] # 0
    OBVIOUS
  <2>1. k \in Cell /\ k \in 0 .. hi - lo /\ ~ (n <= k)
    BY <1>10, <1>2 DEF Cell
  <2> QED
    BY <2>1, <1>8, <1>3
<1>13. n >= 3
  <2>1. n # 0 /\ n # 1 /\ n # 2
    BY <1>11, <1>2
  <2> QED
    BY <2>1, <1>10
<1>14. ScannedOf(i) = [k \in 1 .. n |-> d[lo + k - 1]]
  <2>1. \A k \in 1 .. n : AtOf(i, k - 1) = lo + k - 1
    <3> SUFFICES ASSUME NEW k \in 1 .. n PROVE AtOf(i, k - 1) = lo + k - 1
      OBVIOUS
    <3>1. k - 1 \in 0 .. hi - lo /\ lo + (k - 1) = lo + k - 1
      BY <1>10, <1>2
    <3> QED
      BY <3>1, <1>3
  <2> QED
    BY <2>1, <1>5
<1>15. Len(ScannedOf(i)) = n
  BY <1>14, <1>10
<1>16. lo + n <= hi
  BY <1>10, <1>2
<1> QED
  BY <1>10, <1>11, <1>12, <1>13, <1>14, <1>15, <1>16

\* What is read is a whole clause, and whole clauses are left.
LEMMA ReadFacts ==
  ASSUME NEW i, InOK(i), UnreadOf(i)
  PROVE  /\ i.data[i.cur][i.next[i.cur]] # 0
         /\ EndsInZeroOf(i)
         /\ Len(ScannedOf(i)) >= 3
         /\ ClauseReadOf(i) \in Clauses
         /\ InOK([i EXCEPT !.next[i.cur] = AfterOf(i)])
<1> DEFINE b == i.cur
           lo == i.next[b]
           hi == i.end[b]
           d == i.data[b]
           s == ScannedOf(i)
           c == ClauseReadOf(i)
<1>1. b \in 0 .. 1 /\ lo \in Cell /\ hi \in Cell /\ d \in Cells /\ SegmentOK(d, lo, hi) /\ i \in Ins
  BY DEF InOK, Ins
<1>2. /\ sizeOut \in Nat \ {0} /\ lo \in Nat /\ hi \in Nat /\ lo < sizeOut /\ hi < sizeOut
      /\ d[lo] # 0 /\ \A k \in lo .. hi : d[k] \in Int
  <2>1. sizeOut \in Nat \ {0} /\ lo \in Nat /\ hi \in Nat /\ lo < sizeOut /\ hi < sizeOut /\ d[lo] # 0
    BY <1>1, StrengtheningAssumption DEF Cell, SegmentOK
  <2>2. \A k \in lo .. hi : k \in Cell
    BY <2>1 DEF Cell
  <2> QED
    BY <1>1, <2>1, <2>2 DEF Cells
<1>3. PICK n \in Nat :
           /\ n >= 3 /\ lo + n <= hi /\ AtOf(i, n) = lo + n /\ d[lo + n] = 0
           /\ s = [k \in 1 .. n |-> d[lo + k - 1]]
           /\ Len(s) = n
           /\ \A k \in 0 .. n - 1 : d[lo + k] # 0
  BY ScannedFacts
<1>4. EndsInZeroOf(i) /\ Len(s) >= 3
  BY <1>3 DEF EndsInZeroOf
<1>5. c = [k \in 1 .. n |-> IF k > n - 2 THEN s[k] - Offset ELSE s[k]]
  BY <1>3, <1>4 DEF ClauseReadOf
<1>6. AfterOf(i) = IF lo + n # hi THEN AtOf(i, n + 1) ELSE lo + n
  BY <1>3, <1>4 DEF AfterOf
<1> HIDE DEF s, c
<1>7. Offset \in Nat /\ n >= 3 /\ lo + n <= hi /\ d[lo + n] = 0
  BY <1>3, OffsetFacts
<1>8. d[lo + n - 1] >= Offset /\ d[lo + n - 2] = Offset
  <2> DEFINE z == lo + n
  <2>1. z \in lo .. hi /\ d[z] = 0
    BY <1>7, <1>2
  <2> HIDE DEF z
  <2>2. d[z - 1] >= Offset /\ d[z - 2] = Offset
    BY <2>1, <1>1 DEF SegmentOK
  <2>3. z - 1 = lo + n - 1 /\ z - 2 = lo + n - 2
    BY <1>2 DEF z
  <2> QED
    BY <2>2, <2>3
<1>9. c \in Clauses
  <2>1. \A k \in 1 .. n : s[k] = d[lo + k - 1] /\ d[lo + k - 1] \in Int /\ d[lo + k - 1] # 0
    <3> SUFFICES ASSUME NEW k \in 1 .. n PROVE s[k] = d[lo + k - 1] /\ d[lo + k - 1] \in Int /\ d[lo + k - 1] # 0
      OBVIOUS
    <3>1. k - 1 \in 0 .. n - 1 /\ lo + (k - 1) = lo + k - 1 /\ lo + k - 1 \in lo .. hi
      <4>1. lo \in Int /\ hi \in Int /\ k \in 1 .. n /\ n \in Nat /\ lo + n <= hi
        BY <1>2, <1>3
      <4> QED
        BY <4>1
    <3> QED
      BY <3>1, <1>2, <1>3
  <2>2. \A k \in 1 .. n : c[k] \in Int
    BY <2>1, <1>5, <1>7
  <2>3. c \in Seq(Int) /\ Len(c) = n
    BY <2>2, <1>5, <1>3
  <2>4. \A k \in 1 .. n - 2 : c[k] # 0
    <3>1. \A k \in 1 .. n - 2 : k \in 1 .. n /\ ~ (k > n - 2)
      BY <1>3
    <3> QED
      BY <2>1, <3>1, <1>5
  <2>5. c[n - 1] = 0 /\ c[n] \in Nat
    <3>1. n - 1 \in 1 .. n /\ n \in 1 .. n /\ n - 1 > n - 2 /\ n > n - 2
      BY <1>3
    <3>2. c[n - 1] = s[n - 1] - Offset /\ c[n] = s[n] - Offset
      BY <3>1, <1>5
    <3>3. s[n - 1] = Offset /\ s[n] >= Offset /\ s[n] \in Int
      <4>1. lo + (n - 1) - 1 = lo + n - 2
        BY <1>2, <1>3
      <4> QED
        BY <4>1, <3>1, <2>1, <1>8
    <3> QED
      BY <3>2, <3>3, <1>7
  <2> QED
    BY <2>3, <2>4, <2>5, <1>3 DEF Clauses
<1> DEFINE i2 == [i EXCEPT !.next[b] = AfterOf(i)]
<1>10. CASE lo + n = hi
  <2>1. AfterOf(i) = hi
    BY <1>6, <1>10
  <2>2. i2 \in Ins /\ i2.cur = b /\ i2.next[b] = hi /\ i2.end[b] = hi
    BY <2>1, <1>1 DEF Ins
  <2>3. InOK(i2)
    BY <2>2 DEF InOK, UnreadOf
  <2> QED
    BY <1>2, <1>4, <1>9, <2>3 DEF s, c
<1>11. CASE lo + n # hi
  <2>1. lo + n \in lo .. hi /\ lo + n < hi
    BY <1>7, <1>2, <1>11
  <2>2. (lo + n) + 4 <= hi /\ d[(lo + n) + 1] # 0 /\ d[(lo + n) + 2] # 0 /\ d[(lo + n) + 3] # 0
    BY <2>1, <1>1, <1>3 DEF SegmentOK
  <2> DEFINE x == lo + n + 1
  <2>3. AfterOf(i) = x /\ x \in Cell
    <3>1. lo + (n + 1) = x /\ x \in 0 .. sizeOut - 1 /\ x \in Int
      BY <2>1, <1>2, <1>7
    <3>2. AtOf(i, n + 1) = x
      BY <3>1, <1>2, Remainders DEF AtOf
    <3> QED
      BY <3>1, <3>2, <1>6, <1>11 DEF Cell
  <2>4. x + 3 <= hi /\ d[x] # 0 /\ d[x + 1] # 0 /\ d[x + 2] # 0 /\ x \in Nat /\ lo <= x
    BY <2>2, <1>2, <1>7
  <2> HIDE DEF x
  <2>5. SegmentOK(d, x, hi)
    <3>1. \A z \in x .. hi : z \in lo .. hi
      BY <2>4, <1>2
    <3>2. \A z \in x .. hi : d[z] = 0 =>
            /\ z < hi => z + 4 <= hi /\ d[z + 1] # 0 /\ d[z + 2] # 0 /\ d[z + 3] # 0
            /\ d[z - 1] >= Offset /\ d[z - 2] = Offset
      BY <3>1, <1>1 DEF SegmentOK
    <3>3. d[hi] = 0
      BY <1>1 DEF SegmentOK
    <3> QED
      BY <3>2, <3>3, <2>4, <1>1 DEF SegmentOK
  <2>6. i2 \in Ins /\ i2.cur = b /\ i2.next[b] = x /\ i2.end[b] = hi /\ i2.data[b] = d
    BY <2>3, <1>1 DEF Ins
  <2>7. InOK(i2)
    BY <2>5, <2>6 DEF InOK
  <2> QED
    BY <1>2, <1>4, <1>9, <2>7 DEF s, c
<1> QED
  BY <1>10, <1>11

\* A message that fits, and what is taken from a ring nobody has written.
LEMMA ReceivedFacts ==
  ASSUME NEW i, InOK(i), NEW m \in WholeMessages, To!Fits(m), NEW p
  PROVE  InOK(ReceivedOf(i, m, p))
<1> DEFINE b == 1 - i.cur
           r == ReceivedOf(i, m, p)
           d == [k \in Cell |-> IF k < Len(m.data) THEN m.data[k + 1] ELSE i.data[b][k]]
           lo == IF m.phase = p THEN m.beginning ELSE 0
           hi == IF m.phase = p THEN m.end ELSE 0
<1>1. i \in Ins /\ b \in 0 .. 1 /\ i.data[b] \in Cells
  BY DEF InOK, Ins
<1>2. m \in Messages /\ Len(m.data) = m.end + 1 /\ SegmentOK(Carried(m), m.beginning, m.end)
  BY DEF WholeMessages
<1>3. m.end \in Cell /\ m.beginning \in Nat /\ m.beginning + 3 <= m.end /\ m.data \in Seq(Int)
  BY <1>2 DEF SegmentOK, Messages
<1>4. sizeOut \in Nat \ {0}
  BY StrengtheningAssumption
<1>5. r = [i EXCEPT !.cur = b, !.data[b] = d, !.next[b] = lo, !.end[b] = hi]
  BY DEF ReceivedOf
<1>6. d \in Cells
  <2>1. ASSUME NEW k \in Cell PROVE (IF k < Len(m.data) THEN m.data[k + 1] ELSE i.data[b][k]) \in Int
    <3>1. k < Len(m.data) => k + 1 \in 1 .. Len(m.data)
      BY <1>2, <1>3, <1>4 DEF Cell
    <3> QED
      BY <3>1, <1>1, <1>3 DEF Cells
  <2> QED
    BY <2>1 DEF Cells
<1>7. \A k \in 0 .. m.end : d[k] = Carried(m)[k]
  <2> SUFFICES ASSUME NEW k \in 0 .. m.end PROVE d[k] = Carried(m)[k]
    OBVIOUS
  <2>1. k \in Cell /\ k < Len(m.data)
    BY <1>2, <1>3, <1>4 DEF Cell
  <2> QED
    BY <2>1 DEF Carried
<1>8. 0 \in Cell /\ m.beginning \in Cell
  BY <1>3, <1>4 DEF Cell
<1> HIDE DEF b, r, d
<1>9. r \in Ins /\ r.cur = b /\ r.data[b] = d /\ r.next[b] = lo /\ r.end[b] = hi
  BY <1>1, <1>3, <1>5, <1>6, <1>8 DEF Ins
<1>10. CASE m.phase = p
  <2> DEFINE a == Carried(m)
             x == m.beginning
             y == m.end
  <2>1. SegmentOK(a, x, y) /\ x \in Nat /\ y \in Nat /\ x + 3 <= y /\ y \in Cell
    BY <1>2, <1>3, <1>4 DEF Cell
  <2> HIDE DEF a, x, y
  <2>2. \A k \in 0 .. y : d[k] = a[k]
    BY <1>7 DEF a, y
  <2>3. ASSUME NEW z \in x .. y, d[z] = 0
        PROVE  /\ z < y => z + 4 <= y /\ d[z + 1] # 0 /\ d[z + 2] # 0 /\ d[z + 3] # 0
               /\ d[z - 1] >= Offset /\ d[z - 2] = Offset
    <3>1. z \in Int /\ z \in 0 .. y /\ a[z] = 0
      BY <2>1, <2>2, <2>3
    <3>2. a[x] # 0 /\ a[x + 1] # 0 /\ a[x + 2] # 0
      BY <2>1 DEF SegmentOK
    <3>3. z >= x + 3
      <4>1. z # x /\ z # x + 1 /\ z # x + 2
        BY <3>1, <3>2
      <4> QED
        BY <4>1, <3>1, <2>1, <2>3
    <3>4. /\ z < y => z + 4 <= y /\ a[z + 1] # 0 /\ a[z + 2] # 0 /\ a[z + 3] # 0
          /\ a[z - 1] >= Offset /\ a[z - 2] = Offset
      BY <3>1, <2>1, <2>3 DEF SegmentOK
    <3>5. z - 1 \in 0 .. y /\ z - 2 \in 0 .. y
      BY <3>1, <3>3, <2>1
    <3>6. z < y => z + 1 \in 0 .. y /\ z + 2 \in 0 .. y /\ z + 3 \in 0 .. y
      BY <3>1, <3>4, <2>1
    <3> QED
      BY <3>4, <3>5, <3>6, <2>2
  <2>4. d[x] # 0 /\ d[x + 1] # 0 /\ d[x + 2] # 0 /\ d[y] = 0
    <3>1. x \in 0 .. y /\ x + 1 \in 0 .. y /\ x + 2 \in 0 .. y /\ y \in 0 .. y
      BY <2>1
    <3> QED
      BY <3>1, <2>1, <2>2 DEF SegmentOK
  <2>5. SegmentOK(d, x, y)
    BY <2>1, <2>3, <2>4 DEF SegmentOK
  <2> QED
    BY <1>9, <1>10, <2>5 DEF InOK, x, y, r
<1>11. CASE m.phase # p
  BY <1>9, <1>11 DEF InOK, UnreadOf, r
<1> QED
  BY <1>10, <1>11

-----------------------------------------------------------------------------
(* The work set.                                                           *)

LEMMA BestFacts ==
  ASSUME NEW w \in Seq(Clauses), w # << >>
  PROVE  Best(w) \in 1 .. Len(w)
<1> DEFINE D == 1 .. Len(w)
           lens == {Len(w[i]) : i \in D}
<1>1. Len(w) \in Nat /\ DOMAIN w = D /\ 1 \in D
  BY DEF Clauses
<1>2. \A i \in D : Len(w[i]) \in Nat
  <2>1. \A i \in D : w[i] \in Clauses
    OBVIOUS
  <2>2. \A c \in Clauses : Len(c) \in Nat
    BY DEF Clauses
  <2> QED
    BY <2>1, <2>2
<1>3. lens \in SUBSET Nat /\ lens # {}
  BY <1>1, <1>2
<1>4. PICK l \in lens : \A k \in lens : l <= k
  BY <1>3, LeastNatural
<1> DEFINE tops == {Len(w) - i : i \in {j \in D : Len(w[j]) = l}}
<1>5. tops \in SUBSET Nat /\ tops # {}
  BY <1>1, <1>4
<1> HIDE DEF tops
<1>6. PICK t \in tops : \A k \in tops : t <= k
  BY <1>5, LeastNatural
<1>7. PICK i \in D : Len(w[i]) = l /\ t = Len(w) - i
  BY <1>6 DEF tops
<1>8. ASSUME NEW j \in D PROVE Len(w[i]) < Len(w[j]) \/ (Len(w[i]) = Len(w[j]) /\ i >= j)
  <2>1. l <= Len(w[j]) /\ Len(w[j]) \in Nat /\ l \in Nat
    BY <1>2, <1>3, <1>4
  <2>2. ASSUME Len(w[j]) = l PROVE i >= j
    <3>1. Len(w) - j \in tops
      BY <2>2 DEF tops
    <3>2. Len(w) - i <= Len(w) - j
      BY <3>1, <1>6, <1>7
    <3> QED
      BY <3>2, <1>1, <1>7
  <2> QED
    BY <2>1, <2>2, <1>7
<1>9. \E x \in D : \A j \in D : Len(w[x]) < Len(w[j]) \/ (Len(w[x]) = Len(w[j]) /\ x >= j)
  BY <1>8
<1>10. Best(w) = CHOOSE x \in D : \A j \in D : Len(w[x]) < Len(w[j]) \/ (Len(w[x]) = Len(w[j]) /\ x >= j)
  BY <1>1 DEF Best
<1> HIDE DEF D
<1> QED
  BY <1>9, <1>10 DEF D

LEMMA InsertedFacts ==
  ASSUME NEW S, NEW w \in Seq(S), NEW c \in S
  PROVE  Inserted(w, c) \in Seq(S)
<1>1. CASE Len(w) = opt_reducer_work
  <2>1. w # << >>
    BY <1>1, StrengtheningAssumption
  <2> QED
    BY <1>1, <2>1 DEF Inserted
<1>2. CASE Len(w) # opt_reducer_work
  BY <1>2 DEF Inserted
<1> QED
  BY <1>1, <1>2

LEMMA RemovedFacts ==
  ASSUME NEW S, NEW w \in Seq(S), NEW i \in 1 .. Len(w)
  PROVE  RemoveAt(w, i) \in Seq(S) /\ Len(RemoveAt(w, i)) = Len(w) - 1
<1>1. Len(w) \in Nat /\ \A k \in 1 .. Len(w) : w[k] \in S
  OBVIOUS
<1>2. SubSeq(w, 1, i - 1) \in Seq(S) /\ Len(SubSeq(w, 1, i - 1)) = i - 1
  <2>1. \A k \in 1 .. i - 1 : w[k] \in S
    BY <1>1
  <2> QED
    BY <2>1, SubSeqProperties
<1>3. SubSeq(w, i + 1, Len(w)) \in Seq(S) /\ Len(SubSeq(w, i + 1, Len(w))) = Len(w) - i
  <2>1. \A k \in i + 1 .. Len(w) : w[k] \in S
    BY <1>1
  <2> QED
    BY <2>1, <1>1, SubSeqProperties
<1>4. RemoveAt(w, i) = SubSeq(w, 1, i - 1) \o SubSeq(w, i + 1, Len(w))
  BY DEF RemoveAt
<1> HIDE DEF RemoveAt
<1>5. ASSUME NEW s \in Seq(S), NEW t \in Seq(S) PROVE s \o t \in Seq(S) /\ Len(s \o t) = Len(s) + Len(t)
  BY ConcatProperties
<1>6. (i - 1) + (Len(w) - i) = Len(w) - 1
  BY <1>1
<1> QED
  BY <1>2, <1>3, <1>4, <1>5, <1>6

\* One turn of the loop in push_to_reducer, and what it keeps.
Turn(e) ==
  LET c == e.work[Best(e.work)]
      rest == RemoveAt(e.work, Best(e.work))
  IN  IF e.full THEN e
      ELSE IF Len(c) + 1 <= To!getRemainingOutSpace(e.out)
           THEN [work |-> rest, out |-> To!Pushed(e.out, c), full |-> FALSE]
           ELSE [e EXCEPT !.full = TRUE, !.work = IF EverFits(c) THEN Inserted(rest, c) ELSE rest]
Turns == [work : Seq(Clauses), out : {o \in Outs : OutOK(o)}, full : BOOLEAN]

LEMMA TurnFacts ==
  ASSUME NEW e \in Turns, ~ e.full => e.work # << >>
  PROVE  Turn(e) \in Turns /\ (~ Turn(e).full => ~ e.full /\ Len(Turn(e).work) = Len(e.work) - 1)
<1>1. CASE e.full
  BY <1>1 DEF Turn
<1>2. CASE ~ e.full
  <2> DEFINE c == e.work[Best(e.work)]
             rest == RemoveAt(e.work, Best(e.work))
  <2>1. e.work \in Seq(Clauses) /\ e.out \in Outs /\ OutOK(e.out) /\ e.work # << >>
    BY <1>2 DEF Turns
  <2>2. Best(e.work) \in 1 .. Len(e.work)
    BY <2>1, BestFacts
  <2>3. c \in Clauses
    BY <2>1, <2>2
  <2>4. rest \in Seq(Clauses) /\ Len(rest) = Len(e.work) - 1
    BY <2>1, <2>2, RemovedFacts
  <2>5. Inserted(rest, c) \in Seq(Clauses)
    BY <2>3, <2>4, InsertedFacts
  <2>6. To!Pushed(e.out, c) \in Outs /\ OutOK(To!Pushed(e.out, c))
    BY <2>1, <2>3, PushedOK DEF OutOK
  <2>7. Turn(e) = IF Len(c) + 1 <= To!getRemainingOutSpace(e.out)
                  THEN [work |-> rest, out |-> To!Pushed(e.out, c), full |-> FALSE]
                  ELSE [e EXCEPT !.full = TRUE, !.work = IF EverFits(c) THEN Inserted(rest, c) ELSE rest]
    BY <1>2 DEF Turn
  <2> HIDE DEF c, rest
  <2>8. CASE Len(c) + 1 <= To!getRemainingOutSpace(e.out)
    BY <2>8, <2>4, <2>6, <2>7, <1>2 DEF Turns
  <2>9. CASE ~ (Len(c) + 1 <= To!getRemainingOutSpace(e.out))
    <3>1. Turn(e) = [e EXCEPT !.full = TRUE, !.work = IF EverFits(c) THEN Inserted(rest, c) ELSE rest]
      BY <2>7, <2>9
    <3>2. (IF EverFits(c) THEN Inserted(rest, c) ELSE rest) \in Seq(Clauses)
      BY <2>4, <2>5
    <3> QED
      BY <3>1, <3>2 DEF Turns
  <2> QED
    BY <2>8, <2>9
<1> QED
  BY <1>1, <1>2

\* What every turn keeps, push_to_reducer keeps.
LEMMA DrainedIn ==
  ASSUME NEW w \in Seq(Clauses), NEW o, NEW T \in SUBSET Turns,
         [work |-> w, out |-> o, full |-> FALSE] \in T,
         \A e \in T : (~ e.full => e.work # << >>) => Turn(e) \in T
  PROVE  Drained(w, o) \in T
<1> DEFINE N == Len(w)
           base == [work |-> w, out |-> o, full |-> FALSE]
           Good(n, e) == e \in T /\ (~ e.full => Len(e.work) = N - n)
           Runs(f, n) == /\ f = [k \in 0 .. n |-> IF k = 0 THEN base ELSE Turn(f[k - 1])]
                         /\ \A k \in 0 .. n : Good(k, f[k])
<1>1. N \in Nat /\ base \in T
  OBVIOUS
<1>2. Good(0, base)
  BY <1>1
<1>3. ASSUME NEW n \in 0 .. N - 1, NEW e, Good(n, e) PROVE Good(n + 1, Turn(e))
  <2>1. ~ e.full => e.work # << >>
    BY <1>1, <1>3
  <2>2. Turn(e) \in T /\ (~ Turn(e).full => ~ e.full /\ Len(Turn(e).work) = Len(e.work) - 1)
    BY <2>1, <1>3, TurnFacts
  <2> QED
    BY <2>2, <1>1, <1>3
<1> HIDE DEF Good, base
<1> DEFINE Missing == {n \in 0 .. N : ~ \E f : Runs(f, n)}
<1>4. \E f : Runs(f, 0)
  <2> DEFINE f == [k \in 0 .. 0 |-> base]
  <2>1. f = [k \in 0 .. 0 |-> IF k = 0 THEN base ELSE Turn(f[k - 1])]
    OBVIOUS
  <2>2. \A k \in 0 .. 0 : Good(k, f[k])
    BY <1>2
  <2> HIDE DEF f
  <2> QED
    BY <2>1, <2>2
<1>5. ASSUME NEW n \in 0 .. N - 1, NEW f, Runs(f, n) PROVE \E g : Runs(g, n + 1)
  <2> DEFINE g == [k \in 0 .. n + 1 |-> IF k = n + 1 THEN Turn(f[n]) ELSE f[k]]
  <2>1. \A k \in 0 .. n : g[k] = f[k]
    BY <1>1
  <2>2. g[n + 1] = Turn(f[n])
    BY <1>1
  <2>3. \A k \in 0 .. n : f[k] = IF k = 0 THEN base ELSE Turn(f[k - 1])
    BY <1>5
  <2>4. \A k \in 0 .. n + 1 : g[k] = IF k = 0 THEN base ELSE Turn(g[k - 1])
    <3> HIDE DEF g
    <3> SUFFICES ASSUME NEW k \in 0 .. n + 1 PROVE g[k] = IF k = 0 THEN base ELSE Turn(g[k - 1])
      OBVIOUS
    <3>1. CASE k = n + 1
      <4>1. k # 0 /\ k - 1 = n /\ n \in 0 .. n
        BY <3>1, <1>1
      <4> QED
        BY <4>1, <3>1, <2>1, <2>2
    <3>2. CASE k # n + 1
      <4>1. k \in 0 .. n /\ (k # 0 => k - 1 \in 0 .. n)
        BY <3>2, <1>1
      <4> QED
        BY <4>1, <2>1, <2>3
    <3> QED
      BY <3>1, <3>2
  <2>5. g = [k \in 0 .. n + 1 |-> g[k]]
    OBVIOUS
  <2> HIDE DEF g
  <2>6. g = [k \in 0 .. n + 1 |-> IF k = 0 THEN base ELSE Turn(g[k - 1])]
    BY <2>4, <2>5
  <2>7. \A k \in 0 .. n + 1 : Good(k, g[k])
    <3> SUFFICES ASSUME NEW k \in 0 .. n + 1 PROVE Good(k, g[k])
      OBVIOUS
    <3>1. CASE k = n + 1
      <4>1. n \in 0 .. n
        BY <1>1
      <4>2. Good(n, f[n])
        BY <4>1, <1>5
      <4> QED
        BY <4>2, <3>1, <2>2, <1>3
    <3>2. CASE k # n + 1
      <4>1. k \in 0 .. n
        BY <3>2, <1>1
      <4> QED
        BY <4>1, <2>1, <1>5
    <3> QED
      BY <3>1, <3>2
  <2> QED
    BY <2>6, <2>7
<1> HIDE DEF Runs
<1>6. Missing = {}
  <2> SUFFICES ASSUME Missing # {} PROVE FALSE
    OBVIOUS
  <2>1. Missing \in SUBSET Nat
    BY <1>1
  <2>2. PICK m \in Missing : \A k \in Missing : m <= k
    BY <2>1, LeastNatural
  <2>3. m \in 0 .. N /\ ~ \E f : Runs(f, m)
    BY <2>2
  <2>4. m # 0
    BY <2>3, <1>4
  <2>5. m - 1 \in 0 .. N - 1 /\ m - 1 \in 0 .. N /\ ~ (m <= m - 1) /\ (m - 1) + 1 = m
    BY <2>3, <2>4, <1>1
  <2>6. m - 1 \notin Missing
    BY <2>2, <2>5
  <2>7. PICK f : Runs(f, m - 1)
    BY <2>5, <2>6
  <2> QED
    BY <2>3, <2>5, <2>7, <1>5
<1>7. N \in 0 .. N
  BY <1>1
<1>8. \E f : Runs(f, N)
  BY <1>6, <1>7
<1> DEFINE d == CHOOSE f : f = [k \in 0 .. N |-> IF k = 0 THEN base ELSE Turn(f[k - 1])]
<1>9. d = [k \in 0 .. N |-> IF k = 0 THEN base ELSE Turn(d[k - 1])]
  BY <1>8 DEF Runs
<1>10. Drained(w, o) = d[N]
  BY DEF Drained, Turn, base
<1> HIDE DEF d
<1>11. \A f : Runs(f, N) => \A k \in 0 .. N : d[k] = f[k]
  <2> SUFFICES ASSUME NEW f, Runs(f, N) PROVE \A k \in 0 .. N : d[k] = f[k]
    OBVIOUS
  <2> DEFINE Differ == {k \in 0 .. N : d[k] # f[k]}
  <2>1. Differ \in SUBSET Nat
    BY <1>1
  <2>2. f = [k \in 0 .. N |-> IF k = 0 THEN base ELSE Turn(f[k - 1])]
    BY DEF Runs
  <2>3. ASSUME Differ # {} PROVE FALSE
    <3>1. PICK m \in Differ : \A k \in Differ : m <= k
      BY <2>1, <2>3, LeastNatural
    <3>2. m \in 0 .. N /\ d[m] # f[m]
      BY <3>1
    <3>3. m # 0
      <4>1. d[0] = base /\ f[0] = base
        BY <1>1, <1>9, <2>2
      <4> QED
        BY <4>1, <3>2
    <3>4. m - 1 \in 0 .. N /\ ~ (m <= m - 1)
      BY <3>2, <3>3, <1>1
    <3>5. d[m - 1] = f[m - 1]
      BY <3>1, <3>4
    <3>6. d[m] = Turn(d[m - 1]) /\ f[m] = Turn(f[m - 1])
      BY <3>2, <3>3, <1>9, <2>2
    <3> QED
      BY <3>2, <3>5, <3>6
  <2> QED
    BY <2>3
<1>12. Good(N, d[N])
  BY <1>7, <1>8, <1>11 DEF Runs
<1> QED
  BY <1>10, <1>12 DEF Good

LEMMA DrainedFacts ==
  ASSUME NEW w \in Seq(Clauses), NEW o, OutOK(o)
  PROVE  Drained(w, o).work \in Seq(Clauses) /\ OutOK(Drained(w, o).out)
<1>1. [work |-> w, out |-> o, full |-> FALSE] \in Turns
  BY DEF Turns, OutOK
<1>2. Drained(w, o) \in Turns
  BY <1>1, DrainedIn, TurnFacts
<1> QED
  BY <1>2 DEF Turns

-----------------------------------------------------------------------------
(* The two directions, in terms of what is said above of any buffer.       *)

SentOf(o, p) == IF TouchedOf(o) THEN <<To!Message(o, p)>> ELSE << >>
TestedOf(o, completed) ==
  IF completed
  THEN [o EXCEPT !.pending[o.cur] = TouchedOf(o), !.pending[1 - o.cur] = FALSE,
                 !.cur = 1 - o.cur, !.next[1 - o.cur] = 0, !.cycled[1 - o.cur] = FALSE]
  ELSE o

LEMMA ToSide ==
  /\ \A p : To!Sent(p) = SentOf(toOut, p)
  /\ \A completed : To!Tested(completed) = TestedOf(toOut, completed)
  /\ To!Unread = UnreadOf(toIn)
  /\ To!Scanned = ScannedOf(toIn) /\ To!EndsInZero = EndsInZeroOf(toIn)
  /\ To!ClauseRead = ClauseReadOf(toIn) /\ To!AfterClause = AfterOf(toIn)
  /\ \A m, p : To!Received(m, p) = ReceivedOf(toIn, m, p)
<1>1. To!Touched = TouchedOf(toOut)
  BY DEF To!Touched, TouchedOf
<1>2. /\ \A p : To!Sent(p) = SentOf(toOut, p)
      /\ \A completed : To!Tested(completed) = TestedOf(toOut, completed)
  BY <1>1 DEF To!Sent, SentOf, To!Tested, To!Switched, To!Other, TestedOf
<1>3. To!Unread = UnreadOf(toIn)
  BY DEF To!Unread, UnreadOf
<1>4. \A k : To!At(k) = AtOf(toIn, k)
  BY DEF To!At, AtOf
<1>5. To!Scanned = ScannedOf(toIn)
  BY <1>4 DEF To!Scanned, ScannedOf, To!Index, Cell
<1>6. To!EndsInZero = EndsInZeroOf(toIn)
  BY <1>4, <1>5 DEF To!EndsInZero, EndsInZeroOf
<1>7. To!ClauseRead = ClauseReadOf(toIn)
  BY <1>3, <1>5, <1>6 DEF To!ClauseRead, ClauseReadOf, Offset
<1>8. To!AfterClause = AfterOf(toIn)
  BY <1>4, <1>5, <1>6 DEF To!AfterClause, AfterOf
<1>9. \A m, p : To!Received(m, p) = ReceivedOf(toIn, m, p)
  BY DEF To!Received, ReceivedOf, To!Other, To!Accepts, To!Index, Cell
<1> QED
  BY <1>2, <1>3, <1>5, <1>6, <1>7, <1>8, <1>9

\* The constants of the two instances are the same.
LEMMA SameConstants ==
  /\ Back!litPoolStorageOffset = Offset /\ Back!Index = Cell
  /\ Back!NewOut = To!NewOut /\ Back!NewIn = To!NewIn
  /\ \A m : Back!Fits(m) = To!Fits(m)
  /\ \A o, p : Back!Message(o, p) = To!Message(o, p)
  /\ \A o, c : Back!Pushed(o, c) = To!Pushed(o, c)
<1>1. Back!litPoolStorageOffset = Offset /\ Back!Index = Cell
  BY DEF Back!litPoolStorageOffset, Offset, To!litPoolStorageOffset, Back!Index, Cell
<1>2. To!Index = Cell
  BY DEF To!Index, Cell
<1>3. Back!NewOut = To!NewOut /\ Back!NewIn = To!NewIn
  BY <1>1, <1>2 DEF Back!NewOut, To!NewOut, Back!NewIn, To!NewIn, Back!Ring, To!Ring, Back!Uninitialised, To!Uninitialised
<1>4. \A m : Back!Fits(m) = To!Fits(m)
  BY DEF Back!Fits, To!Fits, Back!PADDING, To!PADDING
<1>5. \A o : /\ Back!Beginning(o) = To!Beginning(o) /\ Back!EndOf(o) = To!EndOf(o)
             /\ Back!InUse(o) = To!InUse(o) /\ Back!SendLength(o) = To!SendLength(o)
  <2>1. \A o : Back!Beginning(o) = To!Beginning(o)
    BY <1>1, <1>2 DEF Back!Beginning, To!Beginning, Back!AfterFirstZero, To!AfterFirstZero
  <2>2. \A o : Back!EndOf(o) = To!EndOf(o)
    BY DEF Back!EndOf, To!EndOf
  <2> QED
    BY <2>1, <2>2 DEF Back!InUse, To!InUse, Back!SendLength, To!SendLength, Back!PADDING, To!PADDING
<1>6. \A o, p : Back!Message(o, p) = To!Message(o, p)
  BY <1>5 DEF Back!Message, To!Message
<1>7. \A c : Back!Stored(c) = To!Stored(c)
  BY <1>1 DEF Back!Stored, To!Stored, Offset
<1>8. \A o, c : Back!Pushed(o, c) = To!Pushed(o, c)
  <2> SUFFICES ASSUME NEW o, NEW c PROVE Back!Pushed(o, c) = To!Pushed(o, c)
    OBVIOUS
  <2>1. Back!Stored(c) = To!Stored(c) /\ Back!Index = To!Index
    BY <1>1, <1>2, <1>7
  <2> QED
    BY <2>1, Zenon DEF Back!Pushed, To!Pushed
<1> QED
  BY <1>1, <1>3, <1>4, <1>6, <1>8

LEMMA BackSide ==
  /\ \A p : Back!Sent(p) = SentOf(backOut, p)
  /\ \A completed : Back!Tested(completed) = TestedOf(backOut, completed)
  /\ Back!Unread = UnreadOf(backIn)
  /\ Back!Scanned = ScannedOf(backIn) /\ Back!EndsInZero = EndsInZeroOf(backIn)
  /\ Back!ClauseRead = ClauseReadOf(backIn) /\ Back!AfterClause = AfterOf(backIn)
  /\ \A m, p : Back!Received(m, p) = ReceivedOf(backIn, m, p)
<1>1. Back!Touched = TouchedOf(backOut)
  BY DEF Back!Touched, TouchedOf
<1>2. /\ \A p : Back!Sent(p) = SentOf(backOut, p)
      /\ \A completed : Back!Tested(completed) = TestedOf(backOut, completed)
  BY <1>1, SameConstants DEF Back!Sent, SentOf, Back!Tested, Back!Switched, Back!Other, TestedOf
<1>3. Back!Unread = UnreadOf(backIn)
  BY DEF Back!Unread, UnreadOf
<1>4. \A k : Back!At(k) = AtOf(backIn, k)
  BY DEF Back!At, AtOf
<1>5. Back!Scanned = ScannedOf(backIn)
  BY <1>4, SameConstants DEF Back!Scanned, ScannedOf
<1>6. Back!EndsInZero = EndsInZeroOf(backIn)
  BY <1>4, <1>5 DEF Back!EndsInZero, EndsInZeroOf
<1>7. Back!ClauseRead = ClauseReadOf(backIn)
  BY <1>3, <1>5, <1>6, SameConstants DEF Back!ClauseRead, ClauseReadOf
<1>8. Back!AfterClause = AfterOf(backIn)
  BY <1>4, <1>5, <1>6 DEF Back!AfterClause, AfterOf
<1>9. \A m, p : Back!Received(m, p) = ReceivedOf(backIn, m, p)
  BY SameConstants DEF Back!Received, ReceivedOf, Back!Other, Back!Accepts
<1> QED
  BY <1>2, <1>3, <1>5, <1>6, <1>7, <1>8, <1>9

-----------------------------------------------------------------------------
(* What the operations keep of the buffers.                                *)

Wires == Seq(WholeMessages)

LEMMA NewBuffers == OutOK(To!NewOut) /\ InOK(To!NewIn)
<1>1. 0 \in Cell /\ sizeOut \in Nat \ {0}
  BY StrengtheningAssumption DEF Cell
<1>2. To!Ring \in Cells
  BY DEF To!Ring, To!Index, To!Uninitialised, Cells, Cell
<1>3. To!NewOut \in Outs /\ To!NewIn \in Ins
  BY <1>1, <1>2 DEF To!NewOut, To!NewIn, Outs, Ins
<1>4. \A d : LapOK(d, 0, FALSE)
  BY DEF LapOK, Written, Ruled, Starts
<1>5. \A b \in 0 .. 1 : To!NewOut.next[b] = 0 /\ To!NewOut.cycled[b] = FALSE
  BY DEF To!NewOut
<1>6. ~ UnreadOf(To!NewIn)
  BY DEF UnreadOf, To!NewIn
<1> QED
  BY <1>3, <1>4, <1>5, <1>6 DEF OutOK, InOK

LEMMA TestedFacts ==
  ASSUME NEW o, OutOK(o), NEW completed \in BOOLEAN
  PROVE  OutOK(TestedOf(o, completed))
<1> DEFINE b == 1 - o.cur
           t == TestedOf(o, completed)
<1>1. CASE ~ completed
  BY <1>1 DEF TestedOf
<1>2. CASE completed
  <2>1. o \in Outs /\ b \in 0 .. 1 /\ o.cur \in 0 .. 1 /\ 0 \in Cell /\ TouchedOf(o) \in BOOLEAN
    BY StrengtheningAssumption DEF OutOK, Outs, Cell, TouchedOf
  <2>2. t = [o EXCEPT !.pending[o.cur] = TouchedOf(o), !.pending[b] = FALSE,
                      !.cur = b, !.next[b] = 0, !.cycled[b] = FALSE]
    BY <1>2 DEF TestedOf
  <2> HIDE DEF b, t
  <2>3. /\ t \in Outs /\ t.next[b] = 0 /\ t.cycled[b] = FALSE
        /\ \A x \in (0 .. 1) \ {b} : t.next[x] = o.next[x] /\ t.cycled[x] = o.cycled[x]
        /\ t.data = o.data
    BY <2>1, <2>2 DEF Outs
  <2>4. \A d : LapOK(d, 0, FALSE)
    BY DEF LapOK, Written, Ruled, Starts
  <2>5. \A x \in 0 .. 1 : LapOK(t.data[x], t.next[x], t.cycled[x])
    BY <2>3, <2>4 DEF OutOK
  <2> QED
    BY <2>3, <2>5 DEF OutOK, t
<1> QED
  BY <1>1, <1>2

LEMMA SentFacts ==
  ASSUME NEW o, OutOK(o), NEW w \in Wires, NEW p \in Int
  PROVE  w \o SentOf(o, p) \in Wires
<1>1. SentOf(o, p) \in Wires
  <2>1. CASE TouchedOf(o)
    <3>1. To!Message(o, p) \in WholeMessages
      BY <2>1, MessageFacts
    <3> QED
      BY <2>1, <3>1 DEF SentOf, Wires
  <2>2. CASE ~ TouchedOf(o)
    BY <2>2 DEF SentOf, Wires
  <2> QED
    BY <2>1, <2>2
<1> HIDE DEF SentOf
<1> QED
  BY <1>1, ConcatProperties DEF Wires

LEMMA SelectedFacts ==
  ASSUME NEW S, NEW s \in Seq(S), NEW f \in To!Selections(Len(s))
  PROVE  /\ To!Selected(s, f) \in Seq(S)
         /\ Len(To!Selected(s, f)) \in Nat
         /\ \A k \in 1 .. Len(To!Selected(s, f)) : \E j \in 1 .. Len(s) : To!Selected(s, f)[k] = s[j]
<1>1. PICK m \in 0 .. Len(s) : f \in [1 .. m -> 1 .. Len(s)]
  BY DEF To!Selections
<1>2. m \in Nat /\ Len(s) \in Nat
  BY <1>1
<1>3. To!Selected(s, f) = [k \in 1 .. m |-> s[f[k]]]
  BY <1>1 DEF To!Selected
<1>4. \A k \in 1 .. m : f[k] \in 1 .. Len(s) /\ s[f[k]] \in S
  BY <1>1
<1> QED
  BY <1>2, <1>3, <1>4

LEMMA SameSelections ==
  \A n, s, f : Back!Selections(n) = To!Selections(n) /\ Back!Selected(s, f) = To!Selected(s, f)
BY DEF Back!Selections, To!Selections, Back!Selected, To!Selected

LEMMA ToPushed ==
  ASSUME OutOK(toOut), toWire \in Wires, NEW completed \in BOOLEAN, NEW p \in Int,
         NEW after, OutOK(after), To!Push(completed, p, after)
  PROVE  OutOK(toOut') /\ toWire' \in Wires
<1>1. toOut' = after /\ toWire' = IF completed THEN toWire \o SentOf(toOut, p) ELSE toWire
  BY ToSide DEF To!Push
<1> QED
  BY <1>1, SentFacts

LEMMA BackPushed ==
  ASSUME OutOK(backOut), backWire \in Wires, NEW completed \in BOOLEAN, NEW p \in Int,
         NEW after, OutOK(after), Back!Push(completed, p, after)
  PROVE  OutOK(backOut') /\ backWire' \in Wires
<1>1. backOut' = after /\ backWire' = IF completed THEN backWire \o SentOf(backOut, p) ELSE backWire
  BY BackSide DEF Back!Push
<1> QED
  BY <1>1, SentFacts

LEMMA ToClosed ==
  ASSUME toWire \in Wires, NEW p, To!CloseOut(p)
  PROVE  OutOK(toOut') /\ toWire' \in Wires
<1>1. PICK kept \in To!Selections(Len(toWire)) : toWire' = To!Selected(toWire, kept)
  BY DEF To!CloseOut
<1> QED
  BY <1>1, SelectedFacts, NewBuffers DEF To!CloseOut, Wires

LEMMA BackClosed ==
  ASSUME backWire \in Wires, NEW p, Back!CloseOut(p)
  PROVE  OutOK(backOut') /\ backWire' \in Wires
<1>1. PICK kept \in To!Selections(Len(backWire)) : backWire' = To!Selected(backWire, kept)
  BY SameSelections DEF Back!CloseOut
<1>2. backOut' = To!NewOut
  BY SameConstants DEF Back!CloseOut
<1> QED
  BY <1>1, <1>2, SelectedFacts, NewBuffers DEF Wires

LEMMA ToTaken ==
  ASSUME toWire \in Wires, InOK(toIn), NEW p, To!GetClause(p)
  PROVE  toWire' \in Wires /\ InOK(toIn')
<1>1. CASE To!Unread /\ toIn' = [toIn EXCEPT !.next[toIn.cur] = To!AfterClause] /\ UNCHANGED toWire
  BY <1>1, ToSide, ReadFacts
<1>2. CASE /\ toWire # << >> /\ To!Fits(Head(toWire))
           /\ toIn' = To!Received(Head(toWire), p) /\ toWire' = Tail(toWire)
  <2>1. Head(toWire) \in WholeMessages /\ Tail(toWire) \in Wires
    BY <1>2 DEF Wires
  <2> QED
    BY <1>2, <2>1, ToSide, ReceivedFacts
<1>3. CASE UNCHANGED <<toIn, toWire>>
  BY <1>3
<1> QED
  BY <1>1, <1>2, <1>3 DEF To!GetClause

LEMMA BackTaken ==
  ASSUME backWire \in Wires, InOK(backIn), NEW p, Back!GetClause(p)
  PROVE  backWire' \in Wires /\ InOK(backIn')
<1>1. CASE Back!Unread /\ backIn' = [backIn EXCEPT !.next[backIn.cur] = Back!AfterClause] /\ UNCHANGED backWire
  BY <1>1, BackSide, ReadFacts
<1>2. CASE /\ backWire # << >> /\ To!Fits(Head(backWire))
           /\ backIn' = Back!Received(Head(backWire), p) /\ backWire' = Tail(backWire)
  <2>1. Head(backWire) \in WholeMessages /\ Tail(backWire) \in Wires
    BY <1>2 DEF Wires
  <2> QED
    BY <1>2, <2>1, BackSide, ReceivedFacts
<1>3. CASE UNCHANGED <<backIn, backWire>>
  BY <1>3
<1> QED
  BY <1>1, <1>2, <1>3, SameConstants DEF Back!GetClause

LEMMA ToClosedIn ==
  ASSUME toWire \in Wires, To!CloseIn
  PROVE  toWire' \in Wires /\ InOK(toIn')
BY NewBuffers DEF To!CloseIn, Wires

LEMMA BackClosedIn ==
  ASSUME backWire \in Wires, Back!CloseIn
  PROVE  backWire' \in Wires /\ InOK(backIn')
<1>1. backIn' = To!NewIn /\ (backWire' = backWire \/ (backWire # << >> /\ backWire' = Tail(backWire)))
  BY SameConstants DEF Back!CloseIn
<1> QED
  BY <1>1, NewBuffers DEF Wires

-----------------------------------------------------------------------------
(* Clauses.                                                                *)

LEMMA WithPosFacts ==
  ASSUME NEW lits \in Seq(Int \ {0}), lits # << >>, NEW pos \in Nat
  PROVE  WithPos(lits, pos) \in Clauses /\ Lits(WithPos(lits, pos)) = lits
         /\ litPoolPosOf(WithPos(lits, pos)) = pos
<1> DEFINE c == WithPos(lits, pos)
           n == Len(lits)
<1>1. lits \in Seq(Int) /\ n \in Nat /\ n >= 1 /\ \A k \in 1 .. n : lits[k] \in Int /\ lits[k] # 0
  OBVIOUS
<1>2. c = lits \o <<0, pos>>
  BY DEF WithPos
<1>3. /\ c \in Seq(Int) /\ Len(c) = n + 2
      /\ \A k \in 1 .. n : c[k] = lits[k]
      /\ c[n + 1] = 0 /\ c[n + 2] = pos
  BY <1>1, <1>2
<1> HIDE DEF c
<1>4. c \in Clauses
  <2>1. Len(c) >= 3 /\ Len(c) - 1 = n + 1 /\ Len(c) - 2 = n
    BY <1>1, <1>3
  <2>2. \A k \in 1 .. n : c[k] # 0
    BY <1>1, <1>3
  <2>3. c[Len(c) - 1] = 0 /\ c[Len(c)] = pos /\ \A k \in 1 .. Len(c) - 2 : c[k] # 0
    BY <1>3, <2>1, <2>2
  <2> QED
    BY <1>3, <2>1, <2>3 DEF Clauses
<1>5. Lits(c) = lits
  <2>1. SubSeq(c, 1, n) \in Seq(Int) /\ Len(SubSeq(c, 1, n)) = n /\ \A k \in 1 .. n : SubSeq(c, 1, n)[k] = c[k]
    BY <1>1, <1>3
  <2>2. Lits(c) = SubSeq(c, 1, n)
    BY <1>1, <1>3 DEF Lits
  <2> QED
    BY <1>1, <1>3, <2>1, <2>2, SeqEqual
<1> QED
  BY <1>1, <1>3, <1>4, <1>5 DEF litPoolPosOf, c

LEMMA LitsOfFacts ==
  ASSUME NEW p \in Int, p >= -1, NEW pos \in Nat, NEW n \in Nat \ {0}
  PROVE  LitsOf(p, pos, n) \in Seq(Int \ {0}) /\ LitsOf(p, pos, n) # << >>
<1>1. \A k \in 1 .. n : 100 * (p + 1) + 10 * pos + k \in Int \ {0}
  OBVIOUS
<1>2. LitsOf(p, pos, n) \in Seq(Int \ {0}) /\ Len(LitsOf(p, pos, n)) = n
  BY <1>1 DEF LitsOf
<1> QED
  BY <1>2

LEMMA ClauseFacts ==
  ASSUME NEW c \in Clauses
  PROVE  /\ Lits(c) \in Seq(Int \ {0}) /\ Len(Lits(c)) = Len(c) - 2
         /\ litPoolOf(c) = 0 /\ litPoolPosOf(c) \in Nat
         /\ \A k \in 1 .. Len(c) - 2 : Lits(c)[k] = c[k]
<1>1. /\ c \in Seq(Int) /\ Len(c) \in Nat /\ Len(c) >= 3
      /\ \A k \in 1 .. Len(c) - 2 : c[k] \in Int \ {0}
      /\ c[Len(c) - 1] = 0 /\ c[Len(c)] \in Nat
  BY DEF Clauses
<1>2. /\ SubSeq(c, 1, Len(c) - 2) \in Seq(Int \ {0}) /\ Len(SubSeq(c, 1, Len(c) - 2)) = Len(c) - 2
  BY <1>1, SubSeqProperties
<1>3. \A k \in 1 .. Len(c) - 2 : SubSeq(c, 1, Len(c) - 2)[k] = c[k]
  BY <1>1
<1> QED
  BY <1>1, <1>2, <1>3 DEF Lits, litPoolOf, litPoolPosOf

LEMMA ShorterFacts ==
  ASSUME NEW lits \in Seq(Int \ {0}), NEW x \in Shorter(lits)
  PROVE  x \in Seq(Int \ {0}) /\ x # << >>
<1>1. PICK f \in To!Selections(Len(lits)) : x = To!Selected(lits, f)
  BY DEF Shorter, Thinned
<1>2. x \in Seq(Int \ {0})
  BY <1>1, SelectedFacts
<1>3. Len(x) \in 1 .. Len(lits) - 1
  BY DEF Shorter
<1> QED
  BY <1>2, <1>3

-----------------------------------------------------------------------------
(* Whose clauses these are.  An ownership own says of some positions which *)
(* literals a clause may have that names them; a buffer holds it if each   *)
(* of its clauses names one of the positions, with literals of it only,    *)
(* and no two name the same.                                               *)

Within(own, own2) == DOMAIN own \subseteq DOMAIN own2 /\ \A q \in DOMAIN own : own[q] \subseteq own2[q]
Part(own, A) == [q \in A \cap DOMAIN own |-> own[q]]
With(own, p, lits) == [q \in {p} \cup DOMAIN own |-> IF q = p THEN lits ELSE own[q]]

\* The clauses that end between the cells lo and hi.
Named(d, z) == d[z - 1] - Offset
Holds(d, lo, hi, own) ==
  \A z \in lo + 1 .. hi : d[z] = 0 =>
    /\ Named(d, z) \in DOMAIN own
    /\ \A y \in lo + 1 .. hi : d[y] = 0 /\ Named(d, y) = Named(d, z) => y = z
    /\ \A k \in lo .. z - 3 : (\A j \in k .. z - 1 : d[j] # 0) => d[k] \in own[Named(d, z)]

LEMMA HoldsMore ==
  ASSUME NEW d, NEW lo, NEW hi, NEW own, NEW own2, Holds(d, lo, hi, own), Within(own, own2)
  PROVE  Holds(d, lo, hi, own2)
<1> SUFFICES ASSUME NEW z \in lo + 1 .. hi, d[z] = 0
             PROVE  /\ Named(d, z) \in DOMAIN own2
                    /\ \A y \in lo + 1 .. hi : d[y] = 0 /\ Named(d, y) = Named(d, z) => y = z
                    /\ \A k \in lo .. z - 3 : (\A j \in k .. z - 1 : d[j] # 0) => d[k] \in own2[Named(d, z)]
  BY DEF Holds
<1>1. /\ Named(d, z) \in DOMAIN own
      /\ \A y \in lo + 1 .. hi : d[y] = 0 /\ Named(d, y) = Named(d, z) => y = z
      /\ \A k \in lo .. z - 3 : (\A j \in k .. z - 1 : d[j] # 0) => d[k] \in own[Named(d, z)]
  BY DEF Holds
<1>2. Named(d, z) \in DOMAIN own2 /\ own[Named(d, z)] \subseteq own2[Named(d, z)]
  BY <1>1 DEF Within
<1> QED
  BY <1>1, <1>2

\* A part of the ring, in another ring.
LEMMA HoldsPart ==
  ASSUME NEW d, NEW e, NEW lo \in Int, NEW hi \in Int, NEW lo2 \in Int, NEW hi2 \in Int, NEW own,
         Holds(d, lo, hi, own), lo <= lo2, hi2 <= hi,
         \A k \in lo2 .. hi2 : e[k] = d[k]
  PROVE  Holds(e, lo2, hi2, own)
<1> SUFFICES ASSUME NEW z \in lo2 + 1 .. hi2, e[z] = 0
             PROVE  /\ Named(e, z) \in DOMAIN own
                    /\ \A y \in lo2 + 1 .. hi2 : e[y] = 0 /\ Named(e, y) = Named(e, z) => y = z
                    /\ \A k \in lo2 .. z - 3 : (\A j \in k .. z - 1 : e[j] # 0) => e[k] \in own[Named(e, z)]
  BY DEF Holds
<1>1. \A y \in lo2 + 1 .. hi2 : y \in Int /\ y \in lo + 1 .. hi /\ y \in lo2 .. hi2 /\ y - 1 \in lo2 .. hi2
  OBVIOUS
<1>2. \A y \in lo2 + 1 .. hi2 : e[y] = d[y] /\ Named(e, y) = Named(d, y)
  BY <1>1 DEF Named
<1>3. /\ Named(d, z) \in DOMAIN own
      /\ \A y \in lo + 1 .. hi : d[y] = 0 /\ Named(d, y) = Named(d, z) => y = z
      /\ \A k \in lo .. z - 3 : (\A j \in k .. z - 1 : d[j] # 0) => d[k] \in own[Named(d, z)]
  BY <1>1, <1>2 DEF Holds
<1>4. ASSUME NEW k \in lo2 .. z - 3, \A j \in k .. z - 1 : e[j] # 0 PROVE e[k] \in own[Named(e, z)]
  <2>1. k \in Int /\ z \in Int /\ k \in lo .. z - 3 /\ k \in lo2 .. hi2
    OBVIOUS
  <2>2. \A j \in k .. z - 1 : j \in lo2 .. hi2
    BY <2>1
  <2>3. \A j \in k .. z - 1 : d[j] # 0
    BY <2>2, <1>4
  <2>4. d[k] \in own[Named(d, z)]
    BY <2>1, <2>3, <1>3
  <2> QED
    BY <2>1, <2>4, <1>2
<1> QED
  BY <1>1, <1>2, <1>3, <1>4

\* A clause is pushed that names a position of its own.
LEMMA PushedHolds ==
  ASSUME NEW d \in Cells, NEW n \in Cell, NEW cyc \in BOOLEAN, LapOK(d, n, cyc),
         NEW c \in Clauses, Len(c) + 1 <= sizeOut,
         NEW own, Holds(d, 0, Written(n, cyc) - 1, own),
         litPoolPosOf(c) \notin DOMAIN own,
         NEW lits, \A k \in 1 .. Len(c) - 2 : c[k] \in lits
  PROVE  LET last == n + Len(c) + 1
         IN  Holds(Placed(d, n, c), 0, Written(last % sizeOut, cyc \/ last >= sizeOut) - 1,
                   With(own, litPoolPosOf(c), lits))
<1> DEFINE L == Len(c)
           p == Placed(d, n, c)
           st == To!Stored(c)
           last == n + L + 1
           w == Written(last % sizeOut, cyc \/ last >= sizeOut)
           pos == litPoolPosOf(c)
           more == With(own, pos, lits)
<1>1. /\ L \in Nat /\ L >= 3 /\ \A k \in 1 .. L : st[k] \in Int /\ st[k] # 0
      /\ \A k \in 1 .. L - 2 : st[k] = c[k]
      /\ st[L] = Offset + pos /\ Offset \in Nat /\ pos \in Nat
  BY StoredFacts, OffsetFacts DEF Clauses, litPoolPosOf
<1>2. sizeOut \in Nat \ {0} /\ n \in Nat /\ n < sizeOut /\ L + 1 <= sizeOut
  BY StrengtheningAssumption DEF Cell
<1>3. /\ pos \in DOMAIN more /\ more[pos] = lits
      /\ \A q \in DOMAIN own : q \in DOMAIN more /\ q # pos /\ more[q] = own[q]
  BY DEF With
<1>4. Within(own, more)
  BY <1>3 DEF Within
<1>5. CASE last <= sizeOut
  <2>1. /\ \A i \in 0 .. n - 1 : p[i] = d[i]
        /\ \A i \in n .. n + L - 1 : p[i] = st[i - n + 1]
        /\ p[n + L] = 0
    BY <1>5, PlacedFacts
  <2>2. w = last
    <3>1. CASE last < sizeOut
      <4>1. last \in 0 .. sizeOut - 1 /\ last \in Int
        BY <3>1, <1>1, <1>2
      <4>2. last % sizeOut = last
        BY <4>1, <1>2, Remainders
      <4> QED
        BY <4>1, <4>2, <1>1, <1>2 DEF Written
    <3>2. CASE last = sizeOut
      <4>1. last \in sizeOut .. sizeOut + sizeOut - 1 /\ last \in Int
        BY <3>2, <1>2
      <4>2. last % sizeOut = 0
        BY <4>1, <3>2, <1>2, Remainders
      <4> QED
        BY <4>2, <3>2, <1>2 DEF Written
    <3>3. last < sizeOut \/ last = sizeOut
      <4>1. L \in Nat
        BY <1>1
      <4> HIDE DEF L
      <4> QED
        BY <4>1, <1>5, <1>2
    <3> QED
      BY <3>1, <3>2, <3>3
  <2>3. n > 0 => d[n - 1] = 0 /\ Holds(d, 0, n - 1, own)
    BY <1>2 DEF LapOK, Written, Ruled
  <2> HIDE DEF p, st, w, more, pos, L
  <2>4. \A i \in n .. n + L - 1 : p[i] # 0
    <3> SUFFICES ASSUME NEW i \in n .. n + L - 1 PROVE p[i] # 0
      OBVIOUS
    <3>1. i - n + 1 \in 1 .. L
      BY <1>1, <1>2
    <3> QED
      BY <3>1, <2>1, <1>1
  <2>5. Named(p, n + L) = pos
    <3>1. n + L - 1 \in n .. n + L - 1 /\ (n + L - 1) - n + 1 = L
      BY <1>1, <1>2
    <3>2. p[n + L - 1] = Offset + pos
      BY <3>1, <2>1, <1>1
    <3>3. Named(p, n + L) = p[n + L - 1] - Offset
      <4>1. \A i : Named(p, i) = p[i - 1] - Offset
        BY DEF Named
      <4>2. n + L \in Int /\ (n + L) - 1 = n + L - 1
        BY <1>1, <1>2
      <4> QED
        BY <4>1, <4>2
    <3> QED
      BY <3>2, <3>3, <1>1
  <2>6. \A z \in 1 .. n + L : p[z] = 0 => z = n + L \/ (z \in 1 .. n - 1 /\ n > 0)
    <3> SUFFICES ASSUME NEW z \in 1 .. n + L, p[z] = 0 PROVE z = n + L \/ (z \in 1 .. n - 1 /\ n > 0)
      OBVIOUS
    <3>1. z \notin n .. n + L - 1
      BY <2>4
    <3> QED
      BY <3>1, <1>1, <1>2
  <2>7. n > 0 => Holds(p, 0, n - 1, own)
    <3>1. n > 0 => \A k \in 0 .. n - 1 : p[k] = d[k]
      BY <2>1
    <3> QED
      BY <3>1, <2>3, <1>2, HoldsPart
  <2>8. ASSUME NEW z \in 1 .. n + L, p[z] = 0
        PROVE  /\ Named(p, z) \in DOMAIN more
               /\ \A y \in 1 .. n + L : p[y] = 0 /\ Named(p, y) = Named(p, z) => y = z
               /\ \A k \in 0 .. z - 3 : (\A j \in k .. z - 1 : p[j] # 0) => p[k] \in more[Named(p, z)]
    <3>1. \A y \in 1 .. n - 1 : n > 0 /\ p[y] = 0 => Named(p, y) \in DOMAIN own
      <4>1. 0 + 1 = 1
        OBVIOUS
      <4> QED
        BY <4>1, <2>7 DEF Holds
    <3>2. CASE z = n + L
      <4>1. ASSUME NEW k \in 0 .. z - 3, \A j \in k .. z - 1 : p[j] # 0 PROVE p[k] \in lits
        <5>1. n > 0 => p[n - 1] = 0
          BY <2>1, <2>3, <1>2
        <5>2. k >= n
          <6> SUFFICES ASSUME k < n PROVE FALSE
            BY <1>2
          <6>1. n > 0 /\ n - 1 \in k .. z - 1
            BY <3>2, <1>1, <1>2
          <6> QED
            BY <6>1, <5>1, <4>1
        <5>3. k \in n .. n + L - 1 /\ k - n + 1 \in 1 .. L - 2 /\ k - n + 1 \in 1 .. L
          BY <5>2, <3>2, <1>1, <1>2
        <5>4. p[k] = c[k - n + 1]
          BY <5>3, <2>1, <1>1
        <5> QED
          BY <5>3, <5>4 DEF L
      <4>2. \A y \in 1 .. n + L : p[y] = 0 /\ Named(p, y) = Named(p, z) => y = z
        BY <3>1, <3>2, <2>5, <2>6 DEF pos
      <4> QED
        BY <3>2, <4>1, <4>2, <2>5, <1>3
    <3>3. CASE z \in 1 .. n - 1 /\ n > 0
      <4>1. 0 + 1 = 1
        OBVIOUS
      <4>2. /\ Named(p, z) \in DOMAIN own
            /\ \A y \in 1 .. n - 1 : p[y] = 0 /\ Named(p, y) = Named(p, z) => y = z
            /\ \A k \in 0 .. z - 3 : (\A j \in k .. z - 1 : p[j] # 0) => p[k] \in own[Named(p, z)]
        BY <3>3, <4>1, <2>7, <2>8 DEF Holds
      <4>3. Named(p, z) # Named(p, n + L)
        BY <4>2, <2>5, <1>3
      <4>4. \A y \in 1 .. n + L : p[y] = 0 /\ Named(p, y) = Named(p, z) => y = z
        BY <4>2, <4>3, <2>6
      <4> QED
        BY <4>2, <4>4, <1>3
    <3> QED
      BY <3>2, <3>3, <2>6, <2>8
  <2>9. w - 1 = n + L
    BY <2>2, <1>1, <1>2 DEF L
  <2>10. Holds(p, 0, n + L, more)
    <3>1. 0 + 1 = 1
      OBVIOUS
    <3> QED
      BY <3>1, <2>8 DEF Holds
  <2> QED
    BY <2>9, <2>10 DEF w, p, more, pos, L, last
<1>6. CASE last > sizeOut
  <2> DEFINE m == last - sizeOut
  <2>1. /\ m \in 1 .. L /\ m \in Cell
        /\ \A i \in 0 .. m - 2 : p[i] = st[i + sizeOut - n + 1]
        /\ p[m - 1] = 0
    <3>1. n + Len(c) + 1 > sizeOut /\ m = n + Len(c) + 1 - sizeOut
      BY <1>6, <1>1, <1>2
    <3> HIDE DEF m, p, st
    <3>2. LET q == n + Len(c) + 1 - sizeOut
          IN  /\ q \in 1 .. L /\ q \in Cell
              /\ \A i \in 0 .. q - 2 : p[i] = st[i + sizeOut - n + 1]
              /\ p[q - 1] = 0
      BY <3>1, PlacedFacts DEF p, st
    <3> QED
      BY <3>1, <3>2
  <2>2. w = m
    <3>1. last \in sizeOut .. sizeOut + sizeOut - 1 /\ last \in Int
      BY <1>6, <1>1, <1>2
    <3>2. last % sizeOut = m
      BY <3>1, <1>2, Remainders
    <3> QED
      BY <3>1, <3>2, <2>1, <1>2 DEF Written
  <2>3. m + (sizeOut - n) = L + 1
    BY <1>1, <1>2
  <2> HIDE DEF p, st, w, more, pos, m, L
  <2>4. \A i \in 0 .. m - 2 : i + sizeOut - n + 1 \in 1 .. L
    BY <2>1, <2>3, <1>1, <1>2
  <2>5. \A i \in 0 .. m - 2 : p[i] # 0
    BY <2>4, <2>1, <1>1
  <2>6. ASSUME NEW z \in 1 .. m - 1, p[z] = 0
        PROVE  /\ Named(p, z) \in DOMAIN more
               /\ \A y \in 1 .. m - 1 : p[y] = 0 /\ Named(p, y) = Named(p, z) => y = z
               /\ \A k \in 0 .. z - 3 : (\A j \in k .. z - 1 : p[j] # 0) => p[k] \in more[Named(p, z)]
    <3>1. \A y \in 1 .. m - 1 : p[y] = 0 => y = m - 1
      BY <2>5, <2>1, <1>1
    <3>2. z = m - 1 /\ z - 1 = m - 2 /\ m - 2 \in 0 .. m - 2
      BY <3>1, <2>6, <2>1
    <3>3. (m - 2) + sizeOut - n + 1 = L
      BY <2>1, <2>3, <1>1, <1>2
    <3>4. p[z - 1] = Offset + pos
      BY <3>2, <3>3, <2>1, <1>1
    <3>5. Named(p, z) = pos
      BY <3>4, <1>1 DEF Named
    <3>6. ASSUME NEW k \in 0 .. z - 3 PROVE p[k] \in lits
      <4>1. k \in 0 .. m - 2 /\ k + sizeOut - n + 1 \in 1 .. L - 2
        BY <3>2, <2>1, <2>3, <1>1, <1>2
      <4>2. p[k] = c[k + sizeOut - n + 1]
        BY <4>1, <2>1, <1>1
      <4> QED
        BY <4>1, <4>2 DEF L
    <3> QED
      BY <3>1, <3>2, <3>5, <3>6, <1>3
  <2>7. Holds(p, 0, m - 1, more)
    <3>1. 0 + 1 = 1
      OBVIOUS
    <3> QED
      BY <3>1, <2>6 DEF Holds
  <2> QED
    BY <2>2, <2>7 DEF w, p, more, pos, L, last
<1> QED
  BY <1>5, <1>6, <1>1, <1>2

\* What each place holds: a ring that is being filled, a message, the
\* messages of phase p on the wire, a ring that is being read, the work set.
OutHolds(o, own) == Holds(o.data[o.cur], 0, Written(o.next[o.cur], o.cycled[o.cur]) - 1, own)
MessageHolds(m, own) == To!Fits(m) => Holds(Carried(m), m.beginning, m.end, own)
Assigned(own, f, k) == Part(own, {q \in DOMAIN own : f[q] = k})
WireHolds(w, p, own) ==
  \E f \in [DOMAIN own -> Int] :
    \A k \in 1 .. Len(w) : w[k].phase = p => MessageHolds(w[k], Assigned(own, f, k))
InHolds(i, own) == UnreadOf(i) => Holds(i.data[i.cur], i.next[i.cur], i.end[i.cur], own)
ClauseHolds(c, own) ==
  litPoolPosOf(c) \in DOMAIN own /\ \A k \in 1 .. Len(c) - 2 : c[k] \in own[litPoolPosOf(c)]
WorkHolds(w, own) ==
  \A i \in 1 .. Len(w) : /\ ClauseHolds(w[i], own)
                         /\ \A j \in 1 .. Len(w) : litPoolPosOf(w[j]) = litPoolPosOf(w[i]) => j = i

LEMMA PartWithin ==
  ASSUME NEW own, NEW A
  PROVE  /\ Within(Part(own, A), own) /\ DOMAIN Part(own, A) = A \cap DOMAIN own
         /\ \A q \in A \cap DOMAIN own : Part(own, A)[q] = own[q]
BY DEF Within, Part

LEMMA PartsWithin ==
  ASSUME NEW own, NEW own2, Within(own, own2), NEW A, NEW B, A \cap DOMAIN own \subseteq B
  PROVE  Within(Part(own, A), Part(own2, B))
<1>1. DOMAIN Part(own, A) = A \cap DOMAIN own /\ \A q \in A \cap DOMAIN own : Part(own, A)[q] = own[q]
  BY PartWithin
<1>2. DOMAIN Part(own2, B) = B \cap DOMAIN own2 /\ \A q \in B \cap DOMAIN own2 : Part(own2, B)[q] = own2[q]
  BY PartWithin
<1> QED
  BY <1>1, <1>2 DEF Within

LEMMA PlacesMore ==
  ASSUME NEW own, NEW own2, Within(own, own2)
  PROVE  /\ \A o : OutHolds(o, own) => OutHolds(o, own2)
         /\ \A m : MessageHolds(m, own) => MessageHolds(m, own2)
         /\ \A i : InHolds(i, own) => InHolds(i, own2)
         /\ \A w : WorkHolds(w, own) => WorkHolds(w, own2)
<1>1. \A o : OutHolds(o, own) => OutHolds(o, own2)
  BY HoldsMore DEF OutHolds
<1>2. \A m : MessageHolds(m, own) => MessageHolds(m, own2)
  BY HoldsMore DEF MessageHolds
<1>3. \A i : InHolds(i, own) => InHolds(i, own2)
  BY HoldsMore DEF InHolds
<1>4. \A c : ClauseHolds(c, own) => ClauseHolds(c, own2)
  BY DEF ClauseHolds, Within
<1>5. \A w : WorkHolds(w, own) => WorkHolds(w, own2)
  BY <1>4 DEF WorkHolds
<1> QED
  BY <1>1, <1>2, <1>3, <1>5

LEMMA WireMore ==
  ASSUME NEW own, NEW own2, Within(own, own2), NEW w, NEW p, WireHolds(w, p, own)
  PROVE  WireHolds(w, p, own2)
<1>1. PICK f \in [DOMAIN own -> Int] :
        \A k \in 1 .. Len(w) : w[k].phase = p => MessageHolds(w[k], Assigned(own, f, k))
  BY DEF WireHolds
<1> DEFINE g == [q \in DOMAIN own2 |-> IF q \in DOMAIN own THEN f[q] ELSE 0]
<1>2. g \in [DOMAIN own2 -> Int]
  OBVIOUS
<1>3. DOMAIN own \subseteq DOMAIN own2 /\ \A q \in DOMAIN own : g[q] = f[q]
  BY DEF Within
<1> HIDE DEF g
<1>4. ASSUME NEW k \in 1 .. Len(w), w[k].phase = p PROVE MessageHolds(w[k], Assigned(own2, g, k))
  <2>1. Within(Assigned(own, f, k), Assigned(own2, g, k))
    <3>1. {q \in DOMAIN own : f[q] = k} \cap DOMAIN own \subseteq {q \in DOMAIN own2 : g[q] = k}
      BY <1>3
    <3> QED
      BY <3>1, PartsWithin DEF Assigned
  <2> QED
    BY <2>1, <1>1, <1>4, PlacesMore
<1> QED
  BY <1>2, <1>4 DEF WireHolds

-----------------------------------------------------------------------------
(* How clauses move from place to place.                                   *)

LEMMA OutPushed ==
  ASSUME NEW o, OutOK(o), NEW own, OutHolds(o, own), NEW c \in Clauses,
         litPoolPosOf(c) \notin DOMAIN own,
         NEW lits, \A k \in 1 .. Len(c) - 2 : c[k] \in lits
  PROVE  OutHolds(To!Pushed(o, c), With(own, litPoolPosOf(c), lits))
<1> DEFINE b == o.cur
           last == o.next[b] + Len(c) + 1
           q == To!Pushed(o, c)
           more == With(own, litPoolPosOf(c), lits)
<1>1. /\ o \in Outs /\ b \in 0 .. 1 /\ o.data[b] \in Cells /\ o.next[b] \in Cell /\ o.cycled[b] \in BOOLEAN
      /\ LapOK(o.data[b], o.next[b], o.cycled[b])
  BY DEF OutOK, Outs
<1>2. CASE Len(c) + 1 > sizeOut
  <2>1. q = o
    BY <1>2 DEF To!Pushed
  <2>2. Within(own, more)
    BY DEF Within, With
  <2> QED
    BY <2>1, <2>2, PlacesMore
<1>3. CASE ~ (Len(c) + 1 > sizeOut)
  <2>1. q = [o EXCEPT !.data[b] = Placed(o.data[b], o.next[b], c), !.next[b] = last % sizeOut,
                      !.cycled[b] = o.cycled[b] \/ last >= sizeOut]
    BY <1>3 DEF To!Pushed, Placed, To!Index, Cell
  <2>2. Len(c) \in Nat /\ sizeOut \in Nat
    BY StoredFacts, StrengtheningAssumption
  <2>3. Len(c) + 1 <= sizeOut
    BY <1>3, <2>2
  <2>4. Holds(Placed(o.data[b], o.next[b], c), 0,
              Written(last % sizeOut, o.cycled[b] \/ last >= sizeOut) - 1, more)
    BY <1>1, <2>3, PushedHolds DEF OutHolds
  <2> HIDE DEF last, q, more
  <2>5. /\ q.cur = b /\ q.data[b] = Placed(o.data[b], o.next[b], c)
        /\ q.next[b] = last % sizeOut /\ q.cycled[b] = (o.cycled[b] \/ last >= sizeOut)
    BY <2>1, <1>1 DEF Outs
  <2> QED
    BY <2>4, <2>5 DEF OutHolds, q, more
<1> QED
  BY <1>2, <1>3

\* The other ring has been emptied.
LEMMA TestedHolds ==
  ASSUME NEW o, OutOK(o), NEW own
  PROVE  OutHolds(TestedOf(o, TRUE), own)
<1> DEFINE b == 1 - o.cur
           t == TestedOf(o, TRUE)
<1>1. o \in Outs /\ b \in 0 .. 1 /\ o.cur \in 0 .. 1
  BY DEF OutOK, Outs
<1>2. t = [o EXCEPT !.pending[o.cur] = TouchedOf(o), !.pending[b] = FALSE,
                    !.cur = b, !.next[b] = 0, !.cycled[b] = FALSE]
  BY DEF TestedOf
<1> HIDE DEF b, t
<1>3. t.cur = b /\ t.next[b] = 0 /\ t.cycled[b] = FALSE
  BY <1>1, <1>2 DEF Outs
<1>4. Written(t.next[t.cur], t.cycled[t.cur]) - 1 = -1
  BY <1>3 DEF Written
<1>5. \A d : Holds(d, 0, -1, own)
  BY DEF Holds
<1>6. OutHolds(t, own)
  BY <1>4, <1>5 DEF OutHolds
<1> QED
  BY <1>6 DEF t

LEMMA MessageFrom ==
  ASSUME NEW o, OutOK(o), TouchedOf(o), NEW p \in Int, NEW own, OutHolds(o, own)
  PROVE  MessageHolds(To!Message(o, p), own)
<1> DEFINE b == o.cur
           d == o.data[b]
           n == o.next[b]
           w == Written(n, o.cycled[b])
           m == To!Message(o, p)
<1>1. SUFFICES ASSUME To!Fits(m) PROVE Holds(Carried(m), m.beginning, m.end, own)
  BY DEF MessageHolds
<1>2. /\ m \in Messages /\ Len(m.data) = m.end + 1 /\ SegmentOK(Carried(m), m.beginning, m.end)
  BY <1>1, MessageFacts DEF WholeMessages
<1>3. m.end = To!EndOf(o) /\ m.data = [i \in 1 .. To!InUse(o) |-> d[i - 1]]
  BY DEF To!Message
<1>4. w \in 1 .. sizeOut /\ To!EndOf(o) = w - 1
  BY BeginningFacts
<1>5. sizeOut \in Nat \ {0}
  BY StrengtheningAssumption
<1>6. m.beginning \in Nat /\ m.end \in Cell
  BY <1>2 DEF Messages
<1> HIDE DEF m, d, n, w
<1>7. \A k \in m.beginning .. m.end : Carried(m)[k] = d[k]
  <2> SUFFICES ASSUME NEW k \in m.beginning .. m.end PROVE Carried(m)[k] = d[k]
    OBVIOUS
  <2>1. k \in Cell /\ k < Len(m.data) /\ k + 1 \in 1 .. Len(m.data) /\ (k + 1) - 1 = k
    BY <1>2, <1>5, <1>6 DEF Cell
  <2>2. Carried(m)[k] = m.data[k + 1]
    BY <2>1 DEF Carried
  <2>3. k + 1 \in DOMAIN m.data
    BY <2>1, <1>2 DEF Messages
  <2> QED
    BY <2>1, <2>2, <2>3, <1>3
<1>8. Holds(d, 0, w - 1, own)
  BY DEF OutHolds, d, w, n, b
<1>9. m.end = w - 1 /\ m.end \in Int /\ 0 <= m.beginning /\ m.end <= w - 1 /\ w \in Int
  BY <1>3, <1>4, <1>6, <1>5 DEF Cell
<1> QED
  BY <1>6, <1>7, <1>8, <1>9, HoldsPart

LEMMA ReceivedHolds ==
  ASSUME NEW i, InOK(i), NEW m \in WholeMessages, To!Fits(m), NEW p, NEW own,
         m.phase = p => MessageHolds(m, own)
  PROVE  InHolds(ReceivedOf(i, m, p), own)
<1> DEFINE b == 1 - i.cur
           r == ReceivedOf(i, m, p)
           d == [k \in Cell |-> IF k < Len(m.data) THEN m.data[k + 1] ELSE i.data[b][k]]
           lo == IF m.phase = p THEN m.beginning ELSE 0
           hi == IF m.phase = p THEN m.end ELSE 0
<1>1. i \in Ins /\ b \in 0 .. 1 /\ i.data[b] \in Cells
  BY DEF InOK, Ins
<1>2. m \in Messages /\ Len(m.data) = m.end + 1
  BY DEF WholeMessages
<1>3. m.end \in Cell /\ m.beginning \in Nat
  BY <1>2 DEF Messages
<1>4. sizeOut \in Nat \ {0}
  BY StrengtheningAssumption
<1>5. r = [i EXCEPT !.cur = b, !.data[b] = d, !.next[b] = lo, !.end[b] = hi]
  BY DEF ReceivedOf
<1>6. \A k \in m.beginning .. m.end : d[k] = Carried(m)[k]
  <2> SUFFICES ASSUME NEW k \in m.beginning .. m.end PROVE d[k] = Carried(m)[k]
    OBVIOUS
  <2>1. k \in Cell /\ k < Len(m.data)
    BY <1>2, <1>3, <1>4 DEF Cell
  <2> QED
    BY <2>1 DEF Carried
<1> HIDE DEF b, r, d
<1>7. r.cur = b /\ r.data[b] = d /\ r.next[b] = lo /\ r.end[b] = hi
  BY <1>1, <1>5 DEF Ins
<1>8. CASE m.phase = p
  <2>1. Holds(Carried(m), m.beginning, m.end, own)
    BY <1>8 DEF MessageHolds
  <2>2. m.beginning \in Int /\ m.end \in Int
    BY <1>3, <1>4 DEF Cell
  <2>3. Holds(d, m.beginning, m.end, own)
    BY <2>1, <2>2, <1>6, HoldsPart
  <2> QED
    BY <2>3, <1>7, <1>8 DEF InHolds, r
<1>9. CASE m.phase # p
  BY <1>7, <1>9 DEF InHolds, UnreadOf, r
<1> QED
  BY <1>8, <1>9

\* What is read is one of the clauses, and the others are left.
LEMMA ReadHolds ==
  ASSUME NEW i, InOK(i), UnreadOf(i), NEW own, InHolds(i, own)
  PROVE  LET pos == litPoolPosOf(ClauseReadOf(i))
         IN  /\ ClauseHolds(ClauseReadOf(i), own)
             /\ InHolds([i EXCEPT !.next[i.cur] = AfterOf(i)], Part(own, DOMAIN own \ {pos}))
<1> DEFINE b == i.cur
           lo == i.next[b]
           hi == i.end[b]
           d == i.data[b]
           s == ScannedOf(i)
           c == ClauseReadOf(i)
           pos == litPoolPosOf(c)
           rest == Part(own, DOMAIN own \ {pos})
           i2 == [i EXCEPT !.next[b] = AfterOf(i)]
<1>1. b \in 0 .. 1 /\ lo \in Cell /\ hi \in Cell /\ d \in Cells /\ i \in Ins
  BY DEF InOK, Ins
<1>2. sizeOut \in Nat \ {0} /\ lo \in Nat /\ hi \in Nat /\ lo < sizeOut /\ hi < sizeOut
  BY <1>1, StrengtheningAssumption DEF Cell
<1>3. PICK n \in Nat :
           /\ n >= 3 /\ lo + n <= hi /\ AtOf(i, n) = lo + n /\ d[lo + n] = 0
           /\ s = [k \in 1 .. n |-> d[lo + k - 1]]
           /\ Len(s) = n
           /\ \A k \in 0 .. n - 1 : d[lo + k] # 0
  BY ScannedFacts
<1>4. n \in Nat /\ n >= 3 /\ lo + n <= hi /\ d[lo + n] = 0
  BY <1>3
<1>5. c = [k \in 1 .. n |-> IF k > n - 2 THEN s[k] - Offset ELSE s[k]]
  BY <1>3 DEF ClauseReadOf, EndsInZeroOf
<1>6. AfterOf(i) = IF lo + n # hi THEN AtOf(i, n + 1) ELSE lo + n
  BY <1>3 DEF AfterOf, EndsInZeroOf
<1>7. Len(c) = n /\ c[n] = d[lo + n - 1] - Offset /\ \A k \in 1 .. n - 2 : c[k] = d[lo + k - 1]
  <2>1. Len(c) = n
    BY <1>4, <1>5
  <2>2. \A k \in 1 .. n : s[k] = d[lo + k - 1]
    BY <1>3
  <2>3. n \in 1 .. n /\ n > n - 2 /\ \A k \in 1 .. n - 2 : k \in 1 .. n /\ ~ (k > n - 2)
    BY <1>4
  <2> HIDE DEF c, s
  <2> QED
    BY <2>1, <2>2, <2>3, <1>5
<1>8. Holds(d, lo, hi, own)
  BY DEF InHolds
<1> DEFINE z == lo + n
<1>9. z \in lo + 1 .. hi /\ d[z] = 0 /\ z \in Int
  BY <1>4, <1>2
<1>10. Named(d, z) = pos
  <2>1. Named(d, z) = d[z - 1] - Offset
    BY DEF Named
  <2>2. z - 1 = lo + n - 1
    BY <1>2, <1>4
  <2> HIDE DEF c, z
  <2>3. pos = d[lo + n - 1] - Offset
    BY <1>7 DEF litPoolPosOf
  <2> QED
    BY <2>1, <2>2, <2>3
<1> HIDE DEF c, s, pos, z, i2
<1>11. /\ pos \in DOMAIN own
       /\ \A y \in lo + 1 .. hi : d[y] = 0 /\ Named(d, y) = pos => y = z
       /\ \A k \in lo .. z - 3 : (\A j \in k .. z - 1 : d[j] # 0) => d[k] \in own[pos]
  BY <1>8, <1>9, <1>10 DEF Holds
<1>12. ClauseHolds(c, own)
  <2>1. ASSUME NEW k \in 1 .. n - 2 PROVE c[k] \in own[pos]
    <3>1. lo + k - 1 \in lo .. z - 3
      BY <1>2, <1>4 DEF z
    <3>2. \A j \in lo + k - 1 .. z - 1 : d[j] # 0
      <4> SUFFICES ASSUME NEW j \in lo + k - 1 .. z - 1 PROVE d[j] # 0
        OBVIOUS
      <4>1. j - lo \in 0 .. n - 1 /\ lo + (j - lo) = j
        BY <1>2, <1>4 DEF z
      <4>2. d[lo + (j - lo)] # 0
        BY <4>1, <1>3
      <4> QED
        BY <4>1, <4>2
    <3>3. d[lo + k - 1] \in own[pos]
      BY <3>1, <3>2, <1>11
    <3> QED
      BY <3>3, <1>7
  <2> QED
    BY <2>1, <1>7, <1>11 DEF ClauseHolds, pos
<1>13. InHolds(i2, rest)
  <2>1. CASE z = hi
    <3>1. AfterOf(i) = hi
      BY <1>6, <2>1 DEF z
    <3>2. i2.cur = b /\ i2.next[b] = hi /\ i2.end[b] = hi
      BY <3>1, <1>1 DEF Ins, i2
    <3> QED
      BY <3>2 DEF InHolds, UnreadOf
  <2>2. CASE z # hi
    <3>1. AfterOf(i) = z + 1
      <4>1. z + 1 \in 0 .. sizeOut - 1 /\ z + 1 \in Int /\ lo + (n + 1) = z + 1
        BY <1>2, <1>4, <1>9, <2>2 DEF z
      <4>2. AtOf(i, n + 1) = z + 1
        BY <4>1, <1>2, Remainders DEF AtOf
      <4> QED
        BY <4>2, <1>6, <2>2 DEF z
    <3>2. i2.cur = b /\ i2.next[b] = z + 1 /\ i2.end[b] = hi /\ i2.data[b] = d
      BY <3>1, <1>1 DEF Ins, i2
    <3>3. Holds(d, z + 1, hi, own)
      BY <1>2, <1>8, <1>9, HoldsPart
    <3>4. DOMAIN rest = DOMAIN own \ {pos} /\ \A q \in DOMAIN own \ {pos} : rest[q] = own[q]
      <4>1. (DOMAIN own \ {pos}) \cap DOMAIN own = DOMAIN own \ {pos}
        OBVIOUS
      <4> QED
        BY <4>1, PartWithin
    <3> HIDE DEF rest
    <3>5. Holds(d, z + 1, hi, rest)
      <4> SUFFICES ASSUME NEW x \in (z + 1) + 1 .. hi, d[x] = 0
                   PROVE  /\ Named(d, x) \in DOMAIN rest
                          /\ \A y \in (z + 1) + 1 .. hi : d[y] = 0 /\ Named(d, y) = Named(d, x) => y = x
                          /\ \A k \in z + 1 .. x - 3 : (\A j \in k .. x - 1 : d[j] # 0) => d[k] \in rest[Named(d, x)]
        BY DEF Holds
      <4>1. /\ Named(d, x) \in DOMAIN own
            /\ \A y \in (z + 1) + 1 .. hi : d[y] = 0 /\ Named(d, y) = Named(d, x) => y = x
            /\ \A k \in z + 1 .. x - 3 : (\A j \in k .. x - 1 : d[j] # 0) => d[k] \in own[Named(d, x)]
        BY <3>3 DEF Holds
      <4>2. x \in lo + 1 .. hi /\ x # z
        BY <1>2, <1>9
      <4>3. Named(d, x) # pos
        BY <4>2, <1>11
      <4> QED
        BY <4>1, <4>3, <3>4
    <3> QED
      BY <3>2, <3>5 DEF InHolds
  <2> QED
    BY <2>1, <2>2
<1> QED
  BY <1>12, <1>13 DEF c, pos, i2

-----------------------------------------------------------------------------
(* On the wire.                                                            *)

LEMMA WireSent ==
  ASSUME NEW w \in Wires, NEW m, NEW p, NEW own, NEW own1, NEW own2,
         WireHolds(w, p, own1), m.phase = p => MessageHolds(m, own2),
         Within(own1, own), Within(own2, own), DOMAIN own1 \cap DOMAIN own2 = {}
  PROVE  WireHolds(w \o <<m>>, p, own)
<1>1. PICK f \in [DOMAIN own1 -> Int] :
        \A k \in 1 .. Len(w) : w[k].phase = p => MessageHolds(w[k], Assigned(own1, f, k))
  BY DEF WireHolds
<1> DEFINE n == Len(w)
           v == w \o <<m>>
           g == [q \in DOMAIN own |-> IF q \in DOMAIN own2 THEN n + 1 ELSE IF q \in DOMAIN own1 THEN f[q] ELSE 0]
<1>2. n \in Nat /\ Len(v) = n + 1 /\ v[n + 1] = m /\ \A k \in 1 .. n : v[k] = w[k]
  BY DEF Wires
<1>3. g \in [DOMAIN own -> Int]
  BY <1>2
<1>4. /\ DOMAIN own1 \subseteq DOMAIN own /\ DOMAIN own2 \subseteq DOMAIN own
      /\ \A q \in DOMAIN own1 : g[q] = f[q]
      /\ \A q \in DOMAIN own2 : g[q] = n + 1
  BY DEF Within
<1> HIDE DEF g, v
<1>5. ASSUME NEW k \in 1 .. Len(v), v[k].phase = p PROVE MessageHolds(v[k], Assigned(own, g, k))
  <2>1. CASE k = n + 1
    <3>1. Within(own2, Assigned(own, g, k))
      <4>1. \A q \in DOMAIN own2 : q \in DOMAIN own /\ g[q] = k /\ own2[q] \subseteq own[q]
        BY <1>4, <2>1 DEF Within
      <4>2. \A q \in DOMAIN own2 : q \in DOMAIN Assigned(own, g, k) /\ Assigned(own, g, k)[q] = own[q]
        BY <4>1 DEF Assigned, Part
      <4> QED
        BY <4>1, <4>2 DEF Within
    <3>2. MessageHolds(m, own2)
      BY <1>2, <1>5, <2>1
    <3> QED
      BY <3>1, <3>2, <1>2, <2>1, PlacesMore
  <2>2. CASE k # n + 1
    <3>1. k \in 1 .. n /\ v[k] = w[k]
      BY <2>2, <1>2
    <3>2. Within(Assigned(own1, f, k), Assigned(own, g, k))
      <4>1. {q \in DOMAIN own1 : f[q] = k} \cap DOMAIN own1 \subseteq {q \in DOMAIN own : g[q] = k}
        BY <1>4
      <4> QED
        BY <4>1, PartsWithin DEF Assigned
    <3>3. MessageHolds(w[k], Assigned(own1, f, k))
      BY <3>1, <1>1, <1>5
    <3> QED
      BY <3>1, <3>2, <3>3, PlacesMore
  <2> QED
    BY <2>1, <2>2
<1> QED
  BY <1>3, <1>5 DEF WireHolds, v

\* The first message takes its positions along.
LEMMA WireTaken ==
  ASSUME NEW w \in Wires, w # << >>, NEW p, NEW own, WireHolds(w, p, own)
  PROVE  \E A \in SUBSET DOMAIN own :
           /\ Head(w).phase = p => MessageHolds(Head(w), Part(own, A))
           /\ WireHolds(Tail(w), p, Part(own, DOMAIN own \ A))
<1>1. PICK f \in [DOMAIN own -> Int] :
        \A k \in 1 .. Len(w) : w[k].phase = p => MessageHolds(w[k], Assigned(own, f, k))
  BY DEF WireHolds
<1> DEFINE A == {q \in DOMAIN own : f[q] = 1}
           v == Tail(w)
           rest == Part(own, DOMAIN own \ A)
           g == [q \in DOMAIN rest |-> f[q] - 1]
<1>2. Len(w) \in Nat /\ 1 \in 1 .. Len(w) /\ Head(w) = w[1]
  BY DEF Wires
<1>3. Len(v) = Len(w) - 1 /\ \A k \in 1 .. Len(v) : v[k] = w[k + 1]
  BY DEF Wires
<1>4. Head(w).phase = p => MessageHolds(Head(w), Part(own, A))
  BY <1>1, <1>2 DEF Assigned
<1>5. DOMAIN rest = DOMAIN own \ A /\ \A q \in DOMAIN own \ A : rest[q] = own[q]
  <2>1. (DOMAIN own \ A) \cap DOMAIN own = DOMAIN own \ A
    OBVIOUS
  <2> QED
    BY <2>1, PartWithin
<1> HIDE DEF v, rest
<1>6. g \in [DOMAIN rest -> Int]
  BY <1>5
<1>7. \A q \in DOMAIN rest : g[q] = f[q] - 1
  OBVIOUS
<1> HIDE DEF g
<1>8. ASSUME NEW k \in 1 .. Len(v), v[k].phase = p PROVE MessageHolds(v[k], Assigned(rest, g, k))
  <2>1. k + 1 \in 1 .. Len(w) /\ v[k] = w[k + 1]
    BY <1>2, <1>3
  <2>2. MessageHolds(w[k + 1], Assigned(own, f, k + 1))
    BY <2>1, <1>1, <1>8
  <2>3. Within(Assigned(own, f, k + 1), Assigned(rest, g, k))
    <3>1. \A q \in DOMAIN own : f[q] = k + 1 => q \in DOMAIN rest /\ g[q] = k /\ rest[q] = own[q]
      <4> SUFFICES ASSUME NEW q \in DOMAIN own, f[q] = k + 1 PROVE q \in DOMAIN rest /\ g[q] = k /\ rest[q] = own[q]
        OBVIOUS
      <4>1. f[q] # 1 /\ f[q] - 1 = k
        BY <1>2, <1>3
      <4>2. q \in DOMAIN own \ A
        BY <4>1
      <4> QED
        BY <4>1, <4>2, <1>5, <1>7
    <3>2. DOMAIN Assigned(own, f, k + 1) = {q \in DOMAIN own : f[q] = k + 1}
      BY DEF Assigned, Part
    <3>3. \A q \in DOMAIN own : f[q] = k + 1 => /\ Assigned(own, f, k + 1)[q] = own[q]
                                               /\ q \in DOMAIN Assigned(rest, g, k)
                                               /\ Assigned(rest, g, k)[q] = rest[q]
      BY <3>1 DEF Assigned, Part
    <3> QED
      BY <3>1, <3>2, <3>3 DEF Within
  <2> QED
    BY <2>1, <2>2, <2>3, PlacesMore
<1>9. WireHolds(v, p, rest)
  BY <1>6, <1>8 DEF WireHolds
<1> QED
  BY <1>4, <1>9 DEF v, rest

LEMMA WireTail ==
  ASSUME NEW w \in Wires, w # << >>, NEW p, NEW own, WireHolds(w, p, own)
  PROVE  WireHolds(Tail(w), p, own)
<1>1. PICK A \in SUBSET DOMAIN own : WireHolds(Tail(w), p, Part(own, DOMAIN own \ A))
  BY WireTaken
<1> QED
  BY <1>1, PartWithin, WireMore

LEMMA WireSelected ==
  ASSUME NEW w \in Wires, NEW kept \in To!Selections(Len(w)), NEW p, NEW own, WireHolds(w, p, own)
  PROVE  WireHolds(To!Selected(w, kept), p, own)
<1>1. PICK f \in [DOMAIN own -> Int] :
        \A k \in 1 .. Len(w) : w[k].phase = p => MessageHolds(w[k], Assigned(own, f, k))
  BY DEF WireHolds
<1>2. PICK m \in 0 .. Len(w) : kept \in [1 .. m -> 1 .. Len(w)]
  BY DEF To!Selections
<1>3. \A i, j \in 1 .. m : i < j => kept[i] < kept[j]
  BY <1>2 DEF To!Selections
<1>4. Len(w) \in Nat /\ m \in Nat
  BY <1>2 DEF Wires
<1>5. \A i, j \in 1 .. m : kept[i] = kept[j] => i = j
  <2> SUFFICES ASSUME NEW i \in 1 .. m, NEW j \in 1 .. m, kept[i] = kept[j], i # j PROVE FALSE
    OBVIOUS
  <2>1. i < j \/ j < i
    BY <1>4
  <2>2. kept[i] \in Int /\ kept[j] \in Int
    BY <1>2, <1>4
  <2> QED
    BY <2>1, <2>2, <1>3
<1> DEFINE v == To!Selected(w, kept)
           g == [q \in DOMAIN own |-> IF \E j \in 1 .. m : kept[j] = f[q]
                                      THEN CHOOSE j \in 1 .. m : kept[j] = f[q] ELSE 0]
<1>6. v = [k \in 1 .. m |-> w[kept[k]]]
  BY <1>2 DEF To!Selected
<1>7. Len(v) = m
  BY <1>4, <1>6
<1>8. ASSUME NEW q \in DOMAIN own, NEW k \in 1 .. m, f[q] = kept[k] PROVE g[q] = k
  <2>1. \E j \in 1 .. m : kept[j] = f[q]
    BY <1>8
  <2>2. g[q] \in 1 .. m /\ kept[g[q]] = f[q]
    BY <2>1
  <2> HIDE DEF g
  <2> QED
    BY <2>2, <1>5, <1>8
<1>9. g \in [DOMAIN own -> Int]
  <2>1. \A q \in DOMAIN own : (IF \E j \in 1 .. m : kept[j] = f[q] THEN CHOOSE j \in 1 .. m : kept[j] = f[q] ELSE 0) \in Int
    BY <1>4
  <2> QED
    BY <2>1
<1> HIDE DEF g, v
<1>10. ASSUME NEW k \in 1 .. Len(v), v[k].phase = p PROVE MessageHolds(v[k], Assigned(own, g, k))
  <2>1. k \in 1 .. m /\ kept[k] \in 1 .. Len(w) /\ v[k] = w[kept[k]]
    BY <1>2, <1>6, <1>7
  <2>2. MessageHolds(w[kept[k]], Assigned(own, f, kept[k]))
    BY <2>1, <1>1, <1>10
  <2>3. Within(Assigned(own, f, kept[k]), Assigned(own, g, k))
    <3>1. {q \in DOMAIN own : f[q] = kept[k]} \cap DOMAIN own \subseteq {q \in DOMAIN own : g[q] = k}
      BY <2>1, <1>8
    <3>2. Within(own, own)
      BY DEF Within
    <3> QED
      BY <3>1, <3>2, PartsWithin DEF Assigned
  <2> QED
    BY <2>1, <2>2, <2>3, PlacesMore
<1> QED
  BY <1>9, <1>10 DEF WireHolds, v

-----------------------------------------------------------------------------
(* In the work set.                                                        *)

LEMMA InsertedHolds ==
  ASSUME NEW w \in Seq(Clauses), NEW own, WorkHolds(w, own), NEW c \in Clauses,
         litPoolPosOf(c) \notin DOMAIN own,
         NEW lits, \A k \in 1 .. Len(c) - 2 : c[k] \in lits
  PROVE  WorkHolds(Inserted(w, c), With(own, litPoolPosOf(c), lits))
<1> DEFINE pos == litPoolPosOf(c)
           more == With(own, pos, lits)
<1>1. /\ pos \in DOMAIN more /\ more[pos] = lits
      /\ \A q \in DOMAIN own : q \in DOMAIN more /\ q # pos /\ more[q] = own[q]
  BY DEF With
<1>2. ClauseHolds(c, more)
  BY <1>1 DEF ClauseHolds
<1>3. \A e : ClauseHolds(e, own) => ClauseHolds(e, more) /\ litPoolPosOf(e) # pos
  BY <1>1 DEF ClauseHolds
<1> HIDE DEF pos, more
<1>4. ASSUME NEW v \in Seq(Clauses), WorkHolds(v, own) PROVE WorkHolds(Append(v, c), more)
  <2> DEFINE a == Append(v, c)
             n == Len(v)
  <2>1. n \in Nat /\ Len(a) = n + 1 /\ a[n + 1] = c /\ \A k \in 1 .. n : a[k] = v[k]
    OBVIOUS
  <2> HIDE DEF a
  <2>2. \A k \in 1 .. n : ClauseHolds(a[k], more) /\ litPoolPosOf(a[k]) # pos
    BY <2>1, <1>3, <1>4 DEF WorkHolds
  <2>3. \A i, j \in 1 .. n : litPoolPosOf(a[j]) = litPoolPosOf(a[i]) => j = i
    BY <2>1, <1>4 DEF WorkHolds
  <2>4. ASSUME NEW i \in 1 .. n + 1
        PROVE  /\ ClauseHolds(a[i], more)
               /\ \A j \in 1 .. n + 1 : litPoolPosOf(a[j]) = litPoolPosOf(a[i]) => j = i
    <3>1. litPoolPosOf(a[n + 1]) = pos
      BY <2>1 DEF pos
    <3>2. \A j \in 1 .. n + 1 : j \in 1 .. n \/ j = n + 1
      BY <2>1
    <3>3. CASE i = n + 1
      BY <3>1, <3>2, <3>3, <2>1, <2>2, <1>2
    <3>4. CASE i \in 1 .. n
      BY <3>1, <3>2, <3>4, <2>2, <2>3
    <3> QED
      BY <3>2, <3>3, <3>4
  <2> QED
    BY <2>1, <2>4 DEF WorkHolds, a
<1>5. CASE Len(w) = opt_reducer_work
  <2>1. w # << >>
    BY <1>5, StrengtheningAssumption
  <2>2. Tail(w) \in Seq(Clauses) /\ Len(Tail(w)) = Len(w) - 1 /\ \A k \in 1 .. Len(Tail(w)) : Tail(w)[k] = w[k + 1]
    BY <2>1
  <2>3. WorkHolds(Tail(w), own)
    <3> DEFINE v == Tail(w)
    <3>1. Len(w) \in Nat /\ \A k \in 1 .. Len(v) : k + 1 \in 1 .. Len(w) /\ v[k] = w[k + 1]
      BY <2>2
    <3> HIDE DEF v
    <3>2. \A i \in 1 .. Len(v) : ClauseHolds(v[i], own)
      BY <3>1 DEF WorkHolds
    <3>3. ASSUME NEW i \in 1 .. Len(v), NEW j \in 1 .. Len(v), litPoolPosOf(v[j]) = litPoolPosOf(v[i]) PROVE j = i
      <4>1. j + 1 = i + 1
        BY <3>1, <3>3 DEF WorkHolds
      <4> QED
        BY <4>1
    <3> QED
      BY <3>2, <3>3 DEF WorkHolds, v
  <2> QED
    BY <2>2, <2>3, <1>4, <1>5 DEF Inserted, more, pos
<1>6. CASE Len(w) # opt_reducer_work
  BY <1>4, <1>6 DEF Inserted, more, pos
<1> QED
  BY <1>5, <1>6

LEMMA RemovedHolds ==
  ASSUME NEW w \in Seq(Clauses), NEW own, WorkHolds(w, own), NEW i \in 1 .. Len(w)
  PROVE  /\ ClauseHolds(w[i], own)
         /\ WorkHolds(RemoveAt(w, i), Part(own, DOMAIN own \ {litPoolPosOf(w[i])}))
<1> DEFINE pos == litPoolPosOf(w[i])
           rest == Part(own, DOMAIN own \ {pos})
           v == RemoveAt(w, i)
           from(k) == IF k < i THEN k ELSE k + 1
<1>1. Len(w) \in Nat /\ i \in Int /\ 1 <= i /\ i <= Len(w)
  OBVIOUS
<1>2. Len(v) = Len(w) - 1
  BY RemovedFacts
<1>3. \A k \in 1 .. Len(v) : from(k) \in 1 .. Len(w) /\ from(k) # i /\ v[k] = w[from(k)]
  <2> DEFINE a == SubSeq(w, 1, i - 1)
             b == SubSeq(w, i + 1, Len(w))
  <2>1. a \in Seq(Clauses) /\ Len(a) = i - 1 /\ \A k \in 1 .. i - 1 : a[k] = w[k]
    <3>1. \A k \in 1 .. i - 1 : w[k] \in Clauses
      BY <1>1
    <3> QED
      BY <3>1, <1>1, SubSeqProperties
  <2>2. b \in Seq(Clauses) /\ Len(b) = Len(w) - i /\ \A k \in 1 .. Len(w) - i : b[k] = w[k + i]
    <3>1. \A k \in i + 1 .. Len(w) : w[k] \in Clauses
      BY <1>1
    <3> QED
      BY <3>1, <1>1, SubSeqProperties
  <2>3. v = a \o b
    BY DEF RemoveAt
  <2> HIDE DEF a, b, v
  <2>4. \A k \in 1 .. Len(v) : v[k] = IF k <= i - 1 THEN a[k] ELSE b[k - (i - 1)]
    <3>1. \A k \in 1 .. Len(a) + Len(b) : (a \o b)[k] = IF k <= Len(a) THEN a[k] ELSE b[k - Len(a)]
      BY <2>1, <2>2, ConcatProperties
    <3>2. Len(a) + Len(b) = Len(v)
      BY <2>1, <2>2, <1>1, <1>2
    <3>3. \A k \in 1 .. Len(v) : (a \o b)[k] = IF k <= Len(a) THEN a[k] ELSE b[k - Len(a)]
      BY <3>1, <3>2
    <3> HIDE DEF a, b
    <3> QED
      BY <3>3, <2>1, <2>3
  <2> SUFFICES ASSUME NEW k \in 1 .. Len(v) PROVE from(k) \in 1 .. Len(w) /\ from(k) # i /\ v[k] = w[from(k)]
    OBVIOUS
  <2>5. CASE k < i
    <3>1. k \in 1 .. i - 1 /\ k <= i - 1 /\ k \in 1 .. Len(w)
      BY <2>5, <1>1
    <3> QED
      BY <3>1, <2>1, <2>4, <2>5
  <2>6. CASE ~ (k < i)
    <3>1. ~ (k <= i - 1) /\ k - (i - 1) \in 1 .. Len(w) - i /\ (k - (i - 1)) + i = k + 1 /\ k + 1 \in 1 .. Len(w) /\ k + 1 # i
      BY <2>6, <1>1, <1>2
    <3> QED
      BY <3>1, <2>2, <2>4, <2>6
  <2> QED
    BY <2>5, <2>6
<1>4. DOMAIN rest = DOMAIN own \ {pos} /\ \A q \in DOMAIN own \ {pos} : rest[q] = own[q]
  <2>1. (DOMAIN own \ {pos}) \cap DOMAIN own = DOMAIN own \ {pos}
    OBVIOUS
  <2> QED
    BY <2>1, PartWithin
<1>5. \A c : ClauseHolds(c, own) /\ litPoolPosOf(c) # pos => ClauseHolds(c, rest)
  BY <1>4 DEF ClauseHolds
<1> HIDE DEF v, rest, pos
<1>6. ASSUME NEW k \in 1 .. Len(v)
      PROVE  /\ ClauseHolds(v[k], rest)
             /\ \A j \in 1 .. Len(v) : litPoolPosOf(v[j]) = litPoolPosOf(v[k]) => j = k
  <2>1. ClauseHolds(v[k], own) /\ litPoolPosOf(v[k]) # pos
    BY <1>3 DEF WorkHolds, pos
  <2>2. ASSUME NEW j \in 1 .. Len(v), litPoolPosOf(v[j]) = litPoolPosOf(v[k]) PROVE j = k
    <3>1. from(j) = from(k)
      <4> HIDE DEF from
      <4> QED
        BY <1>3, <2>2 DEF WorkHolds
    <3> QED
      BY <3>1, <1>1
  <2> QED
    BY <2>1, <2>2, <1>5
<1> QED
  BY <1>6 DEF WorkHolds, v, rest, pos

\* push_to_reducer moves clauses from the work set to the ring.
LEMMA DrainedHolds ==
  ASSUME NEW w \in Seq(Clauses), NEW o, OutOK(o), NEW own,
         WorkHolds(w, own), OutHolds(o, Part(own, {}))
  PROVE  \E A \in SUBSET DOMAIN own :
           /\ OutHolds(Drained(w, o).out, Part(own, A))
           /\ WorkHolds(Drained(w, o).work, Part(own, DOMAIN own \ A))
<1> DEFINE Split(e) == \E A \in SUBSET DOMAIN own : /\ OutHolds(e.out, Part(own, A))
                                                    /\ WorkHolds(e.work, Part(own, DOMAIN own \ A))
           T == {e \in Turns : Split(e)}
           base == [work |-> w, out |-> o, full |-> FALSE]
<1>1. base \in T
  <2>1. base \in Turns /\ base.out = o /\ base.work = w
    BY DEF Turns, OutOK
  <2>2. Within(own, Part(own, DOMAIN own \ {}))
    BY DEF Within, Part
  <2>3. WorkHolds(w, Part(own, DOMAIN own \ {}))
    BY <2>2, PlacesMore
  <2>4. {} \in SUBSET DOMAIN own
    OBVIOUS
  <2> HIDE DEF base
  <2>5. Split(base)
    BY <2>1, <2>3, <2>4
  <2> QED
    BY <2>1, <2>5
<1>2. ASSUME NEW e \in T, ~ e.full => e.work # << >> PROVE Turn(e) \in T
  <2>1. e \in Turns /\ Turn(e) \in Turns
    BY <1>2, TurnFacts
  <2>2. CASE e.full
    BY <2>2 DEF Turn
  <2>3. CASE ~ e.full
    <3> DEFINE i == Best(e.work)
               c == e.work[i]
               rest == RemoveAt(e.work, i)
               pos == litPoolPosOf(c)
    <3>1. e.work \in Seq(Clauses) /\ OutOK(e.out) /\ e.work # << >>
      BY <1>2, <2>1, <2>3 DEF Turns
    <3>2. i \in 1 .. Len(e.work)
      BY <3>1, BestFacts
    <3>3. c \in Clauses /\ rest \in Seq(Clauses)
      BY <3>1, <3>2, RemovedFacts
    <3>4. PICK A \in SUBSET DOMAIN own : OutHolds(e.out, Part(own, A)) /\ WorkHolds(e.work, Part(own, DOMAIN own \ A))
      OBVIOUS
    <3> DEFINE left == Part(own, DOMAIN own \ A)
               left2 == Part(left, DOMAIN left \ {pos})
    <3>5. ClauseHolds(c, left) /\ WorkHolds(rest, left2)
      BY <3>1, <3>2, <3>4, RemovedHolds
    <3>6. /\ DOMAIN left = DOMAIN own \ A /\ \A q \in DOMAIN own \ A : left[q] = own[q]
          /\ DOMAIN left2 = (DOMAIN own \ A) \ {pos} /\ \A q \in (DOMAIN own \ A) \ {pos} : left2[q] = own[q]
      BY DEF Part
    <3>7. Turn(e) = IF Len(c) + 1 <= To!getRemainingOutSpace(e.out)
                    THEN [work |-> rest, out |-> To!Pushed(e.out, c), full |-> FALSE]
                    ELSE [e EXCEPT !.full = TRUE, !.work = IF EverFits(c) THEN Inserted(rest, c) ELSE rest]
      BY <2>3 DEF Turn
    <3> HIDE DEF c, rest, pos, left, left2
    <3>8. pos \in DOMAIN own \ A /\ \A k \in 1 .. Len(c) - 2 : c[k] \in own[pos]
      BY <3>5, <3>6 DEF ClauseHolds, pos
    <3>9. CASE Len(c) + 1 <= To!getRemainingOutSpace(e.out)
      <4>1. Turn(e).work = rest /\ Turn(e).out = To!Pushed(e.out, c)
        BY <3>7, <3>9
      <4>2. pos \notin DOMAIN Part(own, A)
        BY <3>8 DEF Part
      <4>3. OutHolds(To!Pushed(e.out, c), With(Part(own, A), pos, own[pos]))
        BY <3>1, <3>3, <3>4, <3>8, <4>2, OutPushed DEF pos
      <4>4. Within(With(Part(own, A), pos, own[pos]), Part(own, A \cup {pos}))
        BY <3>8 DEF Within, With, Part
      <4>5. Within(left2, Part(own, DOMAIN own \ (A \cup {pos})))
        BY <3>6 DEF Within, Part
      <4>6. A \cup {pos} \in SUBSET DOMAIN own
        BY <3>8
      <4>7. OutHolds(Turn(e).out, Part(own, A \cup {pos})) /\ WorkHolds(Turn(e).work, Part(own, DOMAIN own \ (A \cup {pos})))
        BY <4>1, <4>3, <4>4, <4>5, <3>5, PlacesMore
      <4> QED
        BY <2>1, <4>6, <4>7
    <3>10. CASE ~ (Len(c) + 1 <= To!getRemainingOutSpace(e.out))
      <4>1. Turn(e).work = (IF EverFits(c) THEN Inserted(rest, c) ELSE rest) /\ Turn(e).out = e.out
        BY <3>7, <3>10, <2>1 DEF Turns
      <4>2. WorkHolds(Inserted(rest, c), With(left2, pos, own[pos]))
        BY <3>3, <3>5, <3>6, <3>8, InsertedHolds DEF pos
      <4>3. Within(With(left2, pos, own[pos]), left) /\ Within(left2, left)
        BY <3>6, <3>8 DEF Within, With
      <4>4. WorkHolds(Turn(e).work, left)
        BY <4>1, <4>2, <4>3, <3>5, PlacesMore
      <4>5. Split(Turn(e))
        BY <4>1, <4>4, <3>4 DEF left
      <4> QED
        BY <2>1, <4>5
    <3> QED
      BY <3>9, <3>10
  <2> QED
    BY <2>2, <2>3
<1>3. Drained(w, o) \in T
  <2>1. T \in SUBSET Turns
    OBVIOUS
  <2> HIDE DEF T
  <2> QED
    BY <2>1, <1>1, <1>2, DrainedIn
<1> QED
  BY <1>3

-----------------------------------------------------------------------------
(* From ring to ring.                                                      *)

UpTo(w, p) == \A k \in 1 .. Len(w) : w[k].phase <= p

LEMMA NewHolds ==
  ASSUME NEW own
  PROVE  OutHolds(To!NewOut, own) /\ InHolds(To!NewIn, own)
<1>1. Written(To!NewOut.next[To!NewOut.cur], To!NewOut.cycled[To!NewOut.cur]) - 1 = -1
  BY DEF To!NewOut, Written
<1>2. ~ UnreadOf(To!NewIn)
  BY DEF UnreadOf, To!NewIn
<1> HIDE DEF To!NewOut
<1>3. \A d : Holds(d, 0, -1, own)
  BY DEF Holds
<1> QED
  BY <1>1, <1>2, <1>3 DEF OutHolds, InHolds

\* What the sender sends takes the positions of the ring along.
LEMMA SentHolds ==
  ASSUME NEW w \in Wires, NEW o, OutOK(o), NEW p \in Int, NEW ph, NEW own, NEW own1, NEW own2,
         WireHolds(w, ph, own1), p = ph => OutHolds(o, own2),
         Within(own1, own), Within(own2, own), DOMAIN own1 \cap DOMAIN own2 = {}
  PROVE  WireHolds(w \o SentOf(o, p), ph, own)
<1>1. CASE TouchedOf(o)
  <2>1. SentOf(o, p) = <<To!Message(o, p)>> /\ To!Message(o, p).phase = p
    BY <1>1 DEF SentOf, To!Message
  <2>2. To!Message(o, p).phase = ph => MessageHolds(To!Message(o, p), own2)
    BY <1>1, <2>1, MessageFrom
  <2> QED
    BY <2>1, <2>2, WireSent
<1>2. CASE ~ TouchedOf(o)
  <2>1. w \o SentOf(o, p) = w
    BY <1>2 DEF SentOf, Wires
  <2> QED
    BY <2>1, WireMore
<1> QED
  BY <1>1, <1>2

LEMMA SentUpTo ==
  ASSUME NEW w \in Wires, NEW o, NEW p \in Int, NEW r \in Int, UpTo(w, r), p <= r
  PROVE  UpTo(w \o SentOf(o, p), r)
<1>1. CASE TouchedOf(o)
  <2> DEFINE m == To!Message(o, p)
             v == w \o <<m>>
  <2>1. SentOf(o, p) = <<m>> /\ m.phase = p
    BY <1>1 DEF SentOf, To!Message
  <2> HIDE DEF m
  <2>2. Len(w) \in Nat /\ Len(v) = Len(w) + 1 /\ v[Len(w) + 1] = m /\ \A k \in 1 .. Len(w) : v[k] = w[k]
    BY DEF Wires
  <2> HIDE DEF v
  <2>3. UpTo(v, r)
    BY <2>1, <2>2 DEF UpTo
  <2> QED
    BY <2>1, <2>3 DEF v
<1>2. CASE ~ TouchedOf(o)
  <2>1. w \o SentOf(o, p) = w
    BY <1>2 DEF SentOf, Wires
  <2> QED
    BY <2>1
<1> QED
  BY <1>1, <1>2

LEMMA FewerUpTo ==
  ASSUME NEW w \in Wires, NEW r, UpTo(w, r)
  PROVE  /\ w # << >> => UpTo(Tail(w), r)
         /\ \A kept \in To!Selections(Len(w)) : UpTo(To!Selected(w, kept), r)
<1>1. ASSUME w # << >> PROVE UpTo(Tail(w), r)
  <2>1. Len(w) \in Nat /\ Len(Tail(w)) = Len(w) - 1 /\ \A k \in 1 .. Len(Tail(w)) : Tail(w)[k] = w[k + 1]
    BY <1>1 DEF Wires
  <2>2. \A k \in 1 .. Len(Tail(w)) : k + 1 \in 1 .. Len(w)
    BY <2>1
  <2> QED
    BY <2>1, <2>2 DEF UpTo
<1>2. ASSUME NEW kept \in To!Selections(Len(w)) PROVE UpTo(To!Selected(w, kept), r)
  <2>1. \A k \in 1 .. Len(To!Selected(w, kept)) : \E j \in 1 .. Len(w) : To!Selected(w, kept)[k] = w[j]
    BY SelectedFacts DEF Wires
  <2> HIDE DEF To!Selected
  <2> QED
    BY <2>1 DEF UpTo
<1> QED
  BY <1>1, <1>2

\* A receive takes positions from the wire to the ring.
LEMMA TakenHolds ==
  ASSUME NEW w \in Wires, w # << >>, NEW i, InOK(i), To!Fits(Head(w)), NEW p, NEW own, WireHolds(w, p, own)
  PROVE  \E A \in SUBSET DOMAIN own :
           /\ InHolds(ReceivedOf(i, Head(w), p), Part(own, A))
           /\ WireHolds(Tail(w), p, Part(own, DOMAIN own \ A))
<1>1. PICK A \in SUBSET DOMAIN own :
        /\ Head(w).phase = p => MessageHolds(Head(w), Part(own, A))
        /\ WireHolds(Tail(w), p, Part(own, DOMAIN own \ A))
  BY WireTaken
<1>2. Head(w) \in WholeMessages
  BY DEF Wires
<1>3. InHolds(ReceivedOf(i, Head(w), p), Part(own, A))
  BY <1>1, <1>2, ReceivedHolds
<1> QED
  BY <1>1, <1>3

LEMMA NothingTaken ==
  ASSUME NEW w, NEW i, ~ UnreadOf(i), NEW p, NEW own, WireHolds(w, p, own)
  PROVE  \E A \in SUBSET DOMAIN own : InHolds(i, Part(own, A)) /\ WireHolds(w, p, Part(own, DOMAIN own \ A))
<1>1. Within(own, Part(own, DOMAIN own \ {}))
  BY DEF Within, Part
<1>2. WireHolds(w, p, Part(own, DOMAIN own \ {}))
  BY <1>1, WireMore
<1>3. InHolds(i, Part(own, {}))
  BY DEF InHolds
<1>4. {} \in SUBSET DOMAIN own
  OBVIOUS
<1> QED
  BY <1>2, <1>3, <1>4

\* What else happens to the wire: messages leave it.
Fewer(w, v) ==
  \/ v = w
  \/ w # << >> /\ v = Tail(w)
  \/ \E kept \in To!Selections(Len(w)) : v = To!Selected(w, kept)

LEMMA FewerHolds ==
  ASSUME NEW w \in Wires, NEW v, Fewer(w, v)
  PROVE  /\ \A r : UpTo(w, r) => UpTo(v, r)
         /\ \A p, own : WireHolds(w, p, own) => WireHolds(v, p, own)
<1>1. \A r : UpTo(w, r) => UpTo(v, r)
  BY FewerUpTo DEF Fewer
<1>2. \A p, own : WireHolds(w, p, own) => WireHolds(v, p, own)
  BY WireTail, WireSelected DEF Fewer
<1> QED
  BY <1>1, <1>2

LEMMA ToFewer ==
  ASSUME NEW p
  PROVE  /\ To!CloseOut(p) \/ To!CloseIn \/ To!GetClause(p) => Fewer(toWire, toWire')
         /\ To!CloseOut(p) => toOut' = To!NewOut
         /\ To!CloseIn => toIn' = To!NewIn
BY DEF To!CloseOut, To!CloseIn, To!GetClause, Fewer

LEMMA BackFewer ==
  ASSUME NEW p
  PROVE  /\ Back!CloseOut(p) \/ Back!CloseIn \/ Back!GetClause(p) => Fewer(backWire, backWire')
         /\ Back!CloseOut(p) => backOut' = To!NewOut
         /\ Back!CloseIn => backIn' = To!NewIn
<1>1. Back!CloseOut(p) => Fewer(backWire, backWire') /\ backOut' = To!NewOut
  BY SameConstants, SameSelections DEF Back!CloseOut, Fewer
<1>2. Back!CloseIn => Fewer(backWire, backWire') /\ backIn' = To!NewIn
  BY SameConstants DEF Back!CloseIn, Fewer
<1>3. Back!GetClause(p) => Fewer(backWire, backWire')
  BY DEF Back!GetClause, Fewer
<1> QED
  BY <1>1, <1>2, <1>3

LEMMA ToTakenHolds ==
  ASSUME toWire \in Wires, InOK(toIn), ~ UnreadOf(toIn), NEW p, To!GetClause(p), NEW own, WireHolds(toWire, p, own)
  PROVE  \E A \in SUBSET DOMAIN own :
           InHolds(toIn', Part(own, A)) /\ WireHolds(toWire', p, Part(own, DOMAIN own \ A))
<1>1. CASE /\ toWire # << >> /\ To!Fits(Head(toWire))
           /\ toIn' = ReceivedOf(toIn, Head(toWire), p) /\ toWire' = Tail(toWire)
  BY <1>1, TakenHolds
<1>2. CASE UNCHANGED <<toIn, toWire>>
  BY <1>2, NothingTaken
<1> QED
  BY <1>1, <1>2, ToSide DEF To!GetClause

LEMMA BackTakenHolds ==
  ASSUME backWire \in Wires, InOK(backIn), ~ UnreadOf(backIn), NEW p, Back!GetClause(p), NEW own, WireHolds(backWire, p, own)
  PROVE  \E A \in SUBSET DOMAIN own :
           InHolds(backIn', Part(own, A)) /\ WireHolds(backWire', p, Part(own, DOMAIN own \ A))
<1>1. CASE /\ backWire # << >> /\ To!Fits(Head(backWire))
           /\ backIn' = ReceivedOf(backIn, Head(backWire), p) /\ backWire' = Tail(backWire)
  BY <1>1, TakenHolds
<1>2. CASE UNCHANGED <<backIn, backWire>>
  BY <1>2, NothingTaken
<1> QED
  BY <1>1, <1>2, BackSide, SameConstants DEF Back!GetClause

-----------------------------------------------------------------------------
(* Where the clauses are.  Each position of the present solver's pool is   *)
(* named by one clause at most, in one place, with literals of its own;    *)
(* what is left of earlier solvers is never read.                          *)

Places == {"work", "toOut", "toWire", "toIn", "backOut", "backWire", "backIn", "none"}
Pool(lp) == [q \in 0 .. Len(lp) - 1 |-> ToSet(lp[q + 1])]
Where(loc, x) == {q \in DOMAIN loc : loc[q] = x}
Share(lp, loc, x) == Part(Pool(lp), Where(loc, x))

LEMMA ShareFacts ==
  ASSUME NEW lp, NEW loc \in [0 .. Len(lp) - 1 -> Places], NEW x
  PROVE  /\ DOMAIN Share(lp, loc, x) = Where(loc, x)
         /\ \A q \in Where(loc, x) : Share(lp, loc, x)[q] = ToSet(lp[q + 1])
         /\ Where(loc, x) \subseteq 0 .. Len(lp) - 1
         /\ \A y : y # x => Where(loc, x) \cap Where(loc, y) = {}
<1>1. Where(loc, x) \subseteq 0 .. Len(lp) - 1
  BY DEF Where
<1>2. DOMAIN Pool(lp) = 0 .. Len(lp) - 1 /\ \A q \in 0 .. Len(lp) - 1 : Pool(lp)[q] = ToSet(lp[q + 1])
  BY DEF Pool
<1>3. Where(loc, x) \cap DOMAIN Pool(lp) = Where(loc, x)
  BY <1>1, <1>2
<1>4. \A y : y # x => Where(loc, x) \cap Where(loc, y) = {}
  BY DEF Where
<1> QED
  BY <1>1, <1>2, <1>3, <1>4, PartWithin DEF Share

\* What is in place x, or a part A of it, may be in place y later.
LEMMA SharesWithin ==
  ASSUME NEW lp, NEW loc \in [0 .. Len(lp) - 1 -> Places],
         NEW lp2, NEW loc2 \in [0 .. Len(lp2) - 1 -> Places], NEW x, NEW y, NEW A,
         \A q \in Where(loc, x) : q \in A => /\ q \in DOMAIN loc2 /\ loc2[q] = y
                                             /\ ToSet(lp[q + 1]) \subseteq ToSet(lp2[q + 1])
  PROVE  Within(Part(Share(lp, loc, x), A), Share(lp2, loc2, y))
<1> DEFINE s == Share(lp, loc, x)
           t == Share(lp2, loc2, y)
<1>1. DOMAIN s = Where(loc, x) /\ \A q \in Where(loc, x) : s[q] = ToSet(lp[q + 1])
  BY ShareFacts
<1>2. DOMAIN t = Where(loc2, y) /\ \A q \in Where(loc2, y) : t[q] = ToSet(lp2[q + 1])
  BY ShareFacts
<1>3. DOMAIN Part(s, A) = A \cap DOMAIN s /\ \A q \in A \cap DOMAIN s : Part(s, A)[q] = s[q]
  BY PartWithin
<1>4. \A q \in Where(loc, x) : q \in A => q \in Where(loc2, y)
  BY DEF Where
<1> HIDE DEF s, t
<1>5. Within(Part(s, A), t)
  BY <1>1, <1>2, <1>3, <1>4 DEF Within
<1> QED
  BY <1>5 DEF s, t

LEMMA ShareWithin ==
  ASSUME NEW lp, NEW loc \in [0 .. Len(lp) - 1 -> Places],
         NEW lp2, NEW loc2 \in [0 .. Len(lp2) - 1 -> Places], NEW x, NEW y,
         \A q \in Where(loc, x) : /\ q \in DOMAIN loc2 /\ loc2[q] = y
                                  /\ ToSet(lp[q + 1]) \subseteq ToSet(lp2[q + 1])
  PROVE  Within(Share(lp, loc, x), Share(lp2, loc2, y))
<1> DEFINE s == Share(lp, loc, x)
<1>1. Within(Part(s, DOMAIN s), Share(lp2, loc2, y))
  BY SharesWithin
<1>2. DOMAIN Part(s, DOMAIN s) = DOMAIN s /\ \A q \in DOMAIN s : Part(s, DOMAIN s)[q] = s[q]
  BY DEF Part
<1> QED
  BY <1>1, <1>2 DEF Within

\* A clause that was read leaves its ring, and nothing else happens there.
LEMMA ToRead ==
  ASSUME InOK(toIn), NEW p, To!GetClause(p)
  PROVE  /\ To!ClauseRead = << >> <=> ~ UnreadOf(toIn)
         /\ UnreadOf(toIn) => /\ toIn' = [toIn EXCEPT !.next[toIn.cur] = AfterOf(toIn)]
                              /\ toWire' = toWire
                              /\ To!ClauseRead = ClauseReadOf(toIn) /\ ClauseReadOf(toIn) \in Clauses
<1>1. UnreadOf(toIn) => ClauseReadOf(toIn) \in Clauses /\ ClauseReadOf(toIn) # << >>
  <2>1. \A c \in Clauses : c # << >>
    BY DEF Clauses
  <2> QED
    BY <2>1, ReadFacts
<1>2. ~ UnreadOf(toIn) => ClauseReadOf(toIn) = << >>
  BY DEF ClauseReadOf
<1> QED
  BY <1>1, <1>2, ToSide DEF To!GetClause

LEMMA BackRead ==
  ASSUME InOK(backIn), NEW p, Back!GetClause(p)
  PROVE  /\ Back!ClauseRead = << >> <=> ~ UnreadOf(backIn)
         /\ UnreadOf(backIn) => /\ backIn' = [backIn EXCEPT !.next[backIn.cur] = AfterOf(backIn)]
                                /\ backWire' = backWire
                                /\ Back!ClauseRead = ClauseReadOf(backIn) /\ ClauseReadOf(backIn) \in Clauses
<1>1. UnreadOf(backIn) => ClauseReadOf(backIn) \in Clauses /\ ClauseReadOf(backIn) # << >>
  <2>1. \A c \in Clauses : c # << >>
    BY DEF Clauses
  <2> QED
    BY <2>1, ReadFacts
<1>2. ~ UnreadOf(backIn) => ClauseReadOf(backIn) = << >>
  BY DEF ClauseReadOf
<1> QED
  BY <1>1, <1>2, BackSide DEF Back!GetClause

\* Messages of earlier phases do not count.
LEMMA EarlierHolds ==
  ASSUME NEW w \in Wires, NEW r \in Int, UpTo(w, r), NEW s \in Int
  PROVE  /\ r <= s => UpTo(w, s)
         /\ r < s => \A own : WireHolds(w, s, own)
<1>1. \A k \in 1 .. Len(w) : w[k].phase \in Int
  BY DEF Wires, WholeMessages, Messages
<1>2. r <= s => UpTo(w, s)
  BY <1>1 DEF UpTo
<1>3. ASSUME r < s, NEW own PROVE WireHolds(w, s, own)
  <2>1. [q \in DOMAIN own |-> 0] \in [DOMAIN own -> Int]
    OBVIOUS
  <2>2. \A k \in 1 .. Len(w) : w[k].phase # s
    BY <1>1, <1>3 DEF UpTo
  <2> QED
    BY <2>1, <2>2 DEF WireHolds
<1> QED
  BY <1>2, <1>3

\* The literals of a shorter clause are of the clause it was made from.
LEMMA ShorterHolds ==
  ASSUME NEW c \in Clauses, NEW lits \in Shorter(Lits(c)), NEW own, ClauseHolds(c, own)
  PROVE  LET x == WithPos(lits, litPoolPosOf(c))
         IN  /\ x \in Clauses /\ litPoolPosOf(x) = litPoolPosOf(c)
             /\ \A k \in 1 .. Len(x) - 2 : x[k] \in own[litPoolPosOf(c)]
<1> DEFINE pos == litPoolPosOf(c)
           x == WithPos(lits, pos)
<1>1. /\ Lits(c) \in Seq(Int \ {0}) /\ pos \in Nat /\ Len(Lits(c)) = Len(c) - 2
      /\ \A k \in 1 .. Len(c) - 2 : Lits(c)[k] = c[k]
  BY ClauseFacts
<1>2. lits \in Seq(Int \ {0}) /\ lits # << >>
  BY <1>1, ShorterFacts
<1>3. x \in Clauses /\ Lits(x) = lits /\ litPoolPosOf(x) = pos
  BY <1>1, <1>2, WithPosFacts
<1>4. PICK f \in To!Selections(Len(Lits(c))) : lits = To!Selected(Lits(c), f)
  BY DEF Shorter, Thinned
<1>5. \A k \in 1 .. Len(lits) : \E j \in 1 .. Len(Lits(c)) : lits[k] = Lits(c)[j]
  <2>1. Lits(c) \in Seq(Int \ {0}) /\ f \in To!Selections(Len(Lits(c)))
    BY <1>1, <1>4
  <2>2. \A k \in 1 .. Len(To!Selected(Lits(c), f)) :
           \E j \in 1 .. Len(Lits(c)) : To!Selected(Lits(c), f)[k] = Lits(c)[j]
    BY <2>1, SelectedFacts
  <2> QED
    BY <1>4, <2>2
<1>6. Len(lits) = Len(x) - 2 /\ \A k \in 1 .. Len(x) - 2 : lits[k] = x[k]
  BY <1>3, ClauseFacts
<1> HIDE DEF x, pos
<1>7. \A j \in 1 .. Len(c) - 2 : c[j] \in own[pos]
  BY DEF ClauseHolds, pos
<1>8. \A k \in 1 .. Len(x) - 2 : x[k] \in own[pos]
  BY <1>1, <1>5, <1>6, <1>7
<1> QED
  BY <1>3, <1>8 DEF x, pos

-----------------------------------------------------------------------------
(* The invariant: what is in the work set, in the rings and in the         *)
(* messages are whole clauses.                                             *)

Literals == Seq(Int \ {0})
WorkerOK ==
  /\ plan \in Plans
  /\ wpc \in {"idle", "solving", "getting", "done"}
  /\ phase \in Int /\ phase >= -1 /\ phase < Len(plan)
  /\ wpc \in {"solving", "getting"} => phase >= 0
  /\ litPool \in Seq(Literals)
  /\ work \in Seq(Clauses)
ReducerOK == rphase \in Int
BuffersOK ==
  /\ OutOK(toOut) /\ toWire \in Wires /\ InOK(toIn)
  /\ OutOK(backOut) /\ backWire \in Wires /\ InOK(backIn)
RingsInvariant == WorkerOK /\ ReducerOK /\ BuffersOK

LEMMA RingsInit == Init => RingsInvariant
<1> SUFFICES ASSUME Init PROVE RingsInvariant
  OBVIOUS
<1>1. plan \in Plans /\ Len(plan) \in Nat
  BY StrengtheningAssumption DEF Init
<1>2. WorkerOK /\ ReducerOK
  BY <1>1 DEF Init, WorkerOK, ReducerOK, Literals
<1>3. BuffersOK
  <2>1. OutOK(toOut) /\ toWire \in Wires /\ InOK(toIn)
    BY NewBuffers DEF Init, To!Init, Wires
  <2>2. OutOK(backOut) /\ backWire \in Wires /\ InOK(backIn)
    BY NewBuffers, SameConstants DEF Init, Back!Init, Wires
  <2> QED
    BY <2>1, <2>2 DEF BuffersOK
<1> QED
  BY <1>2, <1>3 DEF RingsInvariant

LEMMA RingsNext == RingsInvariant /\ [Next]_vars => RingsInvariant'
<1> SUFFICES ASSUME RingsInvariant, [Next]_vars PROVE RingsInvariant'
  OBVIOUS
<1> USE DEF RingsInvariant
<1>0. /\ WorkerOK /\ ReducerOK
      /\ OutOK(toOut) /\ toWire \in Wires /\ InOK(toIn)
      /\ OutOK(backOut) /\ backWire \in Wires /\ InOK(backIn)
      /\ Len(plan) \in Nat
  BY StrengtheningAssumption DEF BuffersOK, WorkerOK
<1>1. CASE NewMessage
  <2>1. WorkerOK' /\ ReducerOK'
    BY <1>0, <1>1 DEF NewMessage, WorkerOK, ReducerOK, reducerVars, Literals
  <2>2. OutOK(toOut') /\ toWire' \in Wires
    BY <1>0, <1>1, ToClosed DEF NewMessage
  <2>3. backWire' \in Wires /\ InOK(backIn')
    BY <1>0, <1>1, BackClosedIn DEF NewMessage
  <2>4. BuffersOK'
    BY <1>0, <1>1, <2>2, <2>3 DEF NewMessage, BuffersOK
  <2> QED
    BY <2>1, <2>4
<1>2. CASE Solved
  <2>1. WorkerOK' /\ ReducerOK'
    BY <1>0, <1>2 DEF Solved, WorkerOK, ReducerOK, reducerVars
  <2>2. BuffersOK'
    BY <1>0, <1>2 DEF Solved, BuffersOK, to, back
  <2> QED
    BY <2>1, <2>2
<1>3. CASE GetFromReducer
  <2> DEFINE c == Back!ClauseRead
             pos == litPoolPosOf(c) + 1
  <2>1. /\ litPool' = litPool \/ \E new \in Amended(litPool[pos], Lits(c)) : litPool' = [litPool EXCEPT ![pos] = new]
        /\ litPool' # litPool => pos \in DOMAIN litPool
    BY <1>3 DEF GetFromReducer
  <2>2. litPool' \in Seq(Literals)
    <3>1. CASE litPool' = litPool
      BY <3>1, <1>0 DEF WorkerOK
    <3>2. CASE litPool' # litPool
      <4>1. PICK new \in Amended(litPool[pos], Lits(c)) : litPool' = [litPool EXCEPT ![pos] = new]
        BY <2>1, <3>2
      <4>2. litPool[pos] \in Literals /\ litPool \in Seq(Literals) /\ pos \in 1 .. Len(litPool)
        BY <2>1, <3>2, <1>0 DEF WorkerOK
      <4> HIDE DEF pos
      <4>3. PICK f \in To!Selections(Len(litPool[pos])) : new = To!Selected(litPool[pos], f)
        BY <4>1 DEF Amended, Thinned
      <4>4. new \in Literals
        BY <4>2, <4>3, SelectedFacts DEF Literals
      <4> QED
        BY <4>1, <4>2, <4>4, ExceptSeq
    <3> QED
      BY <3>1, <3>2
  <2>3. WorkerOK' /\ ReducerOK'
    BY <1>0, <1>3, <2>2 DEF GetFromReducer, WorkerOK, ReducerOK, reducerVars
  <2>4. backWire' \in Wires /\ InOK(backIn')
    BY <1>0, <1>3, BackTaken DEF GetFromReducer
  <2>5. BuffersOK'
    BY <1>0, <1>3, <2>4 DEF GetFromReducer, BuffersOK, to
  <2> QED
    BY <2>3, <2>5
<1>4. CASE AddClause
  <2>1. PICK n \in plan[phase + 1].lengths, completed \in BOOLEAN :
          PushToReducer(completed, LitsOf(phase, Len(litPool), n))
    BY <1>4 DEF AddClause
  <2> DEFINE lits == LitsOf(phase, Len(litPool), n)
             queued == Inserted(work, WithPos(lits, Len(litPool)))
             d == Drained(queued, To!Tested(completed))
             after == IF completed THEN d.out ELSE toOut
  <2>2. /\ phase \in Int /\ phase >= -1 /\ phase < Len(plan) /\ phase >= 0
        /\ litPool \in Seq(Literals) /\ work \in Seq(Clauses)
    BY <1>0, <1>4 DEF WorkerOK, AddClause
  <2>3. n \in Nat \ {0}
    <3>1. phase + 1 \in 1 .. Len(plan)
      BY <2>2, <1>0
    <3>2. plan \in Seq([answers : Nat, lengths : SUBSET (Nat \ {0})])
      BY <1>0, StrengtheningAssumption DEF WorkerOK
    <3>3. plan[phase + 1] \in [answers : Nat, lengths : SUBSET (Nat \ {0})]
      BY <3>1, <3>2, ElementOfSeq
    <3> QED
      BY <3>3, <2>1
  <2>4. lits \in Literals /\ WithPos(lits, Len(litPool)) \in Clauses
    <3>1. Len(litPool) \in Nat
      BY <2>2
    <3> QED
      BY <3>1, <2>2, <2>3, LitsOfFacts, WithPosFacts DEF Literals
  <2>5. queued \in Seq(Clauses)
    BY <2>2, <2>4, InsertedFacts
  <2>6. OutOK(To!Tested(completed))
    BY <1>0, ToSide, TestedFacts
  <2>7. d.work \in Seq(Clauses) /\ OutOK(d.out)
    BY <2>5, <2>6, DrainedFacts
  <2>8. /\ litPool' = Append(litPool, lits)
        /\ work' = IF completed THEN d.work ELSE queued
        /\ To!Push(completed, phase, after)
    BY <2>1 DEF PushToReducer
  <2> HIDE DEF d, queued, lits, after
  <2>9. OutOK(after)
    BY <1>0, <2>7 DEF after
  <2>10. OutOK(toOut') /\ toWire' \in Wires
    BY <1>0, <2>2, <2>8, <2>9, ToPushed
  <2>11. litPool' \in Seq(Literals) /\ work' \in Seq(Clauses)
    BY <2>2, <2>4, <2>5, <2>7, <2>8
  <2>12. WorkerOK' /\ ReducerOK'
    BY <1>0, <1>4, <2>2, <2>11 DEF AddClause, WorkerOK, ReducerOK, reducerVars
  <2>13. backWire' \in Wires /\ InOK(backIn')
    BY <1>0, <1>4, BackTaken DEF AddClause
  <2>14. toIn' = toIn
    BY <2>8 DEF To!Push
  <2>15. BuffersOK'
    BY <1>0, <1>4, <2>10, <2>13, <2>14 DEF AddClause, BuffersOK
  <2> QED
    BY <2>12, <2>15
<1>5. CASE EndWorker
  <2>1. WorkerOK' /\ ReducerOK'
    BY <1>0, <1>5 DEF EndWorker, WorkerOK, ReducerOK, reducerVars, Literals
  <2>2. OutOK(toOut') /\ toWire' \in Wires
    BY <1>0, <1>5, ToClosed DEF EndWorker
  <2>3. backWire' \in Wires /\ InOK(backIn')
    BY <1>0, <1>5, BackClosedIn DEF EndWorker
  <2>4. BuffersOK'
    BY <1>0, <1>5, <2>2, <2>3 DEF EndWorker, BuffersOK
  <2> QED
    BY <2>1, <2>4
<1>6. CASE StartReducer
  <2>1. WorkerOK' /\ ReducerOK'
    BY <1>0, <1>6 DEF StartReducer, WorkerOK, ReducerOK, workerVars
  <2>2. BuffersOK'
    BY <1>0, <1>6 DEF StartReducer, BuffersOK, to, back
  <2> QED
    BY <2>1, <2>2
<1>7. CASE Reduce
  <2> DEFINE c == To!ClauseRead
  <2>1. WorkerOK' /\ ReducerOK'
    BY <1>0, <1>7 DEF Reduce, WorkerOK, ReducerOK, workerVars
  <2>2. toWire' \in Wires /\ InOK(toIn')
    BY <1>0, <1>7, ToTaken DEF Reduce
  <2>3. c \in Clauses
    <3>1. UnreadOf(toIn) /\ c = ClauseReadOf(toIn)
      BY <1>7, ToSide DEF Reduce, ClauseReadOf
    <3> QED
      BY <3>1, <1>0, ReadFacts
  <2>4. OutOK(backOut') /\ backWire' \in Wires
    <3>1. CASE UNCHANGED <<backOut, backWire>>
      BY <3>1, <1>0
    <3>2. ASSUME NEW lits \in Shorter(Lits(c)), NEW completed \in BOOLEAN,
                 Back!Push(completed, rphase, Back!Pushed(Back!Tested(completed), WithPos(lits, litPoolPosOf(c))))
          PROVE  OutOK(backOut') /\ backWire' \in Wires
      <4>1. OutOK(Back!Tested(completed))
        BY <1>0, BackSide, TestedFacts
      <4>2. WithPos(lits, litPoolPosOf(c)) \in Clauses
        BY <2>3, ClauseFacts, ShorterFacts, WithPosFacts
      <4>3. OutOK(Back!Pushed(Back!Tested(completed), WithPos(lits, litPoolPosOf(c))))
        BY <4>1, <4>2, PushedOK, SameConstants
      <4>4. rphase \in Int
        BY <1>0 DEF ReducerOK
      <4> QED
        BY <3>2, <4>3, <4>4, <1>0, BackPushed
    <3> QED
      BY <3>1, <3>2, <1>7 DEF Reduce
  <2>5. BuffersOK'
    BY <1>0, <1>7, <2>2, <2>4 DEF Reduce, BuffersOK
  <2> QED
    BY <2>1, <2>5
<1>8. CASE AwaitClause
  <2>1. WorkerOK' /\ ReducerOK'
    BY <1>0, <1>8 DEF AwaitClause, WorkerOK, ReducerOK, workerVars, reducerVars
  <2>2. toWire' \in Wires /\ InOK(toIn')
    BY <1>0, <1>8, ToTaken DEF AwaitClause
  <2>3. BuffersOK'
    BY <1>0, <1>8, <2>2 DEF AwaitClause, BuffersOK, back
  <2> QED
    BY <2>1, <2>3
<1>9. CASE StopReducer
  <2>1. WorkerOK' /\ ReducerOK'
    BY <1>0, <1>9 DEF StopReducer, WorkerOK, ReducerOK, workerVars
  <2>2. OutOK(backOut') /\ backWire' \in Wires
    BY <1>0, <1>9, BackClosed DEF StopReducer
  <2>3. toWire' \in Wires /\ InOK(toIn')
    BY <1>0, <1>9, ToClosedIn DEF StopReducer
  <2>4. BuffersOK'
    BY <1>0, <1>9, <2>2, <2>3 DEF StopReducer, BuffersOK
  <2> QED
    BY <2>1, <2>4
<1>10. CASE Abort \/ UNCHANGED vars
  <2>1. UNCHANGED <<plan, workerVars, reducerVars, to, back>>
    BY <1>10 DEF Abort, vars
  <2>2. WorkerOK' /\ ReducerOK'
    BY <1>0, <2>1 DEF WorkerOK, ReducerOK, workerVars, reducerVars
  <2>3. BuffersOK'
    BY <1>0, <2>1 DEF BuffersOK, to, back
  <2> QED
    BY <2>2, <2>3
<1> QED
  BY <1>1, <1>2, <1>3, <1>4, <1>5, <1>6, <1>7, <1>8, <1>9, <1>10
     DEF Next, WorkerStep, ReducerStep, Rest

THEOREM RingsHoldWholeClauses == Spec => []RingsInvariant
BY RingsInit, RingsNext, PTL DEF Spec

\* The assertions of MpiBuffer::getClause hold on both sides, whatever the
\* size of the rings and however they have wrapped around.
THEOREM ReadsAreWhole == Spec => []ReadsWholeClauses
<1>1. RingsInvariant => ReadsWholeClauses
  <2> SUFFICES ASSUME RingsInvariant PROVE ReadsWholeClauses
    OBVIOUS
  <2>1. To!ReadsWholeClause
    BY ToSide, ReadFacts DEF RingsInvariant, BuffersOK, To!ReadsWholeClause
  <2>2. Back!ReadsWholeClause
    BY BackSide, ReadFacts DEF RingsInvariant, BuffersOK, Back!ReadsWholeClause
  <2> QED
    BY <2>1, <2>2 DEF ReadsWholeClauses
<1> QED
  BY <1>1, RingsHoldWholeClauses, PTL

-----------------------------------------------------------------------------
(* The invariant of that, as long as the worker has not ended.             *)

PlacesHold(loc) ==
  /\ WorkHolds(work, Share(litPool, loc, "work"))
  /\ OutHolds(toOut, Share(litPool, loc, "toOut"))
  /\ WireHolds(toWire, phase, Share(litPool, loc, "toWire"))
  /\ rphase = phase => /\ InHolds(toIn, Share(litPool, loc, "toIn"))
                       /\ OutHolds(backOut, Share(litPool, loc, "backOut"))
  /\ WireHolds(backWire, phase, Share(litPool, loc, "backWire"))
  /\ InHolds(backIn, Share(litPool, loc, "backIn"))
OnePlaceEach == \E loc \in [0 .. Len(litPool) - 1 -> Places] : PlacesHold(loc)

\* The strengthener is as many phases behind as there are CNFs for it.
PhasesOK ==
  /\ orders \in Seq({"cnf"}) /\ rphase + Len(orders) = phase
  /\ rpc = "idle" => toIn = To!NewIn /\ backOut = To!NewOut
  /\ UpTo(toWire, phase) /\ UpTo(backWire, rphase)
PlacesInvariant == wpc # "done" => PhasesOK /\ OnePlaceEach

LEMMA PlacesInit == Init => PlacesInvariant
<1> SUFFICES ASSUME Init PROVE PlacesInvariant
  OBVIOUS
<1>1. PhasesOK
  <2>1. toIn = To!NewIn /\ backOut = To!NewOut /\ toWire = << >> /\ backWire = << >>
    BY SameConstants DEF Init, To!Init, Back!Init
  <2> QED
    BY <2>1 DEF Init, PhasesOK, UpTo
<1>2. OnePlaceEach
  <2>1. /\ toOut = To!NewOut /\ toIn = To!NewIn /\ backOut = To!NewOut /\ backIn = To!NewIn
        /\ toWire = << >> /\ backWire = << >> /\ work = << >> /\ litPool = << >>
    BY SameConstants DEF Init, To!Init, Back!Init
  <2> DEFINE loc == [q \in 0 .. Len(litPool) - 1 |-> "none"]
  <2>2. loc \in [0 .. Len(litPool) - 1 -> Places]
    BY DEF Places
  <2> HIDE DEF loc
  <2>3. \A own : WorkHolds(<< >>, own)
    BY DEF WorkHolds
  <2>4. \A p, own : WireHolds(<< >>, p, own)
    <3> SUFFICES ASSUME NEW p, NEW own PROVE WireHolds(<< >>, p, own)
      OBVIOUS
    <3>1. [q \in DOMAIN own |-> 0] \in [DOMAIN own -> Int]
      OBVIOUS
    <3>2. \A k \in 1 .. Len(<< >>) : FALSE
      OBVIOUS
    <3> QED
      BY <3>1, <3>2 DEF WireHolds
  <2>5. PlacesHold(loc)
    BY <2>1, <2>3, <2>4, NewHolds DEF PlacesHold
  <2> QED
    BY <2>2, <2>5 DEF OnePlaceEach
<1> QED
  BY <1>1, <1>2 DEF PlacesInvariant

LEMMA PlacesNewMessage ==
  ASSUME RingsInvariant, PlacesInvariant, NewMessage
  PROVE  PlacesInvariant'
<1>0. /\ phase \in Int /\ rphase \in Int /\ toWire \in Wires /\ backWire \in Wires
      /\ PhasesOK /\ Len(orders) \in Nat
  BY DEF RingsInvariant, WorkerOK, ReducerOK, BuffersOK, NewMessage, PlacesInvariant, PhasesOK
<1>1. /\ phase' = phase + 1 /\ rphase' = rphase /\ litPool' = << >> /\ work' = << >>
      /\ orders' = Append(orders, "cnf") /\ rpc' = rpc /\ toIn' = toIn /\ backOut' = backOut
      /\ To!CloseOut(phase) /\ Back!CloseIn
  BY DEF NewMessage, reducerVars
<1>2. /\ toOut' = To!NewOut /\ Fewer(toWire, toWire')
      /\ backIn' = To!NewIn /\ Fewer(backWire, backWire')
  BY <1>1, ToFewer, BackFewer
<1>3. toWire' \in Wires /\ backWire' \in Wires
  BY <1>0, <1>1, ToClosed, BackClosedIn
<1>4. UpTo(toWire', phase) /\ UpTo(backWire', rphase)
  BY <1>0, <1>2, FewerHolds DEF PhasesOK
<1>5. rphase <= phase
  BY <1>0 DEF PhasesOK
<1>6. PhasesOK'
  <2>1. orders' \in Seq({"cnf"}) /\ Len(orders') = Len(orders) + 1
    BY <1>0, <1>1 DEF PhasesOK
  <2>2. rphase' + Len(orders') = phase'
    BY <1>0, <1>1, <2>1 DEF PhasesOK
  <2>3. UpTo(toWire', phase') /\ UpTo(backWire', rphase')
    BY <1>0, <1>1, <1>3, <1>4, EarlierHolds
  <2> QED
    BY <1>0, <1>1, <2>1, <2>2, <2>3 DEF PhasesOK
<1>7. OnePlaceEach'
  <2>1. PICK loc \in [0 .. Len(litPool') - 1 -> Places] : loc = [q \in 0 .. Len(litPool') - 1 |-> "none"]
    BY DEF Places
  <2>2. \A own : WorkHolds(work', own)
    BY <1>1 DEF WorkHolds
  <2>3. \A own : WireHolds(toWire', phase', own) /\ WireHolds(backWire', phase', own)
    BY <1>0, <1>1, <1>3, <1>4, <1>5, EarlierHolds
  <2>4. \A own : OutHolds(toOut', own) /\ InHolds(backIn', own)
    BY <1>2, NewHolds
  <2>5. rphase' # phase'
    BY <1>0, <1>1, <1>5
  <2>6. PlacesHold(loc)'
    BY <2>2, <2>3, <2>4, <2>5 DEF PlacesHold
  <2> QED
    BY <2>1, <2>6 DEF OnePlaceEach
<1> QED
  BY <1>6, <1>7 DEF PlacesInvariant

LEMMA PlacesStartReducer ==
  ASSUME RingsInvariant, PlacesInvariant, StartReducer, wpc # "done"
  PROVE  PlacesInvariant'
<1>0. /\ phase \in Int /\ rphase \in Int /\ backWire \in Wires
      /\ PhasesOK /\ Len(orders) \in Nat
  BY DEF RingsInvariant, WorkerOK, ReducerOK, BuffersOK, PlacesInvariant, PhasesOK
<1>1. rpc = "idle" /\ orders # << >> /\ orders' = Tail(orders) /\ Head(orders) = "cnf"
  BY <1>0 DEF StartReducer, PhasesOK
<1>2. rpc' \in {"reducing", "unsat"} /\ rphase' = rphase + 1
  BY <1>1 DEF StartReducer
<1>3. UNCHANGED <<wpc, phase, litPool, work, toOut, toWire, toIn, backOut, backWire, backIn>>
  BY DEF StartReducer, workerVars, to, back
<1>4. toIn = To!NewIn /\ backOut = To!NewOut
  BY <1>0, <1>1 DEF PhasesOK
<1>5. PhasesOK'
  <2>1. orders' \in Seq({"cnf"}) /\ Len(orders') = Len(orders) - 1
    BY <1>0, <1>1 DEF PhasesOK
  <2>2. rphase' + Len(orders') = phase'
    BY <1>0, <1>2, <1>3, <2>1 DEF PhasesOK
  <2>3. UpTo(toWire', phase') /\ UpTo(backWire', rphase')
    BY <1>0, <1>2, <1>3, EarlierHolds DEF PhasesOK
  <2> QED
    BY <1>2, <2>1, <2>2, <2>3 DEF PhasesOK
<1>6. OnePlaceEach'
  <2>1. PICK loc \in [0 .. Len(litPool) - 1 -> Places] : PlacesHold(loc)
    BY DEF PlacesInvariant, OnePlaceEach
  <2>2. \A own : InHolds(toIn', own) /\ OutHolds(backOut', own)
    BY <1>3, <1>4, NewHolds
  <2>3. PlacesHold(loc)'
    BY <1>3, <2>1, <2>2 DEF PlacesHold
  <2> QED
    BY <1>3, <2>1, <2>3 DEF OnePlaceEach
<1> QED
  BY <1>5, <1>6 DEF PlacesInvariant

LEMMA PlacesStopReducer ==
  ASSUME RingsInvariant, PlacesInvariant, StopReducer, wpc # "done"
  PROVE  PlacesInvariant'
<1>0. /\ phase \in Int /\ rphase \in Int /\ toWire \in Wires /\ backWire \in Wires
      /\ PhasesOK /\ Len(orders) \in Nat
  BY DEF RingsInvariant, WorkerOK, ReducerOK, BuffersOK, PlacesInvariant, PhasesOK
<1>1. orders # << >> /\ rpc' = "idle" /\ Back!CloseOut(rphase) /\ To!CloseIn
  BY DEF StopReducer
<1>2. UNCHANGED <<wpc, phase, litPool, work, orders, rphase, toOut, backIn>>
  BY DEF StopReducer, workerVars
<1>3. /\ toIn' = To!NewIn /\ Fewer(toWire, toWire')
      /\ backOut' = To!NewOut /\ Fewer(backWire, backWire')
  BY <1>1, ToFewer, BackFewer
<1>4. rphase # phase
  <2>1. Len(orders) > 0
    BY <1>0, <1>1 DEF PhasesOK
  <2> QED
    BY <1>0, <2>1 DEF PhasesOK
<1>5. PhasesOK'
  BY <1>0, <1>2, <1>3, FewerHolds DEF PhasesOK
<1>6. OnePlaceEach'
  <2>1. PICK loc \in [0 .. Len(litPool) - 1 -> Places] : PlacesHold(loc)
    BY DEF PlacesInvariant, OnePlaceEach
  <2>2. /\ WireHolds(toWire', phase, Share(litPool, loc, "toWire"))
        /\ WireHolds(backWire', phase, Share(litPool, loc, "backWire"))
    BY <1>0, <1>3, <2>1, FewerHolds DEF PlacesHold
  <2>3. PlacesHold(loc)'
    BY <1>2, <1>4, <2>1, <2>2 DEF PlacesHold
  <2> QED
    BY <1>2, <2>1, <2>3 DEF OnePlaceEach
<1> QED
  BY <1>5, <1>6 DEF PlacesInvariant

LEMMA PlacesAwaitClause ==
  ASSUME RingsInvariant, PlacesInvariant, AwaitClause, wpc # "done"
  PROVE  PlacesInvariant'
<1>0. /\ phase \in Int /\ rphase \in Int /\ toWire \in Wires /\ backWire \in Wires /\ InOK(toIn)
      /\ PhasesOK
  BY DEF RingsInvariant, WorkerOK, ReducerOK, BuffersOK, PlacesInvariant, PhasesOK
<1>1. rpc = "reducing" /\ To!ClauseRead = << >> /\ To!GetClause(rphase)
  BY DEF AwaitClause
<1>2. UNCHANGED <<wpc, phase, litPool, work, orders, rpc, rphase, toOut, backOut, backWire, backIn>>
  BY DEF AwaitClause, workerVars, reducerVars, back
<1>3. Fewer(toWire, toWire') /\ ~ UnreadOf(toIn)
  BY <1>0, <1>1, ToFewer, ToRead
<1>4. PhasesOK'
  BY <1>0, <1>1, <1>2, <1>3, FewerHolds DEF PhasesOK
<1>5. PICK loc \in [0 .. Len(litPool) - 1 -> Places] : PlacesHold(loc)
  BY DEF PlacesInvariant, OnePlaceEach
<1>6. CASE rphase # phase
  <2>1. WireHolds(toWire', phase, Share(litPool, loc, "toWire"))
    BY <1>0, <1>3, <1>5, FewerHolds DEF PlacesHold
  <2>2. PlacesHold(loc)'
    BY <1>2, <1>5, <1>6, <2>1 DEF PlacesHold
  <2> QED
    BY <1>2, <1>4, <2>2 DEF PlacesInvariant, OnePlaceEach
<1>7. CASE rphase = phase
  <2> DEFINE own == Share(litPool, loc, "toWire")
  <2>1. PICK A \in SUBSET DOMAIN own : InHolds(toIn', Part(own, A)) /\ WireHolds(toWire', phase, Part(own, DOMAIN own \ A))
    BY <1>0, <1>1, <1>3, <1>5, <1>7, ToTakenHolds DEF PlacesHold
  <2>2. DOMAIN own = Where(loc, "toWire")
    BY ShareFacts
  <2>3. PICK loc2 \in [0 .. Len(litPool) - 1 -> Places] :
          loc2 = [q \in 0 .. Len(litPool) - 1 |-> IF q \in A THEN "toIn" ELSE loc[q]]
    BY DEF Places
  <2> HIDE DEF own
  <2>4. /\ \A q \in A : loc[q] = "toWire" /\ q \in DOMAIN loc2 /\ loc2[q] = "toIn"
        /\ \A q \in 0 .. Len(litPool) - 1 : q \notin A => loc2[q] = loc[q]
    BY <2>1, <2>2, <2>3 DEF Where
  <2>5. \A x : x # "toWire" => Within(Share(litPool, loc, x), Share(litPool, loc2, x))
    <3> SUFFICES ASSUME NEW x, x # "toWire" PROVE Within(Share(litPool, loc, x), Share(litPool, loc2, x))
      OBVIOUS
    <3>1. \A q \in Where(loc, x) : q \in DOMAIN loc2 /\ loc2[q] = x
      BY <2>4 DEF Where
    <3> QED
      BY <3>1, ShareWithin
  <2>6. Within(Part(own, A), Share(litPool, loc2, "toIn"))
    BY <2>4, SharesWithin DEF own
  <2>7. Within(Part(own, DOMAIN own \ A), Share(litPool, loc2, "toWire"))
    <3>1. \A q \in Where(loc, "toWire") : q \in DOMAIN own \ A => q \in DOMAIN loc2 /\ loc2[q] = "toWire"
      BY <2>4 DEF Where
    <3>2. Within(Part(Share(litPool, loc, "toWire"), DOMAIN own \ A), Share(litPool, loc2, "toWire"))
      BY <3>1, SharesWithin
    <3> QED
      BY <3>2 DEF own
  <2>8. /\ InHolds(toIn', Share(litPool, loc2, "toIn"))
        /\ WireHolds(toWire', phase, Share(litPool, loc2, "toWire"))
    BY <2>1, <2>6, <2>7, PlacesMore, WireMore
  <2>9. /\ WorkHolds(work, Share(litPool, loc2, "work")) /\ OutHolds(toOut, Share(litPool, loc2, "toOut"))
        /\ OutHolds(backOut, Share(litPool, loc2, "backOut")) /\ InHolds(backIn, Share(litPool, loc2, "backIn"))
        /\ WireHolds(backWire, phase, Share(litPool, loc2, "backWire"))
    BY <1>5, <1>7, <2>5, PlacesMore, WireMore DEF PlacesHold
  <2>10. PlacesHold(loc2)'
    BY <1>2, <2>8, <2>9 DEF PlacesHold
  <2> QED
    BY <1>2, <1>4, <2>3, <2>10 DEF PlacesInvariant, OnePlaceEach
<1> QED
  BY <1>6, <1>7

LEMMA PlacesGetFromReducer ==
  ASSUME RingsInvariant, PlacesInvariant, GetFromReducer
  PROVE  PlacesInvariant'
<1>0. /\ backWire \in Wires /\ InOK(backIn) /\ PhasesOK /\ litPool \in Seq(Literals)
  BY DEF RingsInvariant, WorkerOK, BuffersOK, PlacesInvariant, GetFromReducer
<1>1. Back!ClauseRead # << >> /\ Back!GetClause(phase)
  BY DEF GetFromReducer
<1>2. UNCHANGED <<wpc, phase, work, orders, rpc, rphase, toOut, toWire, toIn, backOut>>
  BY DEF GetFromReducer, reducerVars, to
<1> DEFINE c == ClauseReadOf(backIn)
           pos == litPoolPosOf(c)
<1>3. /\ UnreadOf(backIn) /\ Back!ClauseRead = c
      /\ backIn' = [backIn EXCEPT !.next[backIn.cur] = AfterOf(backIn)] /\ backWire' = backWire
  BY <1>0, <1>1, BackRead
<1>4. PhasesOK'
  BY <1>0, <1>2, <1>3 DEF PhasesOK
<1>5. Len(litPool') = Len(litPool) /\ \A q \in 0 .. Len(litPool) - 1 : q # pos => litPool'[q + 1] = litPool[q + 1]
  <2>1. litPool' = litPool \/ \E new : litPool' = [litPool EXCEPT ![pos + 1] = new]
    BY <1>3 DEF GetFromReducer
  <2> HIDE DEF pos
  <2>2. pos \in Nat
    <3>1. c \in Clauses
      BY <1>0, <1>3, ReadFacts
    <3> QED
      BY <3>1, ClauseFacts DEF pos
  <2>3. \A q \in 0 .. Len(litPool) - 1 : q # pos => q + 1 # pos + 1
    BY <2>2
  <2>4. CASE litPool' = litPool
    BY <2>4
  <2>5. ASSUME NEW new, litPool' = [litPool EXCEPT ![pos + 1] = new]
        PROVE  Len(litPool') = Len(litPool) /\ \A q \in 0 .. Len(litPool) - 1 : q # pos => litPool'[q + 1] = litPool[q + 1]
    <3>1. DOMAIN litPool' = 1 .. Len(litPool) /\ Len(litPool) \in Nat
      BY <1>0, <2>5
    <3>2. Len(litPool') = Len(litPool)
      BY <3>1, <2>5, <1>0
    <3>3. \A q \in 0 .. Len(litPool) - 1 : q + 1 \in DOMAIN litPool
      BY <1>0
    <3> QED
      BY <3>2, <3>3, <2>3, <2>5
  <2> QED
    BY <2>1, <2>4, <2>5
<1>6. PICK loc \in [0 .. Len(litPool) - 1 -> Places] : PlacesHold(loc)
  BY DEF PlacesInvariant, OnePlaceEach, GetFromReducer
<1> DEFINE own == Share(litPool, loc, "backIn")
<1>7. ClauseHolds(c, own) /\ InHolds(backIn', Part(own, DOMAIN own \ {pos}))
  BY <1>0, <1>3, <1>6, ReadHolds DEF PlacesHold
<1>8. DOMAIN own = Where(loc, "backIn") /\ pos \in DOMAIN own
  BY <1>7, ShareFacts DEF ClauseHolds
<1> HIDE DEF own, pos, c
<1>9. PICK loc2 \in [0 .. Len(litPool') - 1 -> Places] :
        loc2 = [q \in 0 .. Len(litPool) - 1 |-> IF q = pos THEN "none" ELSE loc[q]]
  BY <1>5 DEF Places
<1>10. \A x : x # "backIn" => Within(Share(litPool, loc, x), Share(litPool', loc2, x))
  <2> SUFFICES ASSUME NEW x, x # "backIn" PROVE Within(Share(litPool, loc, x), Share(litPool', loc2, x))
    OBVIOUS
  <2>1. \A q \in Where(loc, x) : q # pos /\ q \in 0 .. Len(litPool) - 1 /\ loc[q] = x
    BY <1>8 DEF Where
  <2>2. \A q \in Where(loc, x) : q \in DOMAIN loc2 /\ loc2[q] = x /\ litPool[q + 1] = litPool'[q + 1]
    BY <2>1, <1>5, <1>9
  <2>3. \A q \in Where(loc, x) : q \in DOMAIN loc2 /\ loc2[q] = x /\ ToSet(litPool[q + 1]) \subseteq ToSet(litPool'[q + 1])
    BY <2>2
  <2> QED
    BY <2>3, ShareWithin
<1>11. Within(Part(own, DOMAIN own \ {pos}), Share(litPool', loc2, "backIn"))
  <2>1. \A q \in Where(loc, "backIn") : q \in 0 .. Len(litPool) - 1 /\ loc[q] = "backIn"
    BY DEF Where
  <2>2. \A q \in Where(loc, "backIn") : q \in DOMAIN own \ {pos} =>
          q \in DOMAIN loc2 /\ loc2[q] = "backIn" /\ litPool[q + 1] = litPool'[q + 1]
    BY <2>1, <1>5, <1>9
  <2>3. \A q \in Where(loc, "backIn") : q \in DOMAIN own \ {pos} =>
          q \in DOMAIN loc2 /\ loc2[q] = "backIn" /\ ToSet(litPool[q + 1]) \subseteq ToSet(litPool'[q + 1])
    BY <2>2
  <2>4. Within(Part(Share(litPool, loc, "backIn"), DOMAIN own \ {pos}), Share(litPool', loc2, "backIn"))
    BY <2>3, SharesWithin
  <2> QED
    BY <2>4 DEF own
<1>12. InHolds(backIn', Share(litPool', loc2, "backIn"))
  BY <1>7, <1>11, PlacesMore
<1>13. /\ WorkHolds(work, Share(litPool', loc2, "work")) /\ OutHolds(toOut, Share(litPool', loc2, "toOut"))
       /\ WireHolds(toWire, phase, Share(litPool', loc2, "toWire"))
       /\ rphase = phase => /\ InHolds(toIn, Share(litPool', loc2, "toIn"))
                            /\ OutHolds(backOut, Share(litPool', loc2, "backOut"))
       /\ WireHolds(backWire, phase, Share(litPool', loc2, "backWire"))
  BY <1>6, <1>10, PlacesMore, WireMore DEF PlacesHold
<1>14. PlacesHold(loc2)'
  BY <1>2, <1>3, <1>12, <1>13 DEF PlacesHold
<1> QED
  BY <1>4, <1>14 DEF PlacesInvariant, OnePlaceEach

LEMMA PlacesReduce ==
  ASSUME RingsInvariant, PlacesInvariant, Reduce, wpc # "done"
  PROVE  PlacesInvariant'
<1>0. /\ phase \in Int /\ rphase \in Int /\ toWire \in Wires /\ backWire \in Wires /\ InOK(toIn)
      /\ OutOK(backOut) /\ PhasesOK
  BY DEF RingsInvariant, WorkerOK, ReducerOK, BuffersOK, PlacesInvariant, PhasesOK
<1>1. rpc = "reducing" /\ rpc' # "idle" /\ To!ClauseRead # << >> /\ To!GetClause(rphase)
  BY DEF Reduce
<1>2. UNCHANGED <<wpc, phase, litPool, work, orders, rphase, toOut, backIn>>
  BY DEF Reduce, workerVars
<1> DEFINE c == ClauseReadOf(toIn)
           pos == litPoolPosOf(c)
<1>3. /\ UnreadOf(toIn) /\ To!ClauseRead = c /\ c \in Clauses
      /\ toIn' = [toIn EXCEPT !.next[toIn.cur] = AfterOf(toIn)] /\ toWire' = toWire
  BY <1>0, <1>1, ToRead
<1>4. \/ UNCHANGED <<backOut, backWire>>
      \/ \E lits \in Shorter(Lits(c)), completed \in BOOLEAN :
           /\ backOut' = To!Pushed(TestedOf(backOut, completed), WithPos(lits, pos))
           /\ backWire' = IF completed THEN backWire \o SentOf(backOut, rphase) ELSE backWire
  BY <1>3, BackSide, SameConstants DEF Reduce, Back!Push
<1>5. PICK loc \in [0 .. Len(litPool) - 1 -> Places] : PlacesHold(loc)
  BY DEF PlacesInvariant, OnePlaceEach
<1>6. PhasesOK'
  <2>1. UpTo(backWire', rphase)
    <3>1. UpTo(backWire, rphase)
      BY <1>0 DEF PhasesOK
    <3>2. UpTo(backWire \o SentOf(backOut, rphase), rphase)
      BY <3>1, <1>0, SentUpTo
    <3> QED
      BY <3>1, <3>2, <1>4
  <2> QED
    BY <1>0, <1>1, <1>2, <1>3, <2>1 DEF PhasesOK
<1>7. CASE rphase # phase
  <2>1. WireHolds(backWire', phase, Share(litPool, loc, "backWire"))
    <3> DEFINE s == Share(litPool, loc, "backWire")
    <3>1. WireHolds(backWire, phase, s)
      BY <1>5 DEF PlacesHold
    <3> HIDE DEF s
    <3>2. WireHolds(backWire \o SentOf(backOut, rphase), phase, s)
      <4>1. Within(s, s) /\ Within(Part(s, {}), s) /\ DOMAIN s \cap DOMAIN Part(s, {}) = {}
        BY DEF Within, Part
      <4> QED
        BY <1>0, <1>7, <3>1, <4>1, SentHolds
    <3> QED
      BY <3>1, <3>2, <1>4 DEF s
  <2>2. PlacesHold(loc)'
    BY <1>2, <1>3, <1>5, <1>7, <2>1 DEF PlacesHold
  <2> QED
    BY <1>2, <1>6, <2>2 DEF PlacesInvariant, OnePlaceEach
<1>8. CASE rphase = phase
  <2> DEFINE own == Share(litPool, loc, "toIn")
             kept == Share(litPool, loc, "backOut")
             sent == Share(litPool, loc, "backWire")
  <2>1. ClauseHolds(c, own) /\ InHolds(toIn', Part(own, DOMAIN own \ {pos}))
    BY <1>0, <1>3, <1>5, <1>8, ReadHolds DEF PlacesHold
  <2>2. OutHolds(backOut, kept) /\ WireHolds(backWire, phase, sent)
    BY <1>5, <1>8 DEF PlacesHold
  <2>3. /\ DOMAIN own = Where(loc, "toIn") /\ pos \in Where(loc, "toIn") /\ own[pos] = ToSet(litPool[pos + 1])
        /\ DOMAIN kept = Where(loc, "backOut") /\ pos \notin Where(loc, "backOut")
        /\ DOMAIN sent = Where(loc, "backWire")
        /\ DOMAIN kept \cap DOMAIN sent = {}
        /\ \A q \in DOMAIN kept : kept[q] = ToSet(litPool[q + 1])
    <3>1. /\ DOMAIN own = Where(loc, "toIn") /\ \A q \in Where(loc, "toIn") : own[q] = ToSet(litPool[q + 1])
          /\ DOMAIN kept = Where(loc, "backOut") /\ DOMAIN sent = Where(loc, "backWire")
          /\ \A q \in DOMAIN kept : kept[q] = ToSet(litPool[q + 1])
      BY ShareFacts
    <3> HIDE DEF own, kept, sent
    <3>2. pos \in DOMAIN own
      BY <2>1 DEF ClauseHolds
    <3> QED
      BY <3>1, <3>2 DEF Where
  <2> HIDE DEF own, kept, sent
  <2>4. PICK completed \in BOOLEAN, loc2 \in [0 .. Len(litPool) - 1 -> Places] :
          /\ loc2 = [q \in 0 .. Len(litPool) - 1 |->
                       IF q = pos THEN "backOut"
                       ELSE IF completed /\ loc[q] = "backOut" THEN "backWire" ELSE loc[q]]
          /\ \/ UNCHANGED <<backOut, backWire>> /\ ~ completed
             \/ \E lits \in Shorter(Lits(c)) :
                  /\ backOut' = To!Pushed(TestedOf(backOut, completed), WithPos(lits, pos))
                  /\ backWire' = IF completed THEN backWire \o SentOf(backOut, rphase) ELSE backWire
    <3>1. \A b \in BOOLEAN : [q \in 0 .. Len(litPool) - 1 |->
                                IF q = pos THEN "backOut"
                                ELSE IF b /\ loc[q] = "backOut" THEN "backWire" ELSE loc[q]]
                             \in [0 .. Len(litPool) - 1 -> Places]
      BY DEF Places
    <3>2. CASE UNCHANGED <<backOut, backWire>>
      BY <3>1, <3>2
    <3>3. CASE \E lits \in Shorter(Lits(c)), b \in BOOLEAN :
                 /\ backOut' = To!Pushed(TestedOf(backOut, b), WithPos(lits, pos))
                 /\ backWire' = IF b THEN backWire \o SentOf(backOut, rphase) ELSE backWire
      BY <3>1, <3>3
    <3> QED
      BY <1>4, <3>2, <3>3
  <2> DEFINE put == Share(litPool, loc2, "backOut")
             under == Share(litPool, loc2, "backWire")
  <2>5. /\ \A q \in 0 .. Len(litPool) - 1 : q \in DOMAIN loc2
        /\ \A q \in 0 .. Len(litPool) - 1 : q # pos /\ loc[q] # "backOut" => loc2[q] = loc[q]
        /\ \A q \in 0 .. Len(litPool) - 1 : q # pos /\ loc[q] = "backOut" => loc2[q] = IF completed THEN "backWire" ELSE "backOut"
        /\ loc2[pos] = "backOut" /\ pos \in 0 .. Len(litPool) - 1 /\ loc[pos] = "toIn"
    BY <2>3, <2>4 DEF Where
  <2>6. \A x : x # "toIn" /\ x # "backOut" => Within(Share(litPool, loc, x), Share(litPool, loc2, x))
    <3> SUFFICES ASSUME NEW x, x # "toIn", x # "backOut" PROVE Within(Share(litPool, loc, x), Share(litPool, loc2, x))
      OBVIOUS
    <3>1. \A q \in Where(loc, x) : q \in DOMAIN loc2 /\ loc2[q] = x
      BY <2>5 DEF Where
    <3> QED
      BY <3>1, ShareWithin
  <2>7. InHolds(toIn', Share(litPool, loc2, "toIn"))
    <3>1. \A q \in Where(loc, "toIn") : q \in DOMAIN own \ {pos} => q \in DOMAIN loc2 /\ loc2[q] = "toIn"
      BY <2>5 DEF Where
    <3>2. Within(Part(Share(litPool, loc, "toIn"), DOMAIN own \ {pos}), Share(litPool, loc2, "toIn"))
      BY <3>1, SharesWithin
    <3> QED
      BY <3>2, <2>1, PlacesMore DEF own
  <2>8. /\ DOMAIN put = Where(loc2, "backOut")
        /\ \A q \in DOMAIN put : put[q] = ToSet(litPool[q + 1])
    BY ShareFacts
  <2>9. Within(sent, under)
    BY <2>6 DEF sent, under
  <2>10. /\ completed => Within(kept, under)
         /\ ~ completed => Within(kept, put)
    <3>1. \A q \in Where(loc, "backOut") : q \in DOMAIN loc2 /\ loc2[q] = IF completed THEN "backWire" ELSE "backOut"
      BY <2>3, <2>5 DEF Where
    <3>2. completed => Within(Share(litPool, loc, "backOut"), Share(litPool, loc2, "backWire"))
      BY <3>1, ShareWithin
    <3>3. ~ completed => Within(Share(litPool, loc, "backOut"), Share(litPool, loc2, "backOut"))
      BY <3>1, ShareWithin
    <3> QED
      BY <3>2, <3>3 DEF kept
  <2>11. pos \in DOMAIN put /\ put[pos] = own[pos]
    BY <2>3, <2>5, <2>8 DEF Where
  <2> HIDE DEF put, under, c, pos
  <2>12. OutHolds(backOut', put) /\ WireHolds(backWire', phase, under)
    <3>1. CASE UNCHANGED <<backOut, backWire>> /\ ~ completed
      BY <3>1, <2>2, <2>9, <2>10, PlacesMore, WireMore
    <3>2. ASSUME NEW lits \in Shorter(Lits(c)),
                 backOut' = To!Pushed(TestedOf(backOut, completed), WithPos(lits, pos)),
                 backWire' = IF completed THEN backWire \o SentOf(backOut, rphase) ELSE backWire
          PROVE  OutHolds(backOut', put) /\ WireHolds(backWire', phase, under)
      <4> DEFINE x == WithPos(lits, pos)
                 o == TestedOf(backOut, completed)
      <4>1. /\ x \in Clauses /\ litPoolPosOf(x) = pos
            /\ \A k \in 1 .. Len(x) - 2 : x[k] \in own[pos]
        BY <1>3, <2>1, ShorterHolds DEF pos
      <4>2. OutOK(o)
        BY <1>0, TestedFacts
      <4> HIDE DEF x, o
      <4>3. CASE completed
        <5>1. OutHolds(o, Part(kept, {}))
          BY <1>0, <4>3, TestedHolds DEF o
        <5>2. pos \notin DOMAIN Part(kept, {})
          BY DEF Part
        <5>3. OutHolds(To!Pushed(o, x), With(Part(kept, {}), pos, own[pos]))
          BY <4>1, <4>2, <5>1, <5>2, OutPushed
        <5>4. Within(With(Part(kept, {}), pos, own[pos]), put)
          BY <2>11 DEF Within, With, Part
        <5>5. WireHolds(backWire \o SentOf(backOut, rphase), phase, under)
          BY <1>0, <2>2, <2>3, <2>9, <2>10, <4>3, SentHolds
        <5> QED
          BY <3>2, <4>3, <5>3, <5>4, <5>5, PlacesMore DEF x, o
      <4>4. CASE ~ completed
        <5>1. OutHolds(o, kept)
          BY <2>2, <4>4 DEF o, TestedOf
        <5>2. OutHolds(To!Pushed(o, x), With(kept, pos, own[pos]))
          BY <4>1, <4>2, <5>1, <2>3, OutPushed
        <5>3. Within(With(kept, pos, own[pos]), put)
          BY <2>10, <2>11, <4>4 DEF Within, With
        <5> QED
          BY <3>2, <4>4, <5>2, <5>3, <2>2, <2>9, PlacesMore, WireMore DEF x, o
      <4> QED
        BY <4>3, <4>4
    <3> QED
      BY <2>4, <3>1, <3>2
  <2>13. /\ WorkHolds(work, Share(litPool, loc2, "work")) /\ OutHolds(toOut, Share(litPool, loc2, "toOut"))
         /\ WireHolds(toWire, phase, Share(litPool, loc2, "toWire"))
         /\ InHolds(backIn, Share(litPool, loc2, "backIn"))
    BY <1>5, <2>6, PlacesMore, WireMore DEF PlacesHold
  <2>14. PlacesHold(loc2)'
    BY <1>2, <1>3, <2>7, <2>12, <2>13 DEF PlacesHold, put, under
  <2> QED
    BY <1>2, <1>6, <2>14 DEF PlacesInvariant, OnePlaceEach
<1> QED
  BY <1>7, <1>8

LEMMA PlacesAddClause ==
  ASSUME RingsInvariant, PlacesInvariant, AddClause
  PROVE  PlacesInvariant'
<1>0. /\ phase \in Int /\ phase >= 0 /\ phase < Len(plan) /\ Len(plan) \in Nat /\ plan \in Plans
      /\ toWire \in Wires /\ backWire \in Wires /\ InOK(backIn) /\ OutOK(toOut)
      /\ litPool \in Seq(Literals) /\ work \in Seq(Clauses) /\ PhasesOK
  BY StrengtheningAssumption
     DEF RingsInvariant, WorkerOK, BuffersOK, PlacesInvariant, PhasesOK, AddClause
<1>1. Back!ClauseRead = << >> /\ Back!GetClause(phase)
  BY DEF AddClause
<1>2. UNCHANGED <<phase, orders, rpc, rphase, backOut>>
  BY DEF AddClause, reducerVars
<1>3. Fewer(backWire, backWire') /\ ~ UnreadOf(backIn)
  BY <1>0, <1>1, BackFewer, BackRead
<1>4. PICK n \in plan[phase + 1].lengths, completed \in BOOLEAN :
        PushToReducer(completed, LitsOf(phase, Len(litPool), n))
  BY DEF AddClause
<1> DEFINE L == Len(litPool)
           lits == LitsOf(phase, L, n)
           c == WithPos(lits, L)
           queued == Inserted(work, c)
           d == Drained(queued, TestedOf(toOut, completed))
<1>5. n \in Nat \ {0}
  <2>1. phase + 1 \in 1 .. Len(plan)
    BY <1>0
  <2>2. plan \in Seq([answers : Nat, lengths : SUBSET (Nat \ {0})])
    BY <1>0, StrengtheningAssumption
  <2>3. plan[phase + 1] \in [answers : Nat, lengths : SUBSET (Nat \ {0})]
    BY <2>1, <2>2, ElementOfSeq
  <2> QED
    BY <2>3, <1>4
<1>6. /\ litPool' = Append(litPool, lits)
      /\ work' = IF completed THEN d.work ELSE queued
      /\ toOut' = IF completed THEN d.out ELSE toOut
      /\ toWire' = IF completed THEN toWire \o SentOf(toOut, phase) ELSE toWire
      /\ toIn' = toIn
  BY <1>4, ToSide DEF PushToReducer, To!Push
<1>7. L \in Nat /\ lits \in Literals /\ lits # << >>
  <2>1. L \in Nat
    BY <1>0
  <2> QED
    <3>1. lits \in Seq(Int \ {0}) /\ lits # << >>
      <4> HIDE DEF L
      <4>1. phase \in Int /\ phase >= -1
        BY <1>0
      <4> QED
        BY <4>1, <2>1, <1>5, LitsOfFacts
    <3> QED
      BY <2>1, <3>1 DEF Literals
<1> HIDE DEF lits
<1>8. c \in Clauses /\ litPoolPosOf(c) = L /\ \A k \in 1 .. Len(c) - 2 : c[k] \in ToSet(lits)
  <2>1. c \in Clauses /\ Lits(c) = lits /\ litPoolPosOf(c) = L
    BY <1>7, WithPosFacts DEF Literals
  <2>2. Len(lits) = Len(c) - 2 /\ \A k \in 1 .. Len(c) - 2 : lits[k] = c[k]
    BY <2>1, ClauseFacts
  <2> HIDE DEF c
  <2>3. \A k \in 1 .. Len(lits) : lits[k] \in ToSet(lits)
    BY <1>7 DEF ToSet, Literals
  <2> QED
    BY <2>1, <2>2, <2>3
<1> HIDE DEF c
<1>9. PICK loc \in [0 .. L - 1 -> Places] : PlacesHold(loc)
  BY DEF PlacesInvariant, OnePlaceEach, AddClause
<1> DEFINE back0 == Share(litPool, loc, "backWire")
           work0 == Share(litPool, loc, "work")
           more == With(work0, L, ToSet(lits))
<1>10. PICK A \in SUBSET DOMAIN back0 :
         InHolds(backIn', Part(back0, A)) /\ WireHolds(backWire', phase, Part(back0, DOMAIN back0 \ A))
  BY <1>0, <1>1, <1>3, <1>9, BackTakenHolds DEF PlacesHold
<1>11. /\ DOMAIN back0 = Where(loc, "backWire")
       /\ DOMAIN work0 = Where(loc, "work") /\ \A q \in Where(loc, "work") : work0[q] = ToSet(litPool[q + 1])
       /\ \A x : Where(loc, x) \subseteq 0 .. L - 1
  BY ShareFacts
<1> HIDE DEF back0, work0
<1>12. WorkHolds(queued, more) /\ queued \in Seq(Clauses)
  <2>1. WorkHolds(work, work0)
    BY <1>9 DEF PlacesHold, work0
  <2>2. L \notin DOMAIN work0
    BY <1>7, <1>11
  <2> QED
    BY <1>0, <1>8, <2>1, <2>2, InsertedHolds, InsertedFacts
<1>13. DOMAIN more = {L} \cup DOMAIN work0 /\ more[L] = ToSet(lits) /\ \A q \in DOMAIN work0 : q # L => more[q] = work0[q]
  BY DEF With
<1> HIDE DEF queued, more
<1>14. PICK B \in SUBSET DOMAIN more :
         IF completed THEN OutHolds(toOut', Part(more, B)) /\ WorkHolds(work', Part(more, DOMAIN more \ B))
         ELSE B = {} /\ WorkHolds(work', more)
  <2>1. CASE completed
    <3>1. OutOK(TestedOf(toOut, completed))
      BY <1>0, TestedFacts
    <3>2. OutHolds(TestedOf(toOut, completed), Part(more, {}))
      BY <1>0, <2>1, TestedHolds
    <3>3. \E B \in SUBSET DOMAIN more : OutHolds(d.out, Part(more, B)) /\ WorkHolds(d.work, Part(more, DOMAIN more \ B))
      BY <1>12, <3>1, <3>2, DrainedHolds
    <3> QED
      BY <2>1, <3>3, <1>6
  <2>2. CASE ~ completed
    <3>1. {} \in SUBSET DOMAIN more
      OBVIOUS
    <3> QED
      BY <2>2, <3>1, <1>6, <1>12
  <2> QED
    BY <2>1, <2>2
<1> HIDE DEF d
<1>15. /\ Len(litPool') = L + 1 /\ litPool'[L + 1] = lits
       /\ \A q \in 0 .. L - 1 : litPool'[q + 1] = litPool[q + 1]
  <2>1. \A q \in 0 .. L - 1 : q + 1 \in 1 .. L
    BY <1>7
  <2> QED
    BY <2>1, <1>0, <1>6
<1> DEFINE to2(q) == IF q \in B THEN "toOut" ELSE IF q = L THEN "work" ELSE IF q \in A THEN "backIn"
                     ELSE IF completed /\ loc[q] = "toOut" THEN "toWire" ELSE loc[q]
<1>16. PICK loc2 \in [0 .. Len(litPool') - 1 -> Places] : loc2 = [q \in 0 .. L |-> to2(q)]
  <2>1. 0 .. Len(litPool') - 1 = 0 .. L /\ \A q \in 0 .. L : q # L => q \in 0 .. L - 1
    BY <1>7, <1>15
  <2>2. \A q \in 0 .. L : to2(q) \in Places
    BY <2>1 DEF Places
  <2> QED
    BY <2>1, <2>2
<1> HIDE DEF L
<1>17. /\ DOMAIN loc2 = 0 .. L /\ \A q \in 0 .. L - 1 : q \in 0 .. L /\ q # L
       /\ L \in 0 .. L
       /\ \A q \in A : q \in 0 .. L - 1 /\ loc[q] = "backWire"
       /\ \A q \in B : q = L \/ (q \in 0 .. L - 1 /\ loc[q] = "work")
       /\ \A q \in 0 .. L : loc2[q] = to2(q)
  <2>1. L \in Nat
    BY <1>7
  <2>2. DOMAIN loc2 = 0 .. L /\ \A q \in 0 .. L : loc2[q] = to2(q)
    BY <1>16
  <2>3. \A q \in A : q \in 0 .. L - 1 /\ loc[q] = "backWire"
    BY <1>10, <1>11 DEF Where
  <2>4. \A q \in B : q = L \/ (q \in 0 .. L - 1 /\ loc[q] = "work")
    BY <1>11, <1>13, <1>14 DEF Where
  <2>5. \A q \in 0 .. L - 1 : q \in 0 .. L /\ q # L
    BY <2>1
  <2> QED
    BY <2>1, <2>2, <2>3, <2>4, <2>5
<1>18. ASSUME NEW x \in Places, x # "work", x # "backWire", completed => x # "toOut"
       PROVE  Within(Share(litPool, loc, x), Share(litPool', loc2, x))
  <2>1. \A q \in Where(loc, x) : q \in 0 .. L - 1 /\ loc[q] = x
    BY <1>11 DEF Where
  <2>2. \A q \in Where(loc, x) : q \in DOMAIN loc2 /\ loc2[q] = x /\ litPool'[q + 1] = litPool[q + 1]
    BY <2>1, <1>15, <1>17, <1>18
  <2>3. \A q \in Where(loc, x) : q \in DOMAIN loc2 /\ loc2[q] = x /\ ToSet(litPool[q + 1]) \subseteq ToSet(litPool'[q + 1])
    BY <2>2
  <2> QED
    BY <2>3, ShareWithin DEF L
<1>19. WorkHolds(work', Share(litPool', loc2, "work"))
  <2> DEFINE s == Share(litPool', loc2, "work")
  <2>1. DOMAIN s = Where(loc2, "work") /\ \A q \in Where(loc2, "work") : s[q] = ToSet(litPool'[q + 1])
    BY ShareFacts
  <2> HIDE DEF s
  <2>2. \A q \in DOMAIN more : q \notin B => loc2[q] = "work" /\ q \in DOMAIN loc2 /\ more[q] = ToSet(litPool'[q + 1])
    <3> SUFFICES ASSUME NEW q \in DOMAIN more, q \notin B
                 PROVE  loc2[q] = "work" /\ q \in DOMAIN loc2 /\ more[q] = ToSet(litPool'[q + 1])
      OBVIOUS
    <3>1. CASE q = L
      BY <3>1, <1>13, <1>15, <1>17
    <3>2. CASE q # L
      <4>1. q \in 0 .. L - 1 /\ loc[q] = "work" /\ q \notin A /\ more[q] = ToSet(litPool[q + 1])
        BY <3>2, <1>11, <1>13, <1>17 DEF Where
      <4> QED
        BY <4>1, <3>2, <1>15, <1>17
    <3> QED
      BY <3>1, <3>2
  <2>3. Within(Part(more, DOMAIN more \ B), s)
    BY <2>1, <2>2 DEF Within, Part, Where
  <2>4. B = {} => Within(more, s)
    BY <2>1, <2>2 DEF Within, Where
  <2> QED
    BY <2>3, <2>4, <1>14, PlacesMore DEF s
<1>20. OutHolds(toOut', Share(litPool', loc2, "toOut"))
  <2>1. CASE completed
    <3> DEFINE s == Share(litPool', loc2, "toOut")
    <3>1. DOMAIN s = Where(loc2, "toOut") /\ \A q \in Where(loc2, "toOut") : s[q] = ToSet(litPool'[q + 1])
      BY ShareFacts
    <3> HIDE DEF s
    <3>2. \A q \in B : loc2[q] = "toOut" /\ q \in DOMAIN loc2 /\ more[q] = ToSet(litPool'[q + 1])
      <4> SUFFICES ASSUME NEW q \in B
                   PROVE  loc2[q] = "toOut" /\ q \in DOMAIN loc2 /\ more[q] = ToSet(litPool'[q + 1])
        OBVIOUS
      <4>1. CASE q = L
        BY <4>1, <1>13, <1>15, <1>17
      <4>2. CASE q # L
        <5>1. q \in 0 .. L - 1 /\ q \in Where(loc, "work")
          BY <4>2, <1>17 DEF Where
        <5> QED
          BY <5>1, <4>2, <1>11, <1>13, <1>15, <1>17
      <4> QED
        BY <4>1, <4>2
    <3>3. Within(Part(more, B), s)
      BY <3>1, <3>2 DEF Within, Part, Where
    <3> QED
      BY <3>3, <2>1, <1>14, PlacesMore DEF s
  <2>2. CASE ~ completed
    <3>1. OutHolds(toOut, Share(litPool, loc, "toOut"))
      BY <1>9 DEF PlacesHold
    <3>2. Within(Share(litPool, loc, "toOut"), Share(litPool', loc2, "toOut"))
      BY <1>18, <2>2 DEF Places
    <3> QED
      BY <3>1, <3>2, <2>2, <1>6, PlacesMore
  <2> QED
    BY <2>1, <2>2
<1>21. WireHolds(toWire', phase, Share(litPool', loc2, "toWire"))
  <2> DEFINE s == Share(litPool', loc2, "toWire")
             s1 == Share(litPool, loc, "toWire")
             s2 == Share(litPool, loc, "toOut")
  <2>1. WireHolds(toWire, phase, s1) /\ OutHolds(toOut, s2)
    BY <1>9 DEF PlacesHold
  <2>2. Within(s1, s)
    BY <1>18 DEF Places
  <2>3. DOMAIN s1 \cap DOMAIN s2 = {}
    <3>1. DOMAIN s1 = Where(loc, "toWire") /\ DOMAIN s2 = Where(loc, "toOut")
      BY ShareFacts DEF L
    <3> QED
      BY <3>1 DEF Where
  <2>4. CASE completed
    <3>1. \A q \in Where(loc, "toOut") : q \in 0 .. L - 1 /\ loc[q] = "toOut"
      BY <1>11 DEF Where
    <3>2. \A q \in Where(loc, "toOut") : q \in DOMAIN loc2 /\ loc2[q] = "toWire" /\ litPool'[q + 1] = litPool[q + 1]
      BY <3>1, <2>4, <1>15, <1>17
    <3>3. \A q \in Where(loc, "toOut") : q \in DOMAIN loc2 /\ loc2[q] = "toWire" /\ ToSet(litPool[q + 1]) \subseteq ToSet(litPool'[q + 1])
      BY <3>2
    <3>4. Within(s2, s)
      BY <3>3, ShareWithin DEF L
    <3> HIDE DEF s, s1, s2
    <3>5. WireHolds(toWire \o SentOf(toOut, phase), phase, s)
      BY <1>0, <2>1, <2>2, <2>3, <3>4, SentHolds
    <3> QED
      BY <3>5, <2>4, <1>6 DEF s
  <2>5. CASE ~ completed
    <3> HIDE DEF s, s1, s2
    <3>1. WireHolds(toWire, phase, s)
      BY <2>1, <2>2, WireMore
    <3> QED
      BY <3>1, <2>5, <1>6 DEF s
  <2> QED
    BY <2>4, <2>5
<1>22. WireHolds(backWire', phase, Share(litPool', loc2, "backWire"))
  <2>1. \A q \in Where(loc, "backWire") : q \in 0 .. L - 1 /\ loc[q] = "backWire"
    BY <1>11 DEF Where
  <2>2. \A q \in Where(loc, "backWire") : q \in DOMAIN back0 \ A =>
          q \in DOMAIN loc2 /\ loc2[q] = "backWire" /\ litPool'[q + 1] = litPool[q + 1]
    BY <2>1, <1>15, <1>17
  <2>3. \A q \in Where(loc, "backWire") : q \in DOMAIN back0 \ A =>
          q \in DOMAIN loc2 /\ loc2[q] = "backWire" /\ ToSet(litPool[q + 1]) \subseteq ToSet(litPool'[q + 1])
    BY <2>2
  <2>4. Within(Part(Share(litPool, loc, "backWire"), DOMAIN back0 \ A), Share(litPool', loc2, "backWire"))
    BY <2>3, SharesWithin DEF L
  <2> QED
    BY <2>4, <1>10, WireMore DEF back0
<1>23. InHolds(backIn', Share(litPool', loc2, "backIn"))
  <2>1. \A q \in Where(loc, "backWire") : q \in 0 .. L - 1 /\ loc[q] = "backWire"
    BY <1>11 DEF Where
  <2>2. \A q \in Where(loc, "backWire") : q \in A =>
          q \in DOMAIN loc2 /\ loc2[q] = "backIn" /\ litPool'[q + 1] = litPool[q + 1]
    BY <2>1, <1>15, <1>17
  <2>3. \A q \in Where(loc, "backWire") : q \in A =>
          q \in DOMAIN loc2 /\ loc2[q] = "backIn" /\ ToSet(litPool[q + 1]) \subseteq ToSet(litPool'[q + 1])
    BY <2>2
  <2>4. Within(Part(Share(litPool, loc, "backWire"), A), Share(litPool', loc2, "backIn"))
    BY <2>3, SharesWithin DEF L
  <2> QED
    BY <2>4, <1>10, PlacesMore DEF back0
<1>24. rphase = phase => /\ InHolds(toIn, Share(litPool', loc2, "toIn"))
                         /\ OutHolds(backOut, Share(litPool', loc2, "backOut"))
  <2>1. Within(Share(litPool, loc, "toIn"), Share(litPool', loc2, "toIn"))
    BY <1>18 DEF Places
  <2>2. Within(Share(litPool, loc, "backOut"), Share(litPool', loc2, "backOut"))
    BY <1>18 DEF Places
  <2> QED
    BY <2>1, <2>2, <1>9, PlacesMore DEF PlacesHold
<1>25. PlacesHold(loc2)'
  BY <1>2, <1>6, <1>19, <1>20, <1>21, <1>22, <1>23, <1>24 DEF PlacesHold
<1>26. PhasesOK'
  <2>1. UpTo(toWire, phase)
    BY <1>0 DEF PhasesOK
  <2>2. UpTo(toWire \o SentOf(toOut, phase), phase)
    BY <1>0, <2>1, SentUpTo
  <2>3. UpTo(toWire', phase)
    BY <2>1, <2>2, <1>6
  <2>4. UpTo(backWire', rphase)
    BY <1>0, <1>3, FewerHolds DEF PhasesOK
  <2> QED
    BY <1>0, <1>2, <1>6, <2>3, <2>4 DEF PhasesOK
<1> QED
  BY <1>25, <1>26 DEF PlacesInvariant, OnePlaceEach

LEMMA PlacesNext == RingsInvariant /\ PlacesInvariant /\ [Next]_vars => PlacesInvariant'
<1> SUFFICES ASSUME RingsInvariant, PlacesInvariant, [Next]_vars PROVE PlacesInvariant'
  OBVIOUS
<1>1. CASE wpc = "done"
  <2>1. wpc' = "done"
    BY <1>1 DEF Next, WorkerStep, ReducerStep, Rest, Abort, NewMessage, Solved, GetFromReducer, AddClause,
                EndWorker, StartReducer, Reduce, AwaitClause, StopReducer, workerVars, vars
  <2> QED
    BY <2>1 DEF PlacesInvariant
<1>2. CASE wpc # "done"
  <2>1. CASE EndWorker
    BY <2>1 DEF EndWorker, PlacesInvariant
  <2>2. CASE Solved \/ Abort \/ UNCHANGED vars
    <3>1. UNCHANGED <<phase, litPool, work, orders, rpc, rphase, toOut, toWire, toIn, backOut, backWire, backIn>>
      BY <2>2 DEF Solved, Abort, vars, workerVars, reducerVars, to, back
    <3>2. PhasesOK'
      BY <1>2, <3>1 DEF PlacesInvariant, PhasesOK
    <3>3. PICK loc \in [0 .. Len(litPool) - 1 -> Places] : PlacesHold(loc)
      BY <1>2 DEF PlacesInvariant, OnePlaceEach
    <3>4. PlacesHold(loc)'
      BY <3>1, <3>3 DEF PlacesHold
    <3> QED
      BY <3>1, <3>2, <3>3, <3>4 DEF PlacesInvariant, OnePlaceEach
  <2> QED
    BY <1>2, <2>1, <2>2, PlacesNewMessage, PlacesGetFromReducer, PlacesAddClause, PlacesStartReducer,
       PlacesReduce, PlacesAwaitClause, PlacesStopReducer
       DEF Next, WorkerStep, ReducerStep, Rest
<1> QED
  BY <1>1, <1>2

\* Each clause of the present solver is in one place at most, on its way to
\* the strengthener or back, and keeps to its own literals.
THEOREM ClausesKeepTheirPlace == Spec => []PlacesInvariant
BY PlacesInit, PlacesNext, RingsHoldWholeClauses, PTL DEF Spec

\* What comes back is used on the clause it was made from: the assertion of
\* SatSolver::add_arbitrary_clause, and no answer of an earlier phase.
THEOREM ShorteningsAreOwn == Spec => []ShortensOwnClause
<1>1. RingsInvariant /\ PlacesInvariant => ShortensOwnClause
  <2> SUFFICES ASSUME RingsInvariant, PlacesInvariant, wpc = "getting", Back!ClauseRead # << >>
               PROVE  LET c == Back!ClauseRead
                      IN  /\ litPoolOf(c) = 0
                          /\ litPoolPosOf(c) + 1 \in DOMAIN litPool
                          /\ ToSet(Lits(c)) \subseteq ToSet(litPool[litPoolPosOf(c) + 1])
    BY DEF ShortensOwnClause
  <2> DEFINE c == ClauseReadOf(backIn)
             pos == litPoolPosOf(c)
  <2>1. InOK(backIn) /\ Back!ClauseRead = c /\ UnreadOf(backIn) /\ litPool \in Seq(Literals)
    BY BackSide DEF RingsInvariant, WorkerOK, BuffersOK, ClauseReadOf
  <2>2. c \in Clauses
    BY <2>1, ReadFacts
  <2>3. PICK loc \in [0 .. Len(litPool) - 1 -> Places] : PlacesHold(loc)
    BY DEF PlacesInvariant, OnePlaceEach
  <2> DEFINE own == Share(litPool, loc, "backIn")
  <2>4. ClauseHolds(c, own)
    BY <2>1, <2>3, ReadHolds DEF PlacesHold
  <2>5. pos \in Where(loc, "backIn") /\ own[pos] = ToSet(litPool[pos + 1]) /\ pos \in 0 .. Len(litPool) - 1
    BY <2>4, ShareFacts DEF ClauseHolds
  <2> HIDE DEF c, own
  <2>6. /\ litPoolOf(c) = 0 /\ Lits(c) \in Seq(Int \ {0}) /\ Len(Lits(c)) = Len(c) - 2
        /\ \A k \in 1 .. Len(c) - 2 : Lits(c)[k] = c[k]
    BY <2>2, ClauseFacts
  <2>7. ToSet(Lits(c)) \subseteq own[pos]
    BY <2>4, <2>6 DEF ClauseHolds, ToSet
  <2>8. pos + 1 \in DOMAIN litPool
    BY <2>1, <2>5
  <2> QED
    BY <2>1, <2>5, <2>6, <2>7, <2>8
<1> QED
  BY <1>1, RingsHoldWholeClauses, ClausesKeepTheirPlace, PTL
=============================================================================
