--------------------------- MODULE CdclSearchProofs ---------------------------
(***************************************************************************)
(* The worker's own solver, for any number of variables and any problems:  *)
(* what it learns follows, its answers are disjoint and stand for models,  *)
(* when it stops they cover all of them, and a search that is not          *)
(* interrupted loses no variable of a problem without two-literal clauses. *)
(***************************************************************************)
EXTENDS CdclSearch, SequenceTheorems, FiniteSetTheorems, WellFoundedInduction, TLAPS

-----------------------------------------------------------------------------
(* Induction and folds.                                                    *)

\* A set of natural numbers has a least element.
LEMMA LeastNatural ==
  ASSUME NEW S \in SUBSET Nat, S # {}
  PROVE  \E k \in S : \A j \in S : k <= j
<1> DEFINE R == OpToRel(<, Nat)
<1>1. IsWellFoundedOn(R, Nat)
  BY NatLessThanWellFounded
<1>2. \A j, k \in Nat : j < k => <<j, k>> \in R
  BY DEF OpToRel
<1> HIDE DEF R
<1>3. PICK k \in S : \A j \in S : ~ (<<j, k>> \in R)
  BY <1>1, WFMin
<1>4. ASSUME NEW j \in S PROVE k <= j
  <2>1. j < k => <<j, k>> \in R
    BY <1>2
  <2> QED
    BY <1>3, <2>1
<1> QED
  BY <1>4

\* Induction up to a number, for a set in place of a predicate.
LEMMA InductionUpTo ==
  ASSUME NEW n \in Nat, NEW P, 0 \in P,
         \A i \in 0 .. n - 1 : i \in P => i + 1 \in P
  PROVE  \A i \in 0 .. n : i \in P
<1> DEFINE Not == {i \in 0 .. n : i \notin P}
<1> SUFFICES ASSUME Not # {} PROVE FALSE
  OBVIOUS
<1>1. Not \in SUBSET Nat
  OBVIOUS
<1> HIDE DEF Not
<1>2. PICK k \in Not : \A j \in Not : k <= j
  BY <1>1, LeastNatural
<1>3. k \in 0 .. n /\ k \notin P /\ k # 0
  BY <1>2 DEF Not
<1>4. k - 1 \in 0 .. n - 1 /\ k - 1 \notin Not
  BY <1>2, <1>3
<1>5. k - 1 \in P
  BY <1>4, <1>3 DEF Not
<1>6. k - 1 + 1 = k
  BY <1>3
<1> QED
  BY <1>3, <1>4, <1>5, <1>6

\* A set of numbers up to n has a greatest.
LEMMA GreatestIn ==
  ASSUME NEW n \in Nat, NEW u \in SUBSET (0 .. n), u # {}
  PROVE  Max(u) \in u /\ \A y \in u : y <= Max(u)
<1> DEFINE D == {n - x : x \in u}
<1>0. \A x \in u : x \in Int /\ n - x \in Nat
  OBVIOUS
<1>1. D \in SUBSET Nat /\ D # {}
  BY <1>0
<1>2. PICK k \in D : \A j \in D : k <= j
  BY <1>1, LeastNatural
<1>3. PICK x \in u : k = n - x
  BY <1>2
<1>4. ASSUME NEW y \in u PROVE x >= y
  <2>1. n - x <= n - y
    BY <1>2, <1>3
  <2> QED
    BY <2>1, <1>0
<1> QED
  BY <1>4 DEF Max

LEMMA GreatestUpTo ==
  ASSUME NEW n \in Nat
  PROVE  /\ \A k \in 0 .. n - 1 : Max(1 .. k + 1) = k + 1 /\ (1 .. k + 1) \ {k + 1} = 1 .. k
         /\ \A u \in SUBSET (1 .. n) : u # {} => Max(u) \in u /\ \A y \in u : y <= Max(u)
<1>1. ASSUME NEW u \in SUBSET (1 .. n), u # {} PROVE Max(u) \in u /\ \A y \in u : y <= Max(u)
  BY <1>1, GreatestIn, u \in SUBSET (0 .. n)
<1>2. ASSUME NEW k \in 0 .. n - 1 PROVE Max(1 .. k + 1) = k + 1 /\ (1 .. k + 1) \ {k + 1} = 1 .. k
  <2>1. Max(1 .. k + 1) \in 1 .. k + 1 /\ \A y \in 1 .. k + 1 : y <= Max(1 .. k + 1)
    <3>1. 1 .. k + 1 \in SUBSET (1 .. n) /\ 1 .. k + 1 # {}
      OBVIOUS
    <3> QED
      BY <3>1, <1>1
  <2>2. Max(1 .. k + 1) = k + 1
    BY <2>1
  <2> QED
    BY <2>2
<1> QED
  BY <1>1, <1>2

\* A function that computes a fold, and its values on the first elements.
Folds(h, T, base, n, step) ==
  /\ h \in [SUBSET (1 .. n) -> T]
  /\ \A u \in SUBSET (1 .. n) : h[u] = IF u = {} THEN base ELSE step[<<h[u \ {Max(u)}], Max(u)>>]
Computes(it, T, base, n, step) ==
  /\ it[{}] = base
  /\ \A u \in SUBSET (1 .. n) : u # {} /\ it[u \ {Max(u)}] \in T
                                   => it[u] = step[<<it[u \ {Max(u)}], Max(u)>>]
SoFar(F, it, T, base, n, step) ==
  /\ F \in [0 .. n -> T] /\ F[0] = base /\ it[1 .. n] = F[n]
  /\ \A i \in 0 .. n - 1 : F[i + 1] = step[<<F[i], i + 1>>]

\* There is a function that computes a fold.
LEMMA Folding ==
  ASSUME NEW T, NEW base \in T, NEW n \in Nat, NEW step \in [T \X (1 .. n) -> T]
  PROVE  \E h : Folds(h, T, base, n, step)
<1> DEFINE Fold(h, k) == Folds(h, T, base, k, step)
           P == {k \in 0 .. n : \E h : Fold(h, k)}
<1>1. 0 \in P
  <2> DEFINE h == [u \in SUBSET (1 .. 0) |-> base]
  <2>1. \A u \in SUBSET (1 .. 0) : u = {}
    OBVIOUS
  <2>2. Fold(h, 0)
    BY <2>1 DEF Folds
  <2> HIDE DEF h, Fold
  <2> QED
    BY <2>2
<1>2. ASSUME NEW k \in 0 .. n - 1, k \in P PROVE k + 1 \in P
  <2>1. PICK h : Fold(h, k)
    BY <1>2
  <2>h. /\ h \in [SUBSET (1 .. k) -> T]
        /\ \A u \in SUBSET (1 .. k) : h[u] = IF u = {} THEN base ELSE step[<<h[u \ {Max(u)}], Max(u)>>]
    BY <2>1 DEF Folds
  <2> DEFINE g == [u \in SUBSET (1 .. k + 1) |->
                     IF k + 1 \in u THEN step[<<h[u \ {k + 1}], k + 1>>] ELSE h[u]]
  <2>2. \A u \in SUBSET (1 .. k + 1) : u \ {k + 1} \in SUBSET (1 .. k)
    OBVIOUS
  <2>3. \A u \in SUBSET (1 .. k + 1) : k + 1 \notin u => u \in SUBSET (1 .. k)
    BY <2>2
  <2>4. g \in [SUBSET (1 .. k + 1) -> T]
    BY <2>h, <2>2, <2>3
  <2>5. ASSUME NEW u \in SUBSET (1 .. k + 1), u # {}
        PROVE  g[u] = step[<<g[u \ {Max(u)}], Max(u)>>]
    <3>1. Max(u) \in u /\ \A y \in u : y <= Max(u)
      BY <2>5, GreatestUpTo, k + 1 \in Nat
    <3>2. CASE k + 1 \in u
      <4>1. Max(u) = k + 1
        <5>1. Max(u) \in 1 .. k + 1 /\ k + 1 <= Max(u)
          BY <3>1, <3>2
        <5> QED
          BY <5>1
      <4>2. u \ {k + 1} \in SUBSET (1 .. k + 1) /\ k + 1 \notin u \ {k + 1}
        OBVIOUS
      <4>3. g[u \ {k + 1}] = h[u \ {k + 1}]
        BY <4>2
      <4> QED
        BY <3>2, <4>1, <4>3
    <3>3. CASE k + 1 \notin u
      <4>1. u \in SUBSET (1 .. k) /\ u \ {Max(u)} \in SUBSET (1 .. k + 1) /\ k + 1 \notin u \ {Max(u)}
        BY <2>3, <3>3
      <4>2. g[u] = h[u] /\ g[u \ {Max(u)}] = h[u \ {Max(u)}]
        BY <4>1, <3>3
      <4> QED
        BY <4>1, <4>2, <2>h, <2>5
    <3> QED
      BY <3>2, <3>3
  <2>6. g[{}] = base
    BY <2>h
  <2>7. Fold(g, k + 1)
    BY <2>4, <2>5, <2>6 DEF Folds
  <2> HIDE DEF g, Fold
  <2> QED
    BY <2>7
<1> HIDE DEF P
<1>3. n \in P
  BY <1>1, <1>2, InductionUpTo
<1> QED
  BY <1>3 DEF P

\* Its values on the first elements.
LEMMA FoldedSoFar ==
  ASSUME NEW T, NEW base \in T, NEW n \in Nat, NEW step \in [T \X (1 .. n) -> T],
         NEW it, Computes(it, T, base, n, step)
  PROVE  \E F : SoFar(F, it, T, base, n, step)
<1> DEFINE F == [i \in 0 .. n |-> it[1 .. i]]
           P == {i \in 0 .. n : F[i] \in T}
<1>1. F[0] = base
  <2>1. 1 .. 0 = {}
    OBVIOUS
  <2> QED
    BY <2>1 DEF Computes
<1>2. ASSUME NEW i \in 0 .. n - 1, F[i] \in T PROVE F[i + 1] = step[<<F[i], i + 1>>]
  <2>1. Max(1 .. i + 1) = i + 1 /\ (1 .. i + 1) \ {i + 1} = 1 .. i
    BY GreatestUpTo
  <2>2. 1 .. i + 1 \in SUBSET (1 .. n) /\ 1 .. i + 1 # {} /\ i \in 0 .. n /\ i + 1 \in 0 .. n
    OBVIOUS
  <2> QED
    BY <2>1, <2>2, <1>2 DEF Computes
<1> HIDE DEF F
<1>3. \A i \in 0 .. n : i \in P
  <2>1. 0 \in P
    BY <1>1
  <2>2. ASSUME NEW i \in 0 .. n - 1, i \in P PROVE i + 1 \in P
    <3>1. <<F[i], i + 1>> \in T \X (1 .. n) /\ F[i + 1] = step[<<F[i], i + 1>>]
      BY <1>2, <2>2
    <3> QED
      BY <3>1
  <2> HIDE DEF P
  <2> QED
    BY <2>1, <2>2, InductionUpTo
<1>4. F \in [0 .. n -> T]
  BY <1>3 DEF F
<1>5. it[1 .. n] = F[n]
  BY DEF F
<1> QED
  BY <1>1, <1>2, <1>3, <1>4, <1>5 DEF SoFar

-----------------------------------------------------------------------------
(* A part of a sequence.                                                   *)

OnlySoFar(F, E, s, S) ==
  /\ F \in [0 .. Len(s) -> Seq(E)] /\ F[0] = << >> /\ Only(s, S) = F[Len(s)]
  /\ \A i \in 0 .. Len(s) - 1 :
       F[i + 1] = IF s[i + 1] \in S THEN Append(F[i], s[i + 1]) ELSE F[i]

LEMMA OnlySteps ==
  ASSUME NEW E, NEW s \in Seq(E), NEW S
  PROVE  \E F : OnlySoFar(F, E, s, S)
<1> DEFINE n == Len(s)
           T == Seq(E)
           base == << >>
           step == [p \in T \X (1 .. n) |-> IF s[p[2]] \in S THEN Append(p[1], s[p[2]]) ELSE p[1]]
           Is(h) == h = [u \in SUBSET DOMAIN s |->
                           IF u = {} THEN << >>
                           ELSE IF s[Max(u)] \in S THEN Append(h[u \ {Max(u)}], s[Max(u)]) ELSE h[u \ {Max(u)}]]
           it == CHOOSE h : Is(h)
<1>1. n \in Nat /\ DOMAIN s = 1 .. n /\ (\A i \in 1 .. n : s[i] \in E) /\ base \in T
  OBVIOUS
<1>2. step \in [T \X (1 .. n) -> T]
  OBVIOUS
<1>3. \E h : Is(h)
  <2>1. PICK h : Folds(h, T, base, n, step)
    <3> HIDE DEF step, n, T, base
    <3> QED
      BY <1>1, <1>2, Folding
  <2>2. ASSUME NEW u \in SUBSET (1 .. n), u # {}
        PROVE h[u] = IF s[Max(u)] \in S THEN Append(h[u \ {Max(u)}], s[Max(u)]) ELSE h[u \ {Max(u)}]
    <3>1. <<h[u \ {Max(u)}], Max(u)>> \in Seq(E) \X (1 .. n)
      BY <2>1, <2>2, <1>1, GreatestUpTo DEF Folds
    <3> QED
      BY <2>1, <2>2, <3>1 DEF Folds
  <2>3. Is(h)
    BY <2>1, <2>2, <1>1, Zenon DEF Folds
  <2> HIDE DEF Is
  <2> QED
    BY <2>3, Zenon
<1>4. Is(it)
  BY <1>3, Zenon
<1>5. Only(s, S) = it[1 .. n]
  BY <1>1 DEF Only, FoldLeft, MapThenFoldSet
<1> HIDE DEF it
<1>6. Computes(it, T, base, n, step)
  BY <1>1, <1>4, GreatestUpTo DEF Computes
<1>8. PICK F : SoFar(F, it, T, base, n, step)
  <2> HIDE DEF step, n, T, base
  <2> QED
    BY <1>1, <1>2, <1>6, FoldedSoFar
<1>9. \A i \in 0 .. n - 1 : <<F[i], i + 1>> \in Seq(E) \X (1 .. n)
  <2> HIDE DEF step, n
  <2> QED
    BY <1>1, <1>8 DEF SoFar
<1> QED
  BY <1>5, <1>8, <1>9 DEF SoFar, OnlySoFar

\* Where the elements of such a part come from.
OnlyMap(g, k, out, s, S) ==
  /\ g \in [1 .. Len(out) -> 1 .. k]
  /\ \A i, j \in 1 .. Len(out) : i < j => g[i] < g[j]
  /\ \A i \in 1 .. Len(out) : out[i] = s[g[i]] /\ s[g[i]] \in S
  /\ \A j \in 1 .. k : s[j] \in S => \E i \in 1 .. Len(out) : g[i] = j

LEMMA OnlyMaps ==
  ASSUME NEW E, NEW s \in Seq(E), NEW S
  PROVE  Only(s, S) \in Seq(E) /\ \E g : OnlyMap(g, Len(s), Only(s, S), s, S)
<1> DEFINE n == Len(s)
<1>s. PICK F : OnlySoFar(F, E, s, S)
  BY OnlySteps
<1>1. /\ F \in [0 .. n -> Seq(E)] /\ F[0] = << >> /\ Only(s, S) = F[n]
      /\ \A i \in 0 .. n - 1 : F[i + 1] = IF s[i + 1] \in S THEN Append(F[i], s[i + 1]) ELSE F[i]
  BY <1>s DEF OnlySoFar
<1> DEFINE P == {i \in 0 .. n : \E g : OnlyMap(g, i, F[i], s, S)}
<1>0. n \in Nat /\ \A i \in 1 .. n : s[i] \in E
  OBVIOUS
<1>2. 0 \in P
  <2> DEFINE g == [i \in 1 .. 0 |-> 0]
  <2>1. OnlyMap(g, 0, << >>, s, S)
    BY DEF OnlyMap
  <2> HIDE DEF g
  <2> QED
    BY <2>1, <1>1
<1>3. ASSUME NEW i \in 0 .. n - 1, i \in P PROVE i + 1 \in P
  <2>1. PICK g : OnlyMap(g, i, F[i], s, S)
    BY <1>3
  <2>5. i \in 0 .. n /\ i + 1 \in 1 .. n
    BY <1>0
  <2>2. F[i] \in Seq(E) /\ s[i + 1] \in E /\ i \in Nat /\ Len(F[i]) \in Nat
    <3>1. F[i] \in Seq(E)
      BY <1>1, <2>5
    <3>2. s[i + 1] \in E
      BY <1>0, <2>5
    <3> QED
      BY <3>1, <3>2, <2>5
  <2>3. CASE s[i + 1] \in S
    <3> DEFINE out == Append(F[i], s[i + 1])
               h == [k \in 1 .. Len(F[i]) + 1 |-> IF k = Len(F[i]) + 1 THEN i + 1 ELSE g[k]]
    <3>1. F[i + 1] = out
      BY <1>1, <2>3
    <3>2. /\ Len(out) = Len(F[i]) + 1 /\ out[Len(F[i]) + 1] = s[i + 1]
          /\ \A k \in 1 .. Len(F[i]) : out[k] = F[i][k]
      BY <2>2, AppendProperties
    <3> HIDE DEF out
    <3>3. /\ g \in [1 .. Len(F[i]) -> 1 .. i]
          /\ \A j, k \in 1 .. Len(F[i]) : j < k => g[j] < g[k]
          /\ \A j \in 1 .. Len(F[i]) : F[i][j] = s[g[j]] /\ s[g[j]] \in S
          /\ \A j \in 1 .. i : s[j] \in S => \E k \in 1 .. Len(F[i]) : g[k] = j
      BY <2>1 DEF OnlyMap
    <3>4. h \in [1 .. Len(out) -> 1 .. i + 1]
      BY <3>2, <3>3, <2>2
    <3>5. ASSUME NEW j \in 1 .. Len(out), NEW k \in 1 .. Len(out), j < k PROVE h[j] < h[k]
      <4>0. j \in 1 .. Len(F[i]) + 1 /\ k \in 1 .. Len(F[i]) + 1 /\ j \in 1 .. Len(F[i])
        BY <3>2, <2>2, <3>5
      <4>5. g[j] \in 1 .. i
        BY <3>3, <4>0
      <4>1. j \in 1 .. Len(F[i]) /\ h[j] = g[j] /\ g[j] \in 1 .. i
        BY <2>2, <4>0, <4>5
      <4>2. CASE k = Len(F[i]) + 1
        BY <4>1, <4>2, <2>2
      <4>3. CASE k \in 1 .. Len(F[i])
        <5>1. h[k] = g[k] /\ g[j] < g[k]
          BY <4>1, <4>3, <3>3, <2>2, <3>5
        <5> QED
          BY <5>1, <4>1
      <4> QED
        BY <4>2, <4>3, <3>2, <2>2
    <3>6. \A j \in 1 .. Len(out) : out[j] = s[h[j]] /\ s[h[j]] \in S
      BY <3>2, <3>3, <2>2, <2>3
    <3>7. ASSUME NEW j \in 1 .. i + 1, s[j] \in S PROVE \E k \in 1 .. Len(out) : h[k] = j
      <4>0. Len(F[i]) + 1 \in 1 .. Len(out) /\ h[Len(F[i]) + 1] = i + 1
        BY <3>2, <2>2
      <4>1. CASE j = i + 1
        BY <4>0, <4>1, <3>2
      <4>2. CASE j \in 1 .. i
        <5>1. PICK k \in 1 .. Len(F[i]) : g[k] = j
          BY <3>3, <3>7, <4>2
        <5>2. k \in 1 .. Len(out) /\ h[k] = g[k]
          BY <3>2, <2>2
        <5> HIDE DEF h
        <5> QED
          BY <5>1, <5>2
      <4>3. j = i + 1 \/ j \in 1 .. i
        BY <2>2
      <4> HIDE DEF h
      <4> QED
        BY <4>1, <4>2, <4>3
    <3>8. OnlyMap(h, i + 1, out, s, S)
      BY <3>4, <3>5, <3>6, <3>7 DEF OnlyMap
    <3> HIDE DEF h
    <3> QED
      BY <3>1, <3>8
  <2>4. CASE s[i + 1] \notin S
    <3>1. F[i + 1] = F[i]
      BY <1>1, <2>4
    <3>2. OnlyMap(g, i + 1, F[i], s, S)
      BY <2>1, <2>2, <2>4 DEF OnlyMap
    <3> QED
      BY <3>1, <3>2
  <2> QED
    BY <2>3, <2>4
<1>4. n \in P
  <2>0. n \in Nat /\ n \in 0 .. n
    BY <1>0
  <2> HIDE DEF P, n
  <2>1. \A i \in 0 .. n : i \in P
    BY <2>0, <1>2, <1>3, InductionUpTo
  <2> QED
    BY <2>0, <2>1
<1> QED
  BY <1>0, <1>1, <1>4

\* It is a sequence of those elements that are in the set, in their order.
LEMMA OnlyFacts ==
  ASSUME NEW E, NEW s \in Seq(E), NEW S
  PROVE  /\ Only(s, S) \in Seq(E) /\ ToSet(Only(s, S)) = ToSet(s) \cap S
         /\ IsInjective(s) => IsInjective(Only(s, S))
<1> DEFINE out == Only(s, S)
<1>1. PICK g : OnlyMap(g, Len(s), out, s, S)
  BY OnlyMaps
<1>2. out \in Seq(E)
  BY OnlyMaps
<1> HIDE DEF out
<1>3. DOMAIN out = 1 .. Len(out) /\ DOMAIN s = 1 .. Len(s) /\ Len(s) \in Nat /\ Len(out) \in Nat
  BY <1>2
<1>4. ToSet(out) = ToSet(s) \cap S
  <2>0. ToSet(out) = {out[i] : i \in 1 .. Len(out)} /\ ToSet(s) = {s[j] : j \in 1 .. Len(s)}
    BY <1>3, Zenon DEF ToSet
  <2>1. ASSUME NEW x \in ToSet(out)
        PROVE  x \in ToSet(s) /\ x \in S
    <3>1. PICK i \in 1 .. Len(out) : x = out[i]
      BY <2>0, <2>1, Zenon
    <3>2. g[i] \in 1 .. Len(s) /\ x = s[g[i]] /\ s[g[i]] \in S
      BY <1>1, <3>1 DEF OnlyMap
    <3> QED
      BY <2>0, <3>2, Zenon
  <2>2. ASSUME NEW x \in ToSet(s), x \in S
        PROVE  x \in ToSet(out)
    <3>1. PICK j \in 1 .. Len(s) : x = s[j]
      BY <2>0, <2>2, Zenon
    <3>2. PICK i \in 1 .. Len(out) : g[i] = j
      BY <1>1, <2>2, <3>1 DEF OnlyMap
    <3>3. out[i] = x
      BY <1>1, <3>1, <3>2 DEF OnlyMap
    <3> QED
      BY <2>0, <3>2, <3>3, Zenon
  <2> QED
    BY <2>1, <2>2, Zenon
<1>5. ASSUME IsInjective(s), NEW i \in 1 .. Len(out), NEW j \in 1 .. Len(out), out[i] = out[j]
      PROVE  i = j
  <2>1. g[i] \in 1 .. Len(s) /\ g[j] \in 1 .. Len(s) /\ s[g[i]] = s[g[j]]
    BY <1>1, <1>5 DEF OnlyMap
  <2>2. g[i] = g[j]
    BY <2>1, <1>3, <1>5 DEF IsInjective
  <2>3. ~ (i < j) /\ ~ (j < i)
    BY <1>1, <2>1, <2>2 DEF OnlyMap
  <2> QED
    BY <2>3, <1>3
<1> QED
  BY <1>2, <1>3, <1>4, <1>5 DEF IsInjective, out

\* When they are the first ones, it is a prefix.
LEMMA OnlyPrefix ==
  ASSUME NEW E, NEW s \in Seq(E), NEW S, NEW p \in 0 .. Len(s),
         \A i \in 1 .. Len(s) : s[i] \in S <=> i <= p
  PROVE  Len(Only(s, S)) = p /\ \A i \in 1 .. p : Only(s, S)[i] = s[i]
<1> DEFINE n == Len(s)
<1>s. PICK F : OnlySoFar(F, E, s, S)
  BY OnlySteps
<1>1. /\ F \in [0 .. n -> Seq(E)] /\ F[0] = << >> /\ Only(s, S) = F[n]
      /\ \A i \in 0 .. n - 1 : F[i + 1] = IF s[i + 1] \in S THEN Append(F[i], s[i + 1]) ELSE F[i]
  BY <1>s DEF OnlySoFar
<1> DEFINE P == {i \in 0 .. n : /\ Len(F[i]) = IF i <= p THEN i ELSE p
                                /\ \A k \in 1 .. Len(F[i]) : F[i][k] = s[k]}
<1>0. n \in Nat /\ p \in Nat /\ \A i \in 1 .. n : s[i] \in E /\ (s[i] \in S <=> i <= p)
  OBVIOUS
<1>2. 0 \in P
  BY <1>0, <1>1
<1>3. ASSUME NEW i \in 0 .. n - 1, i \in P PROVE i + 1 \in P
  <2>5. i \in 0 .. n /\ i + 1 \in 1 .. n
    BY <1>0
  <2>2. F[i] \in Seq(E) /\ s[i + 1] \in E /\ i \in Nat /\ Len(F[i]) \in Nat
    <3>1. F[i] \in Seq(E)
      BY <1>1, <2>5
    <3>2. s[i + 1] \in E
      BY <1>0, <2>5
    <3> QED
      BY <3>1, <3>2, <2>5
  <2>3. CASE i + 1 <= p
    <3>1. F[i + 1] = Append(F[i], s[i + 1])
      <4>1. s[i + 1] \in S
        BY <1>0, <2>3
      <4> QED
        BY <1>1, <4>1
    <3>2. Len(F[i + 1]) = i + 1 /\ F[i + 1][i + 1] = s[i + 1] /\ \A k \in 1 .. i : F[i + 1][k] = F[i][k]
      BY <3>1, <2>2, <2>3, <1>3, <1>0, AppendProperties
    <3> QED
      BY <3>2, <1>3, <2>2, <2>3, <1>0
  <2>4. CASE ~ (i + 1 <= p)
    <3>1. F[i + 1] = F[i]
      BY <1>1, <2>4
    <3> QED
      BY <3>1, <1>3, <2>2, <2>4, <1>0
  <2> QED
    BY <2>3, <2>4
<1>4. n \in P
  <2>0. n \in Nat /\ n \in 0 .. n
    BY <1>0
  <2> HIDE DEF P, n
  <2>1. \A i \in 0 .. n : i \in P
    BY <2>0, <1>2, <1>3, InductionUpTo
  <2> QED
    BY <2>0, <2>1
<1> QED
  BY <1>0, <1>1, <1>4

-----------------------------------------------------------------------------
(* Literals, entries and orders.                                           *)

LEMMA LiteralFacts ==
  /\ vc \in Nat \ {0} /\ Literals = (-vc .. vc) \ {0} /\ Vars \subseteq Literals
  /\ \A l \in Literals : /\ l \in Int /\ l # 0 /\ NEG(l) \in Literals /\ NEG(NEG(l)) = l /\ NEG(l) # l
                         /\ VAR(l) \in Vars /\ VAR(NEG(l)) = VAR(l) /\ (VAR(l) = l \/ VAR(l) = NEG(l))
  /\ \A l, m \in Literals : VAR(l) = VAR(m) => m = l \/ m = NEG(l)
<1>1. vc \in Nat \ {0}
  BY CdclAssumption
<1>2. Literals = (-vc .. vc) \ {0}
  <2>1. ASSUME NEW l \in Literals PROVE l \in (-vc .. vc) \ {0}
    BY <1>1 DEF Literals, Vars
  <2>2. ASSUME NEW l \in (-vc .. vc) \ {0} PROVE l \in Literals
    <3>1. CASE l > 0
      BY <1>1, <3>1 DEF Literals, Vars
    <3>2. CASE l < 0
      <4>1. -l \in Vars /\ l = -(-l)
        BY <1>1, <3>2 DEF Vars
      <4> QED
        BY <4>1 DEF Literals
    <3> QED
      BY <1>1, <3>1, <3>2
  <2> QED
    BY <2>1, <2>2
<1> QED
  BY <1>1, <1>2 DEF Vars, VAR, NEG

Orders == [activity : [Literals -> Nat], varOrder : Seq(Vars), nextVar : Nat \ {0},
           front : [Literals -> Literals \cup {0}]]
Entries == {e \in [lit : Literals, dLevel : Nat, ante : Seq(Literals), binary : BOOLEAN] :
              e.binary => Len(e.ante) = 2}

LEMMA PromotedType ==
  ASSUME NEW o \in Orders, NEW l \in Literals
  PROVE  Promoted(o, l) \in Orders
<1> DEFINE up == [o EXCEPT !.activity[l] = @ + 1]
           v == VAR(l)
           n == Len(o.varOrder)
           lower == {i \in DOMAIN o.varOrder : SCORE(up, o.varOrder[i]) < SCORE(up, v)}
           p == CHOOSE i \in DOMAIN o.varOrder : o.varOrder[i] = v
           q == Min(lower)
<1>1. /\ o.activity \in [Literals -> Nat] /\ o.varOrder \in Seq(Vars) /\ o.nextVar \in Nat \ {0}
      /\ o.front \in [Literals -> Literals \cup {0}]
  BY DEF Orders
<1>2. [o.activity EXCEPT ![l] = @ + 1] \in [Literals -> Nat]
  BY <1>1
<1>3. up \in Orders /\ up.varOrder = o.varOrder
  BY <1>2 DEF Orders
<1>4. n \in Nat /\ DOMAIN o.varOrder = 1 .. n /\ \A i \in 1 .. n : o.varOrder[i] \in Vars
  BY <1>1
<1>5. ASSUME v \in ToSet(o.varOrder), lower # {}
      PROVE  [up EXCEPT !.varOrder[p] = o.varOrder[q], !.varOrder[q] = v] \in Orders
  <2>1. p \in 1 .. n
    BY <1>4, <1>5 DEF ToSet
  <2>2. lower \in SUBSET Nat /\ lower \subseteq 1 .. n
    BY <1>4
  <2> HIDE DEF lower, p
  <2>3. PICK k \in lower : \A j \in lower : k <= j
    BY <2>2, <1>5, LeastNatural
  <2>4. q \in lower
    BY <2>3 DEF Min
  <2>5. q \in 1 .. n
    BY <2>2, <2>4
  <2>6. v \in Vars
    BY LiteralFacts
  <2> DEFINE one == [o.varOrder EXCEPT ![p] = o.varOrder[q]]
             two == [one EXCEPT ![q] = v]
  <2>7. one \in Seq(Vars) /\ Len(one) = n
    BY <1>1, <1>4, <2>1, <2>5, ExceptSeq
  <2>8. two \in Seq(Vars)
    BY <2>5, <2>6, <2>7, ExceptSeq
  <2>9. [up EXCEPT !.varOrder[p] = o.varOrder[q], !.varOrder[q] = v] = [up EXCEPT !.varOrder = two]
    BY <1>3 DEF Orders
  <2> HIDE DEF two
  <2> QED
    BY <1>3, <2>8, <2>9 DEF Orders
<1> HIDE DEF p, q, lower, up, v
<1>6. Promoted(o, l) = IF v \notin ToSet(o.varOrder) \/ lower = {} \/ q > p THEN up
                       ELSE [up EXCEPT !.varOrder[p] = o.varOrder[q], !.varOrder[q] = v]
  BY DEF Promoted, p, q, lower, up, v
<1> QED
  BY <1>3, <1>5, <1>6

LEMMA FreedType ==
  ASSUME NEW o \in Orders, NEW v
  PROVE  Freed(o, v) \in Orders
<1> DEFINE p == CHOOSE i \in DOMAIN o.varOrder : o.varOrder[i] = v
<1>1. o.varOrder \in Seq(Vars) /\ o.nextVar \in Nat \ {0}
  BY DEF Orders
<1>2. v \in ToSet(o.varOrder) => p \in Nat \ {0}
  <2>1. DOMAIN o.varOrder = 1 .. Len(o.varOrder) /\ Len(o.varOrder) \in Nat
    BY <1>1
  <2> QED
    BY <2>1 DEF ToSet
<1> HIDE DEF p
<1>3. Freed(o, v) = IF v \notin ToSet(o.varOrder) THEN [o EXCEPT !.nextVar = 1]
                    ELSE [o EXCEPT !.nextVar = IF p < @ THEN p ELSE @]
  BY DEF Freed, p
<1>4. \A x \in Nat \ {0} : [o EXCEPT !.nextVar = x] \in Orders
  BY DEF Orders
<1>5. v \in ToSet(o.varOrder) => (IF p < o.nextVar THEN p ELSE o.nextVar) \in Nat \ {0}
  BY <1>1, <1>2
<1>6. 1 \in Nat \ {0}
  OBVIOUS
<1> QED
  BY <1>3, <1>4, <1>5, <1>6

\* The scores of the literals of a clause go up one after the other.
Promoting(o, c) == FoldLeft(Promoted, o, c)

\* The steps of it.
ScoresSoFar(F, o, c) ==
  /\ F \in [0 .. Len(c) -> Orders] /\ F[0] = o /\ Promoting(o, c) = F[Len(c)]
  /\ \A i \in 0 .. Len(c) - 1 : F[i + 1] = Promoted(F[i], c[i + 1])

LEMMA ScoresSteps ==
  ASSUME NEW o \in Orders, NEW c \in Seq(Literals)
  PROVE  \E F : ScoresSoFar(F, o, c)
<1> DEFINE n == Len(c)
           T == Orders
           base == o
           step == [p \in T \X (1 .. n) |-> Promoted(p[1], c[p[2]])]
           Is(h) == h = [u \in SUBSET DOMAIN c |->
                           IF u = {} THEN base ELSE Promoted(h[u \ {Max(u)}], c[Max(u)])]
           it == CHOOSE h : Is(h)
<1>1. n \in Nat /\ DOMAIN c = 1 .. n /\ (\A i \in 1 .. n : c[i] \in Literals) /\ base \in T
  OBVIOUS
<1>0. \A x \in T, e \in Literals : Promoted(x, e) \in T
  BY PromotedType
<1>2. step \in [T \X (1 .. n) -> T]
  <2>1. \A p \in T \X (1 .. n) : p[1] \in T /\ c[p[2]] \in Literals
    BY <1>1
  <2> HIDE DEF T
  <2> QED
    BY <1>0, <2>1
<1>3. \E h : Is(h)
  <2>1. PICK h : Folds(h, T, base, n, step)
    <3> HIDE DEF step, n, T, base
    <3> QED
      BY <1>1, <1>2, Folding
  <2> HIDE DEF T
  <2>2. ASSUME NEW u \in SUBSET (1 .. n), u # {}
        PROVE h[u] = Promoted(h[u \ {Max(u)}], c[Max(u)])
    <3>1. <<h[u \ {Max(u)}], Max(u)>> \in T \X (1 .. n)
      BY <2>1, <2>2, <1>1, GreatestUpTo DEF Folds
    <3> QED
      BY <2>1, <2>2, <3>1 DEF Folds
  <2>3. Is(h)
    BY <2>1, <2>2, <1>1, Zenon DEF Folds
  <2> HIDE DEF Is
  <2> QED
    BY <2>3, Zenon
<1>4. Is(it)
  BY <1>3, Zenon
<1>5. Promoting(o, c) = it[1 .. n]
  BY <1>1 DEF Promoting, FoldLeft, MapThenFoldSet
<1> HIDE DEF it, T
<1>6. Computes(it, T, base, n, step)
  BY <1>1, <1>4, GreatestUpTo DEF Computes
<1>7. PICK F : SoFar(F, it, T, base, n, step)
  <2> HIDE DEF step, n, base
  <2> QED
    BY <1>1, <1>2, <1>6, FoldedSoFar
<1>8. \A i \in 0 .. n - 1 : <<F[i], i + 1>> \in T \X (1 .. n)
  <2> HIDE DEF step, n
  <2> QED
    BY <1>1, <1>7 DEF SoFar
<1> QED
  BY <1>5, <1>7, <1>8 DEF SoFar, ScoresSoFar, T

\* What promoting the literals of a clause keeps, updating its scores keeps.
LEMMA ScoresIn ==
  ASSUME NEW S \in SUBSET Orders, NEW o \in S, NEW c \in Seq(Literals),
         \A x \in S, l \in ToSet(c) : Promoted(x, l) \in S
  PROVE  updateScores(o, c) \subseteq S
<1> DEFINE n == Cardinality(ToSet(c))
<1>1. n \in Nat /\ ToSet(c) \subseteq Literals
  <2>1. ToSet(c) \subseteq Literals
    BY DEF ToSet
  <2>2. IsFiniteSet(-vc .. vc) /\ Literals \subseteq -vc .. vc
    BY LiteralFacts, FS_Interval
  <2>3. IsFiniteSet(ToSet(c))
    BY <2>1, <2>2, FS_Subset
  <2> QED
    BY <2>1, <2>3, FS_CardinalityType
<1>2. ASSUME NEW q \in [1 .. n -> ToSet(c)] PROVE Promoting(o, q) \in S
  <2>0. q \in [1 .. n -> Literals]
    BY <1>1
  <2> HIDE DEF n
  <2>3. q \in Seq(Literals) /\ Len(q) = n
    BY <1>1, <2>0
  <2>4. PICK F : ScoresSoFar(F, o, q)
    BY <2>3, ScoresSteps
  <2>5. /\ F[0] = o /\ Promoting(o, q) = F[n]
        /\ \A i \in 0 .. n - 1 : F[i + 1] = Promoted(F[i], q[i + 1])
    BY <2>3, <2>4 DEF ScoresSoFar
  <2> DEFINE P == {i \in 0 .. n : F[i] \in S}
  <2>6. 0 \in P
    BY <1>1, <2>5
  <2>7. ASSUME NEW i \in 0 .. n - 1, i \in P PROVE i + 1 \in P
    <3>1. i + 1 \in 1 .. n /\ i + 1 \in 0 .. n
      BY <1>1
    <3>2. F[i + 1] = Promoted(F[i], q[i + 1]) /\ q[i + 1] \in ToSet(c)
      BY <2>5, <3>1
    <3> QED
      BY <2>7, <3>1, <3>2
  <2> HIDE DEF P
  <2>8. n \in P
    <3>1. \A i \in 0 .. n : i \in P
      BY <1>1, <2>6, <2>7, InductionUpTo
    <3> QED
      BY <1>1, <3>1
  <2> QED
    BY <2>5, <2>8 DEF P
<1> QED
  BY <1>2 DEF updateScores, Promoting, SetToSeqs

LEMMA ScoresType ==
  ASSUME NEW o \in Orders, NEW c \in Seq(Literals)
  PROVE  updateScores(o, c) \subseteq Orders
<1>1. \A x \in Orders, l \in ToSet(c) : Promoted(x, l) \in Orders
  BY PromotedType DEF ToSet
<1> QED
  BY <1>1, ScoresIn

LEMMA ScoredClauseType ==
  ASSUME NEW o \in Orders, NEW e \in Entries
  PROVE  ScoredClause(o, e) \in Seq(Literals)
<1>1. e.ante \in Seq(Literals) /\ (e.binary => Len(e.ante) = 2) /\ o.front \in [Literals -> Literals \cup {0}]
  BY DEF Entries, Orders
<1>2. ASSUME e.binary PROVE e.ante[2] \in Literals
  BY <1>1, <1>2
<1> QED
  BY <1>1, <1>2 DEF ScoredClause

-----------------------------------------------------------------------------
(* Trails.                                                                 *)

Distinct(t) == \A i, j \in DOMAIN t : i # j => VAR(t[i].lit) # VAR(t[j].lit)
Leveled(t, d) == \A i \in DOMAIN t : t[i].dLevel \in 1 .. d /\ \A j \in 1 .. i : t[j].dLevel <= t[i].dLevel
Reasoned(t) ==
  \A i \in DOMAIN t : t[i].ante # << >> =>
    /\ t[i].ante[1] = t[i].lit /\ IsInjective(t[i].ante)
    /\ \A k \in 2 .. Len(t[i].ante) : \E j \in 1 .. i - 1 : t[j].lit = NEG(t[i].ante[k])
Decided(t) ==
  \A i \in DOMAIN t : t[i].ante = << >> =>
    t[i].dLevel > 1 /\ \A j \in 1 .. i - 1 : t[j].dLevel < t[i].dLevel
Holds(c, m) == \E k \in DOMAIN c : c[k] \in m
Justified(t, M) ==
  \A i \in DOMAIN t, m \in M : /\ t[i].ante # << >> => Holds(t[i].ante, m)
                               /\ t[i].dLevel = 1 => t[i].lit \in m
TrailOK(t, d, M) ==
  t \in Seq(Entries) /\ Distinct(t) /\ Leveled(t, d) /\ Reasoned(t) /\ Decided(t) /\ Justified(t, M)

\* What is added to a trail.
NewEntry(t, e, M) ==
  /\ e \in Entries /\ e.dLevel \in Nat \ {0}
  /\ \A i \in DOMAIN t : VAR(t[i].lit) # VAR(e.lit) /\ t[i].dLevel <= e.dLevel
  /\ e.ante # << >> =>
       /\ e.ante[1] = e.lit /\ IsInjective(e.ante)
       /\ \A k \in 2 .. Len(e.ante) : \E j \in DOMAIN t : t[j].lit = NEG(e.ante[k])
       /\ \A m \in M : Holds(e.ante, m)
  /\ e.ante = << >> => e.dLevel > 1 /\ \A i \in DOMAIN t : t[i].dLevel < e.dLevel
  /\ e.dLevel = 1 => \A m \in M : e.lit \in m

LEMMA TrailAppend ==
  ASSUME NEW t, NEW d, NEW M, TrailOK(t, d, M), NEW e, NewEntry(t, e, M)
  PROVE  TrailOK(Append(t, e), e.dLevel, M)
<1> DEFINE n == Len(t)
           u == Append(t, e)
<1>1. t \in Seq(Entries) /\ Distinct(t) /\ Leveled(t, d) /\ Reasoned(t) /\ Decided(t) /\ Justified(t, M)
  BY DEF TrailOK
<1>2. e \in Entries /\ e.dLevel \in Nat \ {0}
  BY DEF NewEntry
<1>3. n \in Nat /\ DOMAIN t = 1 .. n /\ \A i \in 1 .. n : t[i] \in Entries /\ t[i].dLevel \in Nat
  BY <1>1 DEF Entries
<1>4. /\ u \in Seq(Entries) /\ Len(u) = n + 1 /\ DOMAIN u = 1 .. n + 1
      /\ u[n + 1] = e /\ \A i \in 1 .. n : u[i] = t[i]
  BY <1>1, <1>2, <1>3, AppendProperties
<1>5. \A i \in 1 .. n + 1 : i = n + 1 \/ i \in 1 .. n
  BY <1>3
<1> HIDE DEF u, n
<1>6. Distinct(u)
  BY <1>1, <1>3, <1>4, <1>5 DEF Distinct, NewEntry
<1>7. Leveled(u, e.dLevel)
  <2>1. ASSUME NEW i \in 1 .. n PROVE u[i].dLevel \in 1 .. e.dLevel /\ \A j \in 1 .. i : u[j].dLevel <= u[i].dLevel
    <3>1. t[i].dLevel >= 1 /\ t[i].dLevel <= e.dLevel /\ t[i].dLevel \in Nat /\ \A j \in 1 .. i : t[j].dLevel <= t[i].dLevel
      BY <1>1, <1>3 DEF Leveled, NewEntry
    <3>2. \A j \in 1 .. i : j \in 1 .. n
      BY <1>3
    <3> QED
      BY <3>1, <3>2, <1>2, <1>4
  <2>2. e.dLevel \in 1 .. e.dLevel /\ \A j \in 1 .. n + 1 : u[j].dLevel <= e.dLevel
    <3>1. \A j \in 1 .. n : t[j].dLevel <= e.dLevel
      BY <1>3 DEF NewEntry
    <3>2. e.dLevel <= e.dLevel /\ e.dLevel \in 1 .. e.dLevel
      BY <1>2
    <3> QED
      BY <3>1, <3>2, <1>4, <1>5
  <2> QED
    BY <2>1, <2>2, <1>4, <1>5 DEF Leveled
<1>8. Reasoned(u)
  <2>1. ASSUME NEW i \in 1 .. n, t[i].ante # << >>
        PROVE  /\ t[i].ante[1] = t[i].lit /\ IsInjective(t[i].ante)
               /\ \A k \in 2 .. Len(t[i].ante) : \E j \in 1 .. i - 1 : u[j].lit = NEG(t[i].ante[k])
    <3>1. \A j \in 1 .. i - 1 : j \in 1 .. n
      BY <1>3
    <3> QED
      <4>1. i \in DOMAIN t /\ \A j \in 1 .. i - 1 : u[j] = t[j]
        BY <1>3, <1>4, <3>1
      <4>2. /\ t[i].ante[1] = t[i].lit /\ IsInjective(t[i].ante)
            /\ \A k \in 2 .. Len(t[i].ante) : \E j \in 1 .. i - 1 : t[j].lit = NEG(t[i].ante[k])
        BY <1>1, <2>1, <4>1 DEF Reasoned
      <4> QED
        BY <4>1, <4>2
  <2>2. ASSUME e.ante # << >>
        PROVE  /\ e.ante[1] = e.lit /\ IsInjective(e.ante)
               /\ \A k \in 2 .. Len(e.ante) : \E j \in 1 .. n : u[j].lit = NEG(e.ante[k])
    BY <1>3, <1>4, <2>2 DEF NewEntry
  <2>3. ASSUME NEW i \in DOMAIN u, u[i].ante # << >>
        PROVE  /\ u[i].ante[1] = u[i].lit /\ IsInjective(u[i].ante)
               /\ \A k \in 2 .. Len(u[i].ante) : \E j \in 1 .. i - 1 : u[j].lit = NEG(u[i].ante[k])
    <3>1. CASE i = n + 1
      <4>1. u[i] = e /\ i - 1 = n
        BY <3>1, <1>3, <1>4
      <4> QED
        BY <4>1, <2>2, <2>3
    <3>2. CASE i \in 1 .. n
      <4>1. u[i] = t[i]
        BY <3>2, <1>4
      <4> QED
        BY <3>2, <4>1, <2>1, <2>3
    <3> QED
      BY <3>1, <3>2, <1>4, <1>5
  <2> QED
    BY <2>3 DEF Reasoned
<1>9. Decided(u)
  <2>1. \A i \in 1 .. n : \A j \in 1 .. i - 1 : j \in 1 .. n
    BY <1>3
  <2>3. ASSUME NEW i \in 1 .. n, u[i].ante = << >>
        PROVE  u[i].dLevel > 1 /\ \A j \in 1 .. i - 1 : u[j].dLevel < u[i].dLevel
    BY <2>1, <2>3, <1>1, <1>3, <1>4 DEF Decided
  <2>4. ASSUME e.ante = << >>
        PROVE  e.dLevel > 1 /\ \A j \in 1 .. n : u[j].dLevel < e.dLevel
    BY <2>4, <1>3, <1>4 DEF NewEntry
  <2>5. ASSUME NEW i \in DOMAIN u, u[i].ante = << >>
        PROVE  u[i].dLevel > 1 /\ \A j \in 1 .. i - 1 : u[j].dLevel < u[i].dLevel
    <3>1. CASE i = n + 1
      <4>1. u[i] = e /\ i - 1 = n
        BY <3>1, <1>3, <1>4
      <4> QED
        BY <4>1, <2>4, <2>5
    <3>2. CASE i \in 1 .. n
      BY <3>2, <2>3, <2>5
    <3> QED
      BY <3>1, <3>2, <1>4, <1>5
  <2> QED
    BY <2>5 DEF Decided
<1>10. Justified(u, M)
  BY <1>1, <1>3, <1>4, <1>5 DEF Justified, NewEntry
<1> QED
  BY <1>4, <1>6, <1>7, <1>8, <1>9, <1>10 DEF TrailOK, u

\* The beginning of a trail is one.
LEMMA TrailPrefix ==
  ASSUME NEW t, NEW d, NEW M, TrailOK(t, d, M), NEW p \in 0 .. Len(t), NEW u \in Seq(Entries), Len(u) = p,
         \A i \in 1 .. p : u[i] = t[i], NEW b \in Nat, \A i \in 1 .. p : t[i].dLevel <= b
  PROVE  TrailOK(u, b, M)
<1>1. t \in Seq(Entries) /\ Distinct(t) /\ Leveled(t, d) /\ Reasoned(t) /\ Decided(t) /\ Justified(t, M)
  BY DEF TrailOK
<1>2. DOMAIN u = 1 .. p /\ (\A i \in DOMAIN u : i \in DOMAIN t) /\ (\A i \in DOMAIN u : u[i] = t[i])
  BY <1>1
<1>3. \A i \in DOMAIN u : \A j \in 1 .. i : j \in DOMAIN u /\ u[j] = t[j]
  BY <1>2
<1>4. Leveled(u, b)
  <2>1. \A i \in DOMAIN u : t[i].dLevel \in 1 .. b
    <3>1. \A i \in DOMAIN u : t[i].dLevel \in 1 .. d /\ t[i] \in Entries
      BY <1>1, <1>2 DEF Leveled
    <3>2. \A i \in DOMAIN u : t[i].dLevel \in Nat /\ t[i].dLevel >= 1
      BY <3>1 DEF Entries
    <3> QED
      BY <3>2, <1>2
  <2> QED
    BY <2>1, <1>1, <1>2, <1>3 DEF Leveled
<1>5. \A i \in DOMAIN u : \A j \in 1 .. i - 1 : j \in 1 .. i
  BY <1>2
<1>6. Distinct(u)
  BY <1>1, <1>2 DEF Distinct
<1>7. Reasoned(u)
  <2>1. ASSUME NEW i \in DOMAIN u, u[i].ante # << >>
        PROVE  /\ u[i].ante[1] = u[i].lit /\ IsInjective(u[i].ante)
               /\ \A k \in 2 .. Len(u[i].ante) : \E j \in 1 .. i - 1 : u[j].lit = NEG(u[i].ante[k])
    <3>1. i \in DOMAIN t /\ u[i] = t[i] /\ \A j \in 1 .. i - 1 : u[j] = t[j]
      BY <1>2, <1>3, <1>5
    <3>2. /\ t[i].ante[1] = t[i].lit /\ IsInjective(t[i].ante)
          /\ \A k \in 2 .. Len(t[i].ante) : \E j \in 1 .. i - 1 : t[j].lit = NEG(t[i].ante[k])
      BY <1>1, <2>1, <3>1 DEF Reasoned
    <3> QED
      BY <3>1, <3>2
  <2> QED
    BY <2>1 DEF Reasoned
<1>8. Decided(u)
  BY <1>1, <1>2, <1>3, <1>5 DEF Decided
<1>9. Justified(u, M)
  BY <1>1, <1>2 DEF Justified
<1> QED
  BY <1>4, <1>6, <1>7, <1>8, <1>9 DEF TrailOK

\* What a literal is on the trail.
LEMMA OnTrail ==
  ASSUME NEW d, NEW M, TrailOK(trail, d, M)
  PROVE  /\ Len(trail) \in Nat /\ DOMAIN trail = 1 .. Len(trail)
         /\ \A i \in 1 .. Len(trail) :
              /\ trail[i] \in Entries /\ trail[i].lit \in Literals /\ trail[i].ante \in Seq(Literals)
              /\ trail[i].dLevel \in 1 .. d
              /\ \A l : VAR(l) = VAR(trail[i].lit) =>
                   LevelOf(l) = trail[i].dLevel /\ AnteOf(l) = trail[i].ante
         /\ \A l \in Literals : SET(l) => ~RESOLVED(l)
         /\ \A l, m \in Literals : RESOLVED(l) /\ RESOLVED(m) /\ VAR(l) = VAR(m) => l = m
         /\ \A l \in Literals : RESOLVED(l) => \E i \in 1 .. Len(trail) :
              trail[i].lit = NEG(l) /\ VAR(l) = VAR(trail[i].lit)
<1>1. trail \in Seq(Entries) /\ Distinct(trail) /\ Leveled(trail, d)
  BY DEF TrailOK
<1>2. Len(trail) \in Nat /\ DOMAIN trail = 1 .. Len(trail) /\ \A i \in 1 .. Len(trail) : trail[i] \in Entries
  BY <1>1
<1>3. \A i \in 1 .. Len(trail) : trail[i].lit \in Literals /\ trail[i].ante \in Seq(Literals)
  BY <1>2 DEF Entries
<1>4. \A i \in 1 .. Len(trail) : trail[i].dLevel \in 1 .. d
  BY <1>1, <1>2 DEF Leveled
<1>5. ASSUME NEW i \in 1 .. Len(trail), NEW l, VAR(l) = VAR(trail[i].lit)
      PROVE  LevelOf(l) = trail[i].dLevel /\ AnteOf(l) = trail[i].ante
  <2> DEFINE f == CHOOSE f \in ToSet(trail) : VAR(f.lit) = VAR(l)
  <2>1. f \in ToSet(trail) /\ VAR(f.lit) = VAR(l)
    BY <1>2, <1>5 DEF ToSet
  <2>2. PICK j \in 1 .. Len(trail) : f = trail[j]
    BY <2>1, <1>2 DEF ToSet
  <2> HIDE DEF f
  <2>3. j = i
    BY <2>1, <2>2, <1>1, <1>2, <1>5 DEF Distinct
  <2>4. LevelOf(l) = f.dLevel /\ AnteOf(l) = f.ante
    BY DEF LevelOf, AnteOf, f
  <2> QED
    BY <2>2, <2>3, <2>4
<1>6. ASSUME NEW l \in Literals, SET(l), RESOLVED(l) PROVE FALSE
  <2>1. PICK i, j \in 1 .. Len(trail) : trail[i].lit = l /\ trail[j].lit = NEG(l)
    BY <1>2, <1>6 DEF SET, RESOLVED, Assigned
  <2> QED
    BY <2>1, <1>1, <1>2, LiteralFacts DEF Distinct
<1>7. ASSUME NEW l \in Literals, RESOLVED(l)
      PROVE  \E i \in 1 .. Len(trail) : trail[i].lit = NEG(l) /\ VAR(l) = VAR(trail[i].lit)
  BY <1>2, <1>7, LiteralFacts DEF RESOLVED, Assigned
<1>8. ASSUME NEW l \in Literals, NEW m \in Literals, RESOLVED(l), RESOLVED(m), VAR(l) = VAR(m) PROVE l = m
  <2>1. PICK i \in 1 .. Len(trail) : trail[i].lit = NEG(l) /\ VAR(l) = VAR(trail[i].lit)
    BY <1>7, <1>8
  <2>2. PICK j \in 1 .. Len(trail) : trail[j].lit = NEG(m) /\ VAR(m) = VAR(trail[j].lit)
    BY <1>7, <1>8
  <2>3. i = j
    BY <2>1, <2>2, <1>1, <1>2, <1>8 DEF Distinct
  <2> QED
    BY <2>1, <2>2, <2>3, LiteralFacts
<1> QED
  BY <1>2, <1>3, <1>4, <1>5, <1>6, <1>7, <1>8

-----------------------------------------------------------------------------
(* Assignments and clauses.                                                *)

LEMMA AssignmentFacts ==
  /\ \A m \in Assignments : m \subseteq Literals /\ \A l \in Literals : l \in m <=> NEG(l) \notin m
  /\ \A cs : Models(cs) \subseteq Assignments
<1>1. ASSUME NEW m \in Assignments PROVE m \subseteq Literals /\ \A l \in Literals : l \in m <=> NEG(l) \notin m
  <2>1. PICK f \in [Vars -> BOOLEAN] : m = {IF f[v] THEN v ELSE -v : v \in Vars}
    BY DEF Assignments
  <2>2. \A v \in Vars : v \in Nat \ {0}
    BY LiteralFacts DEF Vars
  <2>3. ASSUME NEW v \in Vars PROVE (v \in m <=> f[v]) /\ (-v \in m <=> ~ f[v])
    BY <2>1, <2>2
  <2>4. m \subseteq Literals
    BY <2>1, <2>2 DEF Literals
  <2>5. ASSUME NEW l \in Literals PROVE l \in m <=> NEG(l) \notin m
    <3>1. CASE l \in Vars
      BY <3>1, <2>3 DEF NEG
    <3>2. CASE -l \in Vars
      <4>1. l = -(-l)
        BY LiteralFacts
      <4> QED
        BY <4>1, <3>2, <2>3 DEF NEG
    <3>3. l \in Vars \/ -l \in Vars
      BY LiteralFacts DEF Literals, Vars
    <3> QED
      BY <3>1, <3>2, <3>3
  <2> QED
    BY <2>4, <2>5
<1> QED
  BY <1>1 DEF Models

ClauseOK(c, M) == c \in Seq(Literals) /\ Len(c) > 1 /\ IsInjective(c) /\ \A m \in M : Holds(c, m)

\* Distinct variables in a sequence, counted.
LEMMA CountedOnce ==
  ASSUME NEW s \in Seq(Literals), \A i, j \in 1 .. Len(s) : VAR(s[i]) = VAR(s[j]) => i = j
  PROVE  IsFiniteSet({VAR(x) : x \in ToSet(s)}) /\ Cardinality({VAR(x) : x \in ToSet(s)}) = Len(s)
<1> DEFINE S == {VAR(x) : x \in ToSet(s)}
           f == [i \in 1 .. Len(s) |-> VAR(s[i])]
<1>1. Len(s) \in Nat /\ DOMAIN s = 1 .. Len(s)
  OBVIOUS
<1>2. f \in [1 .. Len(s) -> S] /\ \A y \in S : \E i \in 1 .. Len(s) : f[i] = y
  BY <1>1 DEF ToSet
<1>3. f \in Bijection(1 .. Len(s), S)
  BY <1>2 DEF Bijection, Injection, Surjection, IsInjective
<1>4. IsFiniteSet(1 .. Len(s)) /\ Cardinality(1 .. Len(s)) = Len(s)
  BY <1>1, FS_Interval
<1> HIDE DEF S
<1>5. ExistsBijection(1 .. Len(s), S)
  BY <1>3 DEF ExistsBijection
<1> QED
  BY <1>4, <1>5, FS_Bijection DEF S

\* What is in two sequences put together.
LEMMA JoinedFacts ==
  ASSUME NEW S, NEW s \in Seq(S), NEW t \in Seq(S)
  PROVE  /\ ToSet(s \o t) = ToSet(s) \cup ToSet(t)
         /\ IsInjective(s) /\ IsInjective(t) /\ (\A x \in ToSet(s) : x \notin ToSet(t)) => IsInjective(s \o t)
<1> DEFINE u == s \o t
           n == Len(s)
           m == Len(t)
<1>1. /\ n \in Nat /\ m \in Nat /\ DOMAIN s = 1 .. n /\ DOMAIN t = 1 .. m /\ DOMAIN u = 1 .. n + m
      /\ \A i \in 1 .. n + m : u[i] = IF i <= n THEN s[i] ELSE t[i - n]
  BY ConcatProperties
<1> HIDE DEF u, n, m
<1>2. \A i \in 1 .. n : i \in 1 .. n + m /\ u[i] = s[i]
  BY <1>1
<1>3. \A i \in 1 .. n + m : i \notin 1 .. n => i - n \in 1 .. m /\ u[i] = t[i - n]
  BY <1>1
<1>4. \A i \in 1 .. m : n + i \in 1 .. n + m /\ ~(n + i <= n) /\ (n + i) - n = i
  BY <1>1
<1>5. \A i \in 1 .. m : n + i \in 1 .. n + m /\ u[n + i] = t[i]
  BY <1>1, <1>4
<1>6. ToSet(u) = ToSet(s) \cup ToSet(t)
  BY <1>1, <1>2, <1>3, <1>5 DEF ToSet
<1>7. ASSUME IsInjective(s), IsInjective(t), \A x \in ToSet(s) : x \notin ToSet(t),
             NEW i \in 1 .. n + m, NEW j \in 1 .. n + m, u[i] = u[j]
      PROVE  i = j
  <2>1. CASE i \in 1 .. n /\ j \in 1 .. n
    BY <2>1, <1>1, <1>2, <1>7 DEF IsInjective
  <2>2. CASE i \notin 1 .. n /\ j \notin 1 .. n
    <3>1. i - n = j - n
      <4>1. i - n \in 1 .. m /\ u[i] = t[i - n] /\ j - n \in 1 .. m /\ u[j] = t[j - n]
        BY <2>2, <1>3
      <4> QED
        BY <4>1, <1>1, <1>7 DEF IsInjective
    <3> QED
      BY <3>1, <1>1
  <2>3. CASE i \in 1 .. n /\ j \notin 1 .. n
    BY <2>3, <1>1, <1>2, <1>3, <1>7 DEF ToSet
  <2>4. CASE i \notin 1 .. n /\ j \in 1 .. n
    BY <2>4, <1>1, <1>2, <1>3, <1>7 DEF ToSet
  <2> QED
    BY <2>1, <2>2, <2>3, <2>4
<1> QED
  BY <1>1, <1>6, <1>7 DEF IsInjective, u

-----------------------------------------------------------------------------
(* Clause learning.                                                        *)

Searches == [mark : SUBSET Vars, lower : Seq(Literals), left : Int, uip : Literals \cup {0}, orders : SUBSET Orders]

LEMMA MarkedType ==
  ASSUME NEW s \in Searches, NEW c \in Seq(Literals)
  PROVE  Marked(s, c) \in Searches
<1> DEFINE new == Only(c, {l \in ToSet(c) : LevelOf(l) > 1 /\ VAR(l) \notin s.mark})
           low == Only(new, {l \in ToSet(new) : LevelOf(l) < dLevel})
           now == Only(new, {l \in ToSet(new) : LevelOf(l) = dLevel})
<1>1. new \in Seq(Literals)
  BY OnlyFacts
<1>2. low \in Seq(Literals) /\ now \in Seq(Literals)
  BY <1>1, OnlyFacts
<1>3. Marked(s, c) = [s EXCEPT !.mark = @ \cup {VAR(new[i]) : i \in DOMAIN new}, !.lower = @ \o low, !.left = @ + Len(now)]
  BY DEF Marked
<1>4. {VAR(new[i]) : i \in DOMAIN new} \subseteq Vars
  <2>1. \A i \in DOMAIN new : new[i] \in Literals
    BY <1>1
  <2>2. \A i \in DOMAIN new : VAR(new[i]) \in Vars
    BY <2>1, LiteralFacts
  <2> QED
    BY <2>2
<1> HIDE DEF new, low, now
<1>5. s.mark \in SUBSET Vars /\ s.lower \in Seq(Literals) /\ s.left \in Int
  BY DEF Searches
<1>6. /\ s.mark \cup {VAR(new[i]) : i \in DOMAIN new} \in SUBSET Vars
      /\ s.lower \o low \in Seq(Literals) /\ s.left + Len(now) \in Int
  BY <1>2, <1>4, <1>5
<1> QED
  BY <1>3, <1>6 DEF Searches

LEMMA PoppedType ==
  ASSUME NEW s \in Searches, NEW e \in Entries
  PROVE  Popped(s, e) \in Searches
<1> DEFINE v == VAR(e.lit)
           scored == IF e.ante = << >> THEN s.orders
                     ELSE UNION {updateScores(o, ScoredClause(o, e)) : o \in s.orders}
           freed(os) == {Freed(o, v) : o \in os}
           after == freed(scored)
           r == [s EXCEPT !.orders = after, !.mark = @ \ {v}, !.left = @ - 1]
<1>1. s.orders \in SUBSET Orders /\ s.mark \in SUBSET Vars /\ s.left \in Int /\ e.lit \in Literals /\ e.ante \in Seq(Literals)
  BY DEF Searches, Entries
<1>2. scored \in SUBSET Orders
  BY <1>1, ScoresType, ScoredClauseType
<1>3. after \in SUBSET Orders /\ freed(s.orders) \in SUBSET Orders
  BY <1>1, <1>2, FreedType
<1>4. Reasons(e.ante) \in Seq(Literals)
  BY <1>1 DEF Reasons
<1>5. Popped(s, e) = IF s.uip # 0 THEN s
                     ELSE IF v \notin s.mark THEN [s EXCEPT !.orders = freed(@)]
                     ELSE IF s.left = 1 THEN [s EXCEPT !.orders = after, !.mark = @ \ {v}, !.uip = e.lit]
                     ELSE Marked(r, Reasons(e.ante))
  BY DEF Popped
<1> HIDE DEF after, freed, v, scored
<1>0. s.left - 1 \in Int /\ s.mark \ {v} \in SUBSET Vars
  BY <1>1
<1>6. r \in Searches
  BY <1>0, <1>3 DEF Searches
<1>7. Marked(r, Reasons(e.ante)) \in Searches
  <2> HIDE DEF r
  <2> QED
    BY <1>4, <1>6, MarkedType
<1>8. [s EXCEPT !.orders = after, !.mark = @ \ {v}, !.uip = e.lit] \in Searches
  BY <1>1, <1>3 DEF Searches
<1>9. [s EXCEPT !.orders = freed(@)] \in Searches
  BY <1>1, <1>3 DEF Searches
<1> QED
  BY <1>5, <1>7, <1>8, <1>9

AtLevel(S) == {v \in S : LevelOf(v) = dLevel}

\* What marking the literals of a clause, all resolved, does.
LEMMA MarkedFacts ==
  ASSUME NEW M, TrailOK(trail, dLevel, M), NEW s \in Searches, NEW c \in Seq(Literals), IsInjective(c),
         \A x \in ToSet(c) : RESOLVED(x)
  PROVE  \E new \in SUBSET ToSet(c) :
           /\ new = {x \in ToSet(c) : LevelOf(x) > 1 /\ VAR(x) \notin s.mark}
           /\ Marked(s, c).mark = s.mark \cup {VAR(x) : x \in new}
           /\ ToSet(Marked(s, c).lower) = ToSet(s.lower) \cup {x \in new : LevelOf(x) < dLevel}
           /\ IsInjective(s.lower) /\ (\A x \in ToSet(s.lower) : VAR(x) \in s.mark) => IsInjective(Marked(s, c).lower)
           /\ IsFiniteSet({VAR(x) : x \in {x \in new : LevelOf(x) = dLevel}})
           /\ Marked(s, c).left = s.left + Cardinality({VAR(x) : x \in {x \in new : LevelOf(x) = dLevel}})
           /\ Marked(s, c).uip = s.uip /\ Marked(s, c).orders = s.orders
<1> DEFINE S == {l \in ToSet(c) : LevelOf(l) > 1 /\ VAR(l) \notin s.mark}
           new == Only(c, S)
           low == Only(new, {l \in ToSet(new) : LevelOf(l) < dLevel})
           now == Only(new, {l \in ToSet(new) : LevelOf(l) = dLevel})
<1>1. new \in Seq(Literals) /\ ToSet(new) = ToSet(c) \cap S /\ IsInjective(new)
  BY OnlyFacts
<1> HIDE DEF new
<1>2. low \in Seq(Literals) /\ ToSet(low) = {l \in ToSet(new) : LevelOf(l) < dLevel} /\ IsInjective(low)
  BY <1>1, OnlyFacts
<1>3. now \in Seq(Literals) /\ ToSet(now) = {l \in ToSet(new) : LevelOf(l) = dLevel} /\ IsInjective(now)
  BY <1>1, OnlyFacts
<1> HIDE DEF low, now
<1>4. Marked(s, c) = [s EXCEPT !.mark = @ \cup {VAR(new[i]) : i \in DOMAIN new}, !.lower = @ \o low, !.left = @ + Len(now)]
  BY DEF Marked, new, low, now
<1>5. s.mark \in SUBSET Vars /\ s.lower \in Seq(Literals) /\ s.left \in Int
  BY DEF Searches
<1>6. /\ Marked(s, c).mark = s.mark \cup {VAR(x) : x \in ToSet(new)}
      /\ Marked(s, c).lower = s.lower \o low /\ Marked(s, c).left = s.left + Len(now)
      /\ Marked(s, c).uip = s.uip /\ Marked(s, c).orders = s.orders
  BY <1>4 DEF Searches, ToSet
<1>7. ToSet(new) = S /\ S \subseteq ToSet(c)
  BY <1>1
<1> DEFINE both == s.lower \o low
<1>13. ToSet(both) = ToSet(s.lower) \cup {x \in S : LevelOf(x) < dLevel}
  <2>1. ToSet(both) = ToSet(s.lower) \cup ToSet(low)
    BY <1>2, <1>5, JoinedFacts
  <2> QED
    BY <2>1, <1>2, <1>7
<1>14. ASSUME IsInjective(s.lower), \A x \in ToSet(s.lower) : VAR(x) \in s.mark
       PROVE  IsInjective(both)
  <2>1. \A x \in ToSet(s.lower) : x \notin ToSet(low)
    BY <1>14, <1>2, <1>7
  <2> QED
    BY <2>1, <1>2, <1>5, <1>14, JoinedFacts
<1>15. /\ IsFiniteSet({VAR(x) : x \in {x \in S : LevelOf(x) = dLevel}})
       /\ Cardinality({VAR(x) : x \in {x \in S : LevelOf(x) = dLevel}}) = Len(now)
  <2>1. ASSUME NEW i \in 1 .. Len(now), NEW j \in 1 .. Len(now), VAR(now[i]) = VAR(now[j]) PROVE i = j
    <3>1. now[i] \in ToSet(now) /\ now[j] \in ToSet(now) /\ i \in DOMAIN now /\ j \in DOMAIN now
      BY <1>3 DEF ToSet
    <3>2. now[i] \in ToSet(c) /\ now[j] \in ToSet(c) /\ now[i] \in Literals /\ now[j] \in Literals
      BY <3>1, <1>3, <1>7
    <3>3. now[i] = now[j]
      BY <3>2, <2>1, OnTrail
    <3> QED
      BY <3>1, <3>3, <1>3 DEF IsInjective
  <2> QED
    BY <2>1, <1>3, <1>7, CountedOnce
<1>16. s.left + Len(now) = s.left + Cardinality({VAR(x) : x \in {x \in S : LevelOf(x) = dLevel}})
  BY <1>15
<1> WITNESS S \in SUBSET ToSet(c)
<1> QED
  BY <1>6, <1>7, <1>13, <1>14, <1>15, <1>16 DEF both

\* The literals that an entry follows from.
LEMMA ReasonsFacts ==
  ASSUME NEW M, M \subseteq Assignments, TrailOK(trail, dLevel, M),
         NEW i \in 1 .. Len(trail), trail[i].ante # << >>
  PROVE  /\ Reasons(trail[i].ante) \in Seq(Literals) /\ IsInjective(Reasons(trail[i].ante))
         /\ \A x \in ToSet(Reasons(trail[i].ante)) :
              RESOLVED(x) /\ \E k \in 1 .. i - 1 : trail[k].lit = NEG(x) /\ VAR(trail[k].lit) = VAR(x)
         /\ \A m \in M : trail[i].lit \in m \/ \E x \in ToSet(Reasons(trail[i].ante)) : x \in m
<1> DEFINE c == trail[i].ante
           r == Reasons(c)
<1>0. /\ Len(trail) \in Nat /\ DOMAIN trail = 1 .. Len(trail) /\ c \in Seq(Literals)
      /\ Reasoned(trail) /\ Justified(trail, M)
  BY OnTrail DEF TrailOK
<1>1. /\ c[1] = trail[i].lit /\ IsInjective(c) /\ Len(c) \in Nat \ {0} /\ DOMAIN c = 1 .. Len(c)
      /\ \A k \in 2 .. Len(c) : \E j \in 1 .. i - 1 : trail[j].lit = NEG(c[k])
  <2>1. i \in DOMAIN trail /\ c # << >>
    BY <1>0
  <2>2. Len(c) \in Nat \ {0} /\ DOMAIN c = 1 .. Len(c)
    BY <1>0, <2>1
  <2>3. /\ c[1] = trail[i].lit /\ IsInjective(c)
        /\ \A k \in 2 .. Len(c) : \E j \in 1 .. i - 1 : trail[j].lit = NEG(c[k])
    BY <1>0, <2>1 DEF Reasoned
  <2> QED
    BY <2>2, <2>3
<1>2. \A m \in M : Holds(c, m)
  BY <1>0 DEF Justified
<1>3. \A k \in 1 .. Len(c) : c[k] \in Literals
  BY <1>0
<1> HIDE DEF c
<1>l. Len(c) \in Nat \ {0} /\ DOMAIN c = 1 .. Len(c)
  BY <1>1
<1>4. r = SubSeq(c, 2, Len(c))
  BY DEF Reasons
<1>5. r \in Seq(Literals) /\ DOMAIN r = 1 .. Len(r) /\ Len(r) = Len(c) - 1 /\ \A k \in 1 .. Len(r) : r[k] = c[k + 1]
  <2>1. \A k \in 2 .. Len(c) : c[k] \in Literals
    BY <1>1, <1>3
  <2>2. /\ r \in Seq(Literals) /\ Len(r) = IF 2 <= Len(c) THEN Len(c) - 2 + 1 ELSE 0
        /\ \A k \in 1 .. Len(c) - 2 + 1 : r[k] = c[2 + k - 1]
    BY <1>1, <1>4, <2>1, SubSeqProperties
  <2> HIDE DEF r
  <2>3. Len(r) = Len(c) - 1 /\ Len(c) - 2 + 1 = Len(c) - 1
    <3>1. Len(c) = 1 \/ 2 <= Len(c)
      BY <1>l
    <3>2. CASE Len(c) = 1
      BY <2>2, <3>2
    <3>3. CASE 2 <= Len(c)
      BY <2>2, <3>3, <1>l
    <3> QED
      BY <3>1, <3>2, <3>3
  <2>4. \A k \in 1 .. Len(r) : k \in 1 .. Len(c) - 2 + 1 /\ 2 + k - 1 = k + 1
    BY <1>1, <2>3
  <2> QED
    BY <2>2, <2>3, <2>4
<1>6. \A k \in 1 .. Len(r) : k + 1 \in 2 .. Len(c) /\ k + 1 \in 1 .. Len(c)
  BY <1>1, <1>5
<1>7. \A k \in 2 .. Len(c) : k - 1 \in 1 .. Len(r) /\ (k - 1) + 1 = k
  BY <1>1, <1>5
<1> HIDE DEF r
<1>8. ToSet(r) = {c[k] : k \in 2 .. Len(c)}
  <2>1. \A k \in 1 .. Len(r) : r[k] \in {c[j] : j \in 2 .. Len(c)}
    BY <1>5, <1>6
  <2>2. \A k \in 2 .. Len(c) : c[k] = r[k - 1] /\ k - 1 \in DOMAIN r
    BY <1>5, <1>7
  <2> QED
    <3>1. ToSet(r) = {r[k] : k \in 1 .. Len(r)}
      BY <1>5 DEF ToSet
    <3>2. \A x \in ToSet(r) : x \in {c[k] : k \in 2 .. Len(c)}
      BY <2>1, <3>1
    <3>3. \A x \in {c[k] : k \in 2 .. Len(c)} : x \in ToSet(r)
      BY <2>2, <3>1, <1>7
    <3> QED
      BY <3>2, <3>3
<1>9. IsInjective(r)
  <2>1. ASSUME NEW k \in 1 .. Len(r), NEW j \in 1 .. Len(r), r[k] = r[j] PROVE k = j
    <3>1. c[k + 1] = c[j + 1] /\ k + 1 \in DOMAIN c /\ j + 1 \in DOMAIN c
      BY <1>l, <1>5, <1>6, <2>1
    <3>2. k + 1 = j + 1
      BY <1>1, <3>1 DEF IsInjective
    <3> QED
      BY <3>2
  <2> QED
    BY <2>1, <1>5 DEF IsInjective
<1>10. ASSUME NEW x \in ToSet(r)
       PROVE  RESOLVED(x) /\ \E k \in 1 .. i - 1 : trail[k].lit = NEG(x) /\ VAR(trail[k].lit) = VAR(x)
  <2>1. PICK j \in 2 .. Len(c) : x = c[j]
    BY <1>8, <1>10
  <2>2. PICK k \in 1 .. i - 1 : trail[k].lit = NEG(x)
    BY <1>1, <2>1
  <2>3. x \in Literals
    BY <1>5, <1>10 DEF ToSet
  <2>4. k \in DOMAIN trail
    BY <1>0
  <2>5. RESOLVED(x)
    BY <2>2, <2>4 DEF RESOLVED, Assigned
  <2> QED
    BY <2>2, <2>3, <2>5, LiteralFacts
<1>11. ASSUME NEW m \in M, trail[i].lit \notin m PROVE \E x \in ToSet(r) : x \in m
  <2>1. PICK k \in 1 .. Len(c) : c[k] \in m
    BY <1>1, <1>2 DEF Holds
  <2>2. k \in 2 .. Len(c)
    BY <1>1, <2>1, <1>11
  <2> QED
    BY <1>8, <2>1, <2>2
<1> QED
  BY <1>5, <1>9, <1>10, <1>11 DEF r, c

\* What holds while the trail is popped, when its first j entries are left:
\* the marked variables are on what is left, those of lower levels are in the
\* clause, and every model falsifies a marked literal; the clause is then
\* complete with the negation of the literal at which it ends.
Learning(s, j, M) ==
  /\ s \in Searches /\ IsInjective(s.lower)
  /\ \A v \in s.mark : LevelOf(v) > 1 /\ \E k \in 1 .. Len(trail) : VAR(trail[k].lit) = v /\ (s.uip = 0 => k <= j)
  /\ \A x \in ToSet(s.lower) : RESOLVED(x) /\ LevelOf(x) > 1 /\ LevelOf(x) < dLevel /\ VAR(x) \in s.mark
  /\ \A v \in s.mark : LevelOf(v) < dLevel => \E x \in ToSet(s.lower) : VAR(x) = v
  /\ s.uip = 0 =>
       /\ s.left = Cardinality(AtLevel(s.mark)) /\ s.left >= 1
       /\ \A m \in M : \E k \in 1 .. Len(trail) : VAR(trail[k].lit) \in s.mark /\ NEG(trail[k].lit) \in m
  /\ s.uip # 0 =>
       /\ \E k \in 1 .. Len(trail) : trail[k].lit = s.uip /\ trail[k].dLevel = dLevel
       /\ \A v \in s.mark : LevelOf(v) < dLevel
       /\ \A m \in M : NEG(s.uip) \in m \/ \E x \in ToSet(s.lower) : x \in m

\* A resolved literal and its variable are at one level.
LEMMA ResolvedLevel ==
  ASSUME NEW M, TrailOK(trail, dLevel, M), NEW x \in Literals, RESOLVED(x)
  PROVE  /\ LevelOf(VAR(x)) = LevelOf(x) /\ LevelOf(x) \in 1 .. dLevel
         /\ \E k \in 1 .. Len(trail) : trail[k].lit = NEG(x) /\ VAR(trail[k].lit) = VAR(x) /\ trail[k].dLevel = LevelOf(x)
<1>1. PICK k \in 1 .. Len(trail) : trail[k].lit = NEG(x) /\ VAR(x) = VAR(trail[k].lit)
  BY OnTrail
<1>2. VAR(VAR(x)) = VAR(x)
  BY LiteralFacts DEF VAR, Vars
<1>3. LevelOf(x) = trail[k].dLevel /\ LevelOf(VAR(x)) = trail[k].dLevel /\ trail[k].dLevel \in 1 .. dLevel
  BY <1>1, <1>2, OnTrail
<1> QED
  BY <1>1, <1>3

LEMMA LearningStarts ==
  ASSUME NEW M, M \subseteq Assignments, dLevel \in Nat, dLevel > 1, TrailOK(trail, dLevel, M),
         NEW c, ClauseOK(c, M), \A x \in ToSet(c) : RESOLVED(x), \E x \in ToSet(c) : LevelOf(x) = dLevel,
         NEW o \in Orders
  PROVE  Learning(Marked([mark |-> {}, lower |-> << >>, left |-> 0, uip |-> 0, orders |-> updateScores(o, c)], c),
                  Len(trail), M)
<1> DEFINE s == [mark |-> {}, lower |-> << >>, left |-> 0, uip |-> 0, orders |-> updateScores(o, c)]
           r == Marked(s, c)
<1>0. c \in Seq(Literals) /\ IsInjective(c) /\ (\A m \in M : Holds(c, m)) /\ \A x \in ToSet(c) : x \in Literals
  BY DEF ClauseOK, ToSet
<1>1. /\ s \in Searches /\ ToSet(s.lower) = {} /\ IsInjective(s.lower)
      /\ s.mark = {} /\ s.left = 0 /\ s.uip = 0
  <2>1. updateScores(o, c) \subseteq Orders /\ << >> \in Seq(Literals)
    BY <1>0, ScoresType
  <2> QED
    BY <2>1 DEF Searches, ToSet, IsInjective
<1> HIDE DEF s
<1>2. PICK new \in SUBSET ToSet(c) :
           /\ new = {x \in ToSet(c) : LevelOf(x) > 1 /\ VAR(x) \notin s.mark}
           /\ r.mark = s.mark \cup {VAR(x) : x \in new}
           /\ ToSet(r.lower) = ToSet(s.lower) \cup {x \in new : LevelOf(x) < dLevel}
           /\ IsInjective(s.lower) /\ (\A x \in ToSet(s.lower) : VAR(x) \in s.mark) => IsInjective(r.lower)
           /\ IsFiniteSet({VAR(x) : x \in {x \in new : LevelOf(x) = dLevel}})
           /\ r.left = s.left + Cardinality({VAR(x) : x \in {x \in new : LevelOf(x) = dLevel}})
           /\ r.uip = s.uip /\ r.orders = s.orders
  BY <1>0, <1>1, MarkedFacts
<1>3. r \in Searches
  BY <1>0, <1>1, MarkedType
<1> HIDE DEF r
<1>4. new = {x \in ToSet(c) : LevelOf(x) > 1} /\ r.mark = {VAR(x) : x \in new}
  BY <1>1, <1>2
<1>5. ToSet(r.lower) = {x \in new : LevelOf(x) < dLevel} /\ IsInjective(r.lower)
  BY <1>1, <1>2
<1>6. \A x \in new : /\ x \in Literals /\ RESOLVED(x) /\ LevelOf(VAR(x)) = LevelOf(x) /\ LevelOf(x) \in 1 .. dLevel
                     /\ \E k \in 1 .. Len(trail) : VAR(trail[k].lit) = VAR(x) /\ k <= Len(trail)
  <2>1. ASSUME NEW x \in new
        PROVE  /\ x \in Literals /\ RESOLVED(x) /\ LevelOf(VAR(x)) = LevelOf(x) /\ LevelOf(x) \in 1 .. dLevel
               /\ \E k \in 1 .. Len(trail) : VAR(trail[k].lit) = VAR(x) /\ k <= Len(trail)
    <3>1. x \in Literals /\ RESOLVED(x)
      BY <1>0
    <3> QED
      BY <3>1, ResolvedLevel, OnTrail
  <2> QED
    BY <2>1
<1>7. AtLevel(r.mark) = {VAR(x) : x \in {x \in new : LevelOf(x) = dLevel}}
  BY <1>4, <1>6 DEF AtLevel
<1>8. r.left = Cardinality(AtLevel(r.mark)) /\ r.left >= 1
  <2>1. IsFiniteSet(AtLevel(r.mark)) /\ AtLevel(r.mark) # {}
    <3>1. PICK x \in ToSet(c) : LevelOf(x) = dLevel
      OBVIOUS
    <3>2. x \in new
      BY <3>1, <1>4
    <3>3. AtLevel(r.mark) # {}
      BY <3>1, <3>2, <1>7
    <3>4. IsFiniteSet(AtLevel(r.mark))
      BY <1>2, <1>7
    <3> QED
      BY <3>3, <3>4
  <2>2. Cardinality(AtLevel(r.mark)) \in Nat /\ Cardinality(AtLevel(r.mark)) # 0
    BY <2>1, FS_CardinalityType, FS_EmptySet
  <2>3. r.left = Cardinality(AtLevel(r.mark))
    <3>1. r.left = 0 + Cardinality(AtLevel(r.mark))
      BY <1>1, <1>2, <1>7
    <3> QED
      BY <3>1, <2>2
  <2> QED
    BY <2>2, <2>3
<1>9. ASSUME NEW m \in M PROVE \E k \in 1 .. Len(trail) : VAR(trail[k].lit) \in r.mark /\ NEG(trail[k].lit) \in m
  <2>1. PICK x \in ToSet(c) : x \in m
    BY <1>0 DEF Holds, ToSet
  <2>2. PICK k \in 1 .. Len(trail) : trail[k].lit = NEG(x) /\ VAR(trail[k].lit) = VAR(x) /\ trail[k].dLevel = LevelOf(x)
    BY <1>0, ResolvedLevel
  <2>3. LevelOf(x) # 1
    <3>1. LevelOf(x) = 1 => NEG(x) \in m
      BY <2>2, OnTrail DEF TrailOK, Justified
    <3> QED
      BY <3>1, <2>1, <1>0, AssignmentFacts
  <2>4. x \in new
    BY <2>3, <1>4, <1>0, ResolvedLevel
  <2> QED
    <3>1. x \in Literals /\ NEG(trail[k].lit) = x
      BY <1>0, <2>1, <2>2, <2>4, <1>6, LiteralFacts
    <3>2. VAR(trail[k].lit) \in r.mark
      BY <2>2, <2>4, <1>4
    <3> QED
      BY <2>1, <3>1, <3>2
<1>10. r.uip = 0
  BY <1>1, <1>2
<1>11. \A v \in r.mark : LevelOf(v) > 1 /\ \E k \in 1 .. Len(trail) : VAR(trail[k].lit) = v /\ k <= Len(trail)
  BY <1>4, <1>6
<1>12. \A x \in ToSet(r.lower) : RESOLVED(x) /\ LevelOf(x) > 1 /\ LevelOf(x) < dLevel /\ VAR(x) \in r.mark
  BY <1>4, <1>5, <1>6
<1>13. \A v \in r.mark : LevelOf(v) < dLevel => \E x \in ToSet(r.lower) : VAR(x) = v
  BY <1>4, <1>5, <1>6
<1>14. Learning(r, Len(trail), M)
  BY <1>3, <1>5, <1>8, <1>9, <1>10, <1>11, <1>12, <1>13 DEF Learning
<1> QED
  BY <1>14 DEF r, s

\* One entry of the trail is popped.
LEMMA PoppedFacts ==
  ASSUME NEW M, M \subseteq Assignments, dLevel \in Nat, TrailOK(trail, dLevel, M),
         NEW j \in 1 .. Len(trail), NEW s, Learning(s, j, M)
  PROVE  Learning(Popped(s, trail[j]), j - 1, M)
<1> DEFINE e == trail[j]
           v == VAR(e.lit)
           scored == IF e.ante = << >> THEN s.orders
                     ELSE UNION {updateScores(o, ScoredClause(o, e)) : o \in s.orders}
           freed(os) == {Freed(o, v) : o \in os}
           after == freed(scored)
           stopped == [s EXCEPT !.orders = after, !.mark = @ \ {v}, !.uip = e.lit]
           r == [s EXCEPT !.orders = after, !.mark = @ \ {v}, !.left = @ - 1]
           next == Marked(r, Reasons(e.ante))
<1>1. /\ s \in Searches /\ IsInjective(s.lower)
      /\ \A x \in s.mark : LevelOf(x) > 1 /\ \E k \in 1 .. Len(trail) : VAR(trail[k].lit) = x /\ (s.uip = 0 => k <= j)
      /\ \A x \in ToSet(s.lower) : RESOLVED(x) /\ LevelOf(x) > 1 /\ LevelOf(x) < dLevel /\ VAR(x) \in s.mark
      /\ \A x \in s.mark : LevelOf(x) < dLevel => \E y \in ToSet(s.lower) : VAR(y) = x
      /\ s.uip = 0 =>
           /\ s.left = Cardinality(AtLevel(s.mark)) /\ s.left >= 1
           /\ \A m \in M : \E k \in 1 .. Len(trail) : VAR(trail[k].lit) \in s.mark /\ NEG(trail[k].lit) \in m
  BY DEF Learning
<1>2. /\ Len(trail) \in Nat /\ DOMAIN trail = 1 .. Len(trail) /\ e \in Entries /\ e.lit \in Literals
      /\ e.ante \in Seq(Literals) /\ v \in Vars
  BY OnTrail, LiteralFacts
<1>3. /\ s.orders \in SUBSET Orders /\ s.mark \in SUBSET Vars /\ s.left \in Int /\ s.lower \in Seq(Literals)
      /\ s.uip \in Literals \cup {0}
  BY <1>1 DEF Searches
<1>4. Popped(s, e) \in Searches
  BY <1>1, <1>2, PoppedType
<1>5. Popped(s, e) = IF s.uip # 0 THEN s
                     ELSE IF v \notin s.mark THEN [s EXCEPT !.orders = freed(@)]
                     ELSE IF s.left = 1 THEN stopped ELSE next
  BY DEF Popped
<1>6. scored \in SUBSET Orders /\ after \in SUBSET Orders
  BY <1>1, <1>2, <1>3, ScoresType, ScoredClauseType, FreedType
<1>7. /\ stopped \in Searches /\ stopped.mark = s.mark \ {v} /\ stopped.uip = e.lit /\ stopped.lower = s.lower
      /\ r \in Searches /\ r.mark = s.mark \ {v} /\ r.left = s.left - 1 /\ r.uip = s.uip /\ r.lower = s.lower
  <2> HIDE DEF after, v, e
  <2>1. s.left - 1 \in Int /\ s.mark \ {v} \in SUBSET Vars
    BY <1>3
  <2> QED
    BY <1>1, <1>2, <1>6, <2>1 DEF Searches
<1> HIDE DEF after, scored, stopped, r, next
<1>8. CASE s.uip # 0
  <2>1. Popped(s, e) = s
    BY <1>5, <1>8
  <2> QED
    BY <2>1, <1>8 DEF Learning
<1>9. CASE s.uip = 0 /\ v \notin s.mark
  <2> DEFINE q == [s EXCEPT !.orders = freed(@)]
  <2>1. Popped(s, e) = q /\ q \in Searches
    BY <1>4, <1>5, <1>9
  <2>2. q.mark = s.mark /\ q.lower = s.lower /\ q.left = s.left /\ q.uip = 0
    BY <1>1, <1>9 DEF Searches
  <2>3. ASSUME NEW x \in s.mark PROVE LevelOf(x) > 1 /\ \E k \in 1 .. Len(trail) : VAR(trail[k].lit) = x /\ k <= j - 1
    <3>1. PICK k \in 1 .. Len(trail) : VAR(trail[k].lit) = x /\ k <= j
      BY <1>1, <1>9
    <3>2. k # j
      BY <3>1, <1>9
    <3>3. k <= j - 1
      BY <3>1, <3>2
    <3> QED
      BY <3>1, <3>3, <1>1
  <2> HIDE DEF q
  <2>4. Learning(q, j - 1, M)
    BY <2>1, <2>2, <2>3, <1>1, <1>9 DEF Learning
  <2> QED
    BY <2>1, <2>4
<1>10. CASE s.uip = 0 /\ v \in s.mark
  <2>1. /\ s.left = Cardinality(AtLevel(s.mark)) /\ s.left \in Nat /\ s.left >= 1
        /\ IsFiniteSet(AtLevel(s.mark)) /\ AtLevel(s.mark) # {}
    <3>1. IsFiniteSet(Vars)
      BY LiteralFacts, FS_Interval DEF Vars
    <3>2. IsFiniteSet(AtLevel(s.mark))
      <4>1. AtLevel(s.mark) \subseteq Vars
        BY <1>3 DEF AtLevel
      <4> QED
        BY <3>1, <4>1, FS_Subset
    <3>3. s.left = Cardinality(AtLevel(s.mark)) /\ s.left >= 1
      BY <1>1, <1>10
    <3>4. s.left # 0
      BY <3>3, <1>3
    <3> QED
      BY <3>2, <3>3, <3>4, FS_CardinalityType, FS_EmptySet
  <2>2. \A x \in s.mark : \E k \in 1 .. Len(trail) : VAR(trail[k].lit) = x /\ k <= j /\ LevelOf(x) = trail[k].dLevel
    <3>1. ASSUME NEW x \in s.mark
          PROVE  \E k \in 1 .. Len(trail) : VAR(trail[k].lit) = x /\ k <= j /\ LevelOf(x) = trail[k].dLevel
      <4>1. PICK k \in 1 .. Len(trail) : VAR(trail[k].lit) = x /\ k <= j
        BY <1>1, <1>10
      <4>2. VAR(x) = x
        BY <1>3, LiteralFacts DEF Vars, VAR
      <4> QED
        BY <4>1, <4>2, OnTrail
    <3> QED
      BY <3>1
  <2>3. e.dLevel = dLevel /\ LevelOf(v) = dLevel /\ v \in AtLevel(s.mark)
    <3>1. PICK w \in s.mark : LevelOf(w) = dLevel
      BY <2>1 DEF AtLevel
    <3>2. PICK k \in 1 .. Len(trail) : VAR(trail[k].lit) = w /\ k <= j /\ trail[k].dLevel = dLevel
      BY <2>2, <3>1
    <3>3. trail[k].dLevel <= e.dLevel /\ e.dLevel \in 1 .. dLevel
      <4>1. k \in 1 .. j
        BY <3>2
      <4> QED
        BY <4>1, <1>2, OnTrail DEF TrailOK, Leveled
    <3>4. e.dLevel = dLevel
      BY <3>2, <3>3
    <3>5. VAR(v) = v
      BY <1>2, LiteralFacts DEF Vars, VAR
    <3>6. LevelOf(v) = e.dLevel
      BY <3>5, OnTrail
    <3> QED
      BY <3>4, <3>6, <1>10 DEF AtLevel
  <2>4. CASE s.left = 1
    <3>1. Popped(s, e) = stopped
      BY <1>5, <1>10, <2>4
    <3>2. AtLevel(s.mark) = {v}
      <4>1. PICK w : AtLevel(s.mark) = {w}
        BY <2>1, <2>4, FS_Singleton
      <4> QED
        BY <4>1, <2>3
    <3>3. stopped.uip # 0
      BY <1>2, <1>7, LiteralFacts
    <3>4. \A x \in stopped.mark : LevelOf(x) < dLevel
      <4>1. ASSUME NEW x \in stopped.mark PROVE LevelOf(x) < dLevel
        <5>1. x \in s.mark /\ x # v
          BY <1>7
        <5>2. LevelOf(x) # dLevel
          BY <5>1, <3>2 DEF AtLevel
        <5>3. LevelOf(x) \in 1 .. dLevel
          BY <5>1, <2>2, OnTrail
        <5> QED
          BY <5>2, <5>3
      <4> QED
        BY <4>1
    <3>5. ASSUME NEW m \in M PROVE NEG(stopped.uip) \in m \/ \E x \in ToSet(stopped.lower) : x \in m
      <4>1. PICK k \in 1 .. Len(trail) : VAR(trail[k].lit) \in s.mark /\ NEG(trail[k].lit) \in m
        BY <1>1, <1>10
      <4>2. CASE k = j
        BY <4>1, <4>2, <1>7
      <4>3. CASE k # j
        <5>1. VAR(trail[k].lit) # v
          BY <4>3, <1>2 DEF TrailOK, Distinct
        <5>2. VAR(trail[k].lit) \in stopped.mark
          BY <4>1, <5>1, <1>7
        <5>3. LevelOf(VAR(trail[k].lit)) < dLevel
          BY <5>2, <3>4
        <5>4. PICK x \in ToSet(s.lower) : VAR(x) = VAR(trail[k].lit)
          BY <1>1, <4>1, <5>3
        <5>5. RESOLVED(x) /\ x \in Literals
          BY <1>1, <1>3, <5>4 DEF ToSet
        <5>6. x = NEG(trail[k].lit)
          <6>1. trail[k].lit \in Literals /\ SET(trail[k].lit)
            BY <1>2, OnTrail DEF SET, Assigned
          <6>2. RESOLVED(NEG(trail[k].lit)) /\ VAR(NEG(trail[k].lit)) = VAR(trail[k].lit) /\ NEG(trail[k].lit) \in Literals
            BY <6>1, LiteralFacts DEF SET, RESOLVED
          <6> QED
            BY <6>2, <5>4, <5>5, OnTrail
        <5> QED
          BY <4>1, <5>4, <5>6, <1>7
      <4> QED
        BY <4>2, <4>3
    <3>6. \A x \in stopped.mark : LevelOf(x) > 1 /\ \E k \in 1 .. Len(trail) : VAR(trail[k].lit) = x
      BY <1>1, <1>7
    <3>7. \A x \in ToSet(stopped.lower) :
             RESOLVED(x) /\ LevelOf(x) > 1 /\ LevelOf(x) < dLevel /\ VAR(x) \in stopped.mark
      <4>1. ASSUME NEW x \in ToSet(s.lower) PROVE VAR(x) # v
        <5>1. x \in Literals /\ RESOLVED(x) /\ LevelOf(x) < dLevel
          BY <1>1, <1>3 DEF ToSet
        <5>2. LevelOf(VAR(x)) = LevelOf(x) /\ LevelOf(x) \in 1 .. dLevel
          BY <5>1, ResolvedLevel
        <5> QED
          BY <5>1, <5>2, <2>3
      <4> QED
        BY <4>1, <1>1, <1>7
    <3>8. \A x \in stopped.mark : LevelOf(x) < dLevel => \E y \in ToSet(stopped.lower) : VAR(y) = x
      BY <1>1, <1>7
    <3>9. \E k \in 1 .. Len(trail) : trail[k].lit = stopped.uip /\ trail[k].dLevel = dLevel
      BY <1>7, <2>3
    <3>10. IsInjective(stopped.lower) /\ stopped \in Searches
      BY <1>1, <1>7
    <3>11. Learning(stopped, j - 1, M)
      BY <3>3, <3>4, <3>5, <3>6, <3>7, <3>8, <3>9, <3>10 DEF Learning
    <3> QED
      BY <3>1, <3>11
  <2>5. CASE s.left # 1
    <3>1. Popped(s, e) = next
      BY <1>5, <1>10, <2>5
    <3> DEFINE rest == AtLevel(s.mark) \ {v}
    <3>2. IsFiniteSet(rest) /\ Cardinality(rest) = s.left - 1 /\ Cardinality(rest) \in Nat /\ Cardinality(rest) >= 1
      <4>1. IsFiniteSet(rest) /\ Cardinality(rest) = Cardinality(AtLevel(s.mark)) - 1
        <5>1. IsFiniteSet(AtLevel(s.mark)) /\ v \in AtLevel(s.mark)
          BY <2>1, <2>3
        <5> QED
          BY <5>1, FS_RemoveElement
      <4> QED
        BY <4>1, <2>1, <2>5
    <3>3. e.ante # << >>
      <4>1. rest # {}
        BY <3>2, FS_EmptySet
      <4>2. PICK w \in s.mark : w # v /\ LevelOf(w) = dLevel
        BY <4>1 DEF AtLevel
      <4>3. PICK k \in 1 .. Len(trail) : VAR(trail[k].lit) = w /\ k <= j /\ trail[k].dLevel = dLevel
        BY <2>2, <4>2
      <4>4. k \in 1 .. j - 1 /\ j \in DOMAIN trail
        BY <4>2, <4>3, <1>2
      <4>5. ~ (trail[k].dLevel < e.dLevel)
        BY <4>3, <2>3
      <4> QED
        BY <4>4, <4>5 DEF TrailOK, Decided
    <3> DEFINE c == Reasons(e.ante)
    <3>4. /\ c \in Seq(Literals) /\ IsInjective(c)
          /\ \A x \in ToSet(c) : RESOLVED(x) /\ \E k \in 1 .. j - 1 : trail[k].lit = NEG(x) /\ VAR(trail[k].lit) = VAR(x)
          /\ \A m \in M : e.lit \in m \/ \E x \in ToSet(c) : x \in m
      BY <3>3, ReasonsFacts
    <3> HIDE DEF c
    <3>5. PICK new \in SUBSET ToSet(c) :
           /\ new = {x \in ToSet(c) : LevelOf(x) > 1 /\ VAR(x) \notin r.mark}
           /\ next.mark = r.mark \cup {VAR(x) : x \in new}
           /\ ToSet(next.lower) = ToSet(r.lower) \cup {x \in new : LevelOf(x) < dLevel}
           /\ IsInjective(r.lower) /\ (\A x \in ToSet(r.lower) : VAR(x) \in r.mark) => IsInjective(next.lower)
           /\ IsFiniteSet({VAR(x) : x \in {x \in new : LevelOf(x) = dLevel}})
           /\ next.left = r.left + Cardinality({VAR(x) : x \in {x \in new : LevelOf(x) = dLevel}})
           /\ next.uip = r.uip /\ next.orders = r.orders
      BY <3>4, <1>7, MarkedFacts DEF next, c
    <3>6. ASSUME NEW x \in ToSet(c)
          PROVE  /\ x \in Literals /\ RESOLVED(x) /\ VAR(x) # v /\ LevelOf(VAR(x)) = LevelOf(x) /\ LevelOf(x) \in 1 .. dLevel
                 /\ \E k \in 1 .. Len(trail) : VAR(trail[k].lit) = VAR(x) /\ k <= j - 1
                 /\ \E k \in 1 .. Len(trail) : /\ trail[k].lit = NEG(x) /\ VAR(trail[k].lit) = VAR(x)
                                              /\ trail[k].dLevel = LevelOf(x)
      <4>1. x \in Literals /\ RESOLVED(x)
        BY <3>4 DEF ToSet
      <4>2. PICK k \in 1 .. j - 1 : trail[k].lit = NEG(x) /\ VAR(trail[k].lit) = VAR(x)
        BY <3>4
      <4>3. k \in 1 .. Len(trail) /\ k <= j - 1 /\ k # j
        BY <1>2, <4>2
      <4>4. VAR(x) # v
        BY <4>2, <4>3, <1>2 DEF TrailOK, Distinct
      <4> QED
        BY <4>1, <4>2, <4>3, <4>4, ResolvedLevel
    <3>7. \A x \in ToSet(r.lower) : VAR(x) # v /\ VAR(x) \in r.mark
      <4>1. ASSUME NEW x \in ToSet(s.lower) PROVE VAR(x) # v
        <5>1. x \in Literals /\ RESOLVED(x) /\ LevelOf(x) < dLevel
          BY <1>1, <1>3 DEF ToSet
        <5>2. LevelOf(VAR(x)) = LevelOf(x) /\ LevelOf(x) \in 1 .. dLevel
          BY <5>1, ResolvedLevel
        <5> QED
          BY <5>1, <5>2, <2>3
      <4> QED
        BY <4>1, <1>1, <1>7
    <3>8. IsInjective(next.lower) /\ next.uip = 0 /\ next \in Searches
      BY <3>1, <3>5, <3>7, <1>1, <1>4, <1>7, <1>10
    <3>9. \A x \in next.mark : LevelOf(x) > 1 /\ \E k \in 1 .. Len(trail) : VAR(trail[k].lit) = x /\ k <= j - 1
      <4>1. ASSUME NEW x \in r.mark
            PROVE  LevelOf(x) > 1 /\ \E k \in 1 .. Len(trail) : VAR(trail[k].lit) = x /\ k <= j - 1
        <5>1. x \in s.mark /\ x # v
          BY <1>7
        <5>2. PICK k \in 1 .. Len(trail) : VAR(trail[k].lit) = x /\ k <= j
          BY <5>1, <2>2
        <5>3. k # j
          BY <5>1, <5>2
        <5>4. k <= j - 1
          BY <5>2, <5>3
        <5> QED
          BY <5>1, <5>2, <5>4, <1>1
      <4>2. ASSUME NEW y \in new
            PROVE  LevelOf(VAR(y)) > 1 /\ \E k \in 1 .. Len(trail) : VAR(trail[k].lit) = VAR(y) /\ k <= j - 1
        BY <3>5, <3>6
      <4> QED
        BY <4>1, <4>2, <3>5
    <3>10. \A x \in ToSet(next.lower) :
             RESOLVED(x) /\ LevelOf(x) > 1 /\ LevelOf(x) < dLevel /\ VAR(x) \in next.mark
      <4>1. \A x \in ToSet(r.lower) : RESOLVED(x) /\ LevelOf(x) > 1 /\ LevelOf(x) < dLevel /\ VAR(x) \in next.mark
        BY <1>1, <1>7, <3>5, <3>7
      <4>2. \A x \in new : RESOLVED(x) /\ LevelOf(x) > 1 /\ VAR(x) \in next.mark
        BY <3>5, <3>6
      <4> QED
        BY <4>1, <4>2, <3>5
    <3>11. \A x \in next.mark : LevelOf(x) < dLevel => \E y \in ToSet(next.lower) : VAR(y) = x
      <4>1. \A x \in r.mark : LevelOf(x) < dLevel => \E y \in ToSet(next.lower) : VAR(y) = x
        BY <1>1, <1>7, <3>5
      <4>2. ASSUME NEW y \in new, LevelOf(VAR(y)) < dLevel PROVE y \in ToSet(next.lower)
        BY <4>2, <3>5, <3>6
      <4> QED
        BY <4>1, <4>2, <3>5
    <3> DEFINE now == {VAR(x) : x \in {x \in new : LevelOf(x) = dLevel}}
    <3>12. AtLevel(next.mark) = rest \cup now /\ rest \cap now = {}
      <4>1. ASSUME NEW x \in AtLevel(next.mark) PROVE x \in rest \cup now
        <5>1. x \in next.mark /\ LevelOf(x) = dLevel
          BY DEF AtLevel
        <5>2. CASE x \in r.mark
          BY <5>1, <5>2, <1>7 DEF AtLevel
        <5>3. CASE x \notin r.mark
          <6>1. PICK y \in new : x = VAR(y)
            BY <5>1, <5>3, <3>5
          <6>2. LevelOf(y) = dLevel
            BY <5>1, <6>1, <3>6
          <6> QED
            BY <6>1, <6>2
        <5> QED
          BY <5>2, <5>3
      <4>2. ASSUME NEW x \in rest PROVE x \in AtLevel(next.mark) /\ x \notin now
        <5>1. x \in r.mark /\ LevelOf(x) = dLevel
          BY <1>7 DEF AtLevel
        <5> QED
          BY <5>1, <3>5 DEF AtLevel
      <4>3. ASSUME NEW y \in new, LevelOf(y) = dLevel PROVE VAR(y) \in AtLevel(next.mark)
        BY <4>3, <3>5, <3>6 DEF AtLevel
      <4>4. \A x \in now : x \in AtLevel(next.mark)
        BY <4>3
      <4> HIDE DEF rest, now
      <4> QED
        BY <4>1, <4>2, <4>4
    <3>13. next.left = Cardinality(AtLevel(next.mark)) /\ next.left >= 1
      <4>1. IsFiniteSet(now) /\ Cardinality(now) \in Nat
        BY <3>5, FS_CardinalityType
      <4>2. next.left = s.left - 1 + Cardinality(now)
        BY <3>5, <1>7
      <4> HIDE DEF rest, now
      <4>3. Cardinality(rest \cup now) = Cardinality(rest) + Cardinality(now) - Cardinality(rest \cap now)
        BY <4>1, <3>2, FS_Union
      <4>4. Cardinality(rest \cap now) = 0
        BY <3>12, FS_EmptySet
      <4> QED
        BY <3>2, <3>12, <4>1, <4>2, <4>3, <4>4
    <3>14. ASSUME NEW m \in M
           PROVE  \E k \in 1 .. Len(trail) : VAR(trail[k].lit) \in next.mark /\ NEG(trail[k].lit) \in m
      <4>1. PICK k \in 1 .. Len(trail) : VAR(trail[k].lit) \in s.mark /\ NEG(trail[k].lit) \in m
        BY <1>1, <1>10
      <4>2. CASE VAR(trail[k].lit) # v
        BY <4>1, <4>2, <1>7, <3>5
      <4>3. CASE VAR(trail[k].lit) = v
        <5>1. k = j
          BY <4>3, <1>2 DEF TrailOK, Distinct
        <5>2. e.lit \notin m
          BY <4>1, <5>1, <1>2, AssignmentFacts
        <5>3. PICK x \in ToSet(c) : x \in m
          BY <3>4, <5>2
        <5>4. PICK i \in 1 .. Len(trail) : /\ trail[i].lit = NEG(x) /\ VAR(trail[i].lit) = VAR(x)
                                          /\ trail[i].dLevel = LevelOf(x)
          BY <3>6
        <5>5. LevelOf(x) # 1
          <6>1. LevelOf(x) = 1 => NEG(x) \in m
            BY <5>4, <1>2 DEF TrailOK, Justified
          <6> QED
            BY <6>1, <5>3, <3>6, AssignmentFacts
        <5>6. LevelOf(x) > 1
          BY <5>5, <3>6
        <5>7. VAR(x) \in next.mark
          BY <5>6, <3>5
        <5>8. NEG(trail[i].lit) = x
          BY <5>4, <3>6, LiteralFacts
        <5> QED
          BY <5>3, <5>4, <5>7, <5>8
      <4> QED
        BY <4>2, <4>3
    <3>15. Learning(next, j - 1, M)
      BY <3>8, <3>9, <3>10, <3>11, <3>13, <3>14 DEF Learning
    <3> QED
      BY <3>1, <3>15
  <2> QED
    BY <2>4, <2>5
<1> QED
  BY <1>8, <1>9, <1>10

\* The entries of a sequence are popped one after the other.
Pops(s, q) == FoldLeft(Popped, s, q)

\* The steps of it.
PopsSoFar(F, s, q) ==
  /\ F \in [0 .. Len(q) -> Searches] /\ F[0] = s /\ Pops(s, q) = F[Len(q)]
  /\ \A i \in 0 .. Len(q) - 1 : F[i + 1] = Popped(F[i], q[i + 1])

LEMMA PopsSteps ==
  ASSUME NEW s \in Searches, NEW q \in Seq(Entries)
  PROVE  \E F : PopsSoFar(F, s, q)
<1> DEFINE n == Len(q)
           T == Searches
           base == s
           step == [p \in T \X (1 .. n) |-> Popped(p[1], q[p[2]])]
           Is(h) == h = [u \in SUBSET DOMAIN q |->
                           IF u = {} THEN base ELSE Popped(h[u \ {Max(u)}], q[Max(u)])]
           it == CHOOSE h : Is(h)
<1>1. n \in Nat /\ DOMAIN q = 1 .. n /\ (\A i \in 1 .. n : q[i] \in Entries) /\ base \in T
  OBVIOUS
<1>0. \A x \in T, e \in Entries : Popped(x, e) \in T
  BY PoppedType
<1>2. step \in [T \X (1 .. n) -> T]
  <2>1. \A p \in T \X (1 .. n) : p[1] \in T /\ q[p[2]] \in Entries
    BY <1>1
  <2> HIDE DEF T
  <2> QED
    BY <1>0, <2>1
<1>3. \E h : Is(h)
  <2>1. PICK h : Folds(h, T, base, n, step)
    <3> HIDE DEF step, n, T, base
    <3> QED
      BY <1>1, <1>2, Folding
  <2> HIDE DEF T
  <2>2. ASSUME NEW u \in SUBSET (1 .. n), u # {}
        PROVE h[u] = Popped(h[u \ {Max(u)}], q[Max(u)])
    <3>1. <<h[u \ {Max(u)}], Max(u)>> \in T \X (1 .. n)
      BY <2>1, <2>2, <1>1, GreatestUpTo DEF Folds
    <3> QED
      BY <2>1, <2>2, <3>1 DEF Folds
  <2>3. Is(h)
    BY <2>1, <2>2, <1>1, Zenon DEF Folds
  <2> HIDE DEF Is
  <2> QED
    BY <2>3, Zenon
<1>4. Is(it)
  BY <1>3, Zenon
<1>5. Pops(s, q) = it[1 .. n]
  BY <1>1 DEF Pops, FoldLeft, MapThenFoldSet
<1> HIDE DEF it, T
<1>6. Computes(it, T, base, n, step)
  BY <1>1, <1>4, GreatestUpTo DEF Computes
<1>7. PICK F : SoFar(F, it, T, base, n, step)
  <2> HIDE DEF step, n, base
  <2> QED
    BY <1>1, <1>2, <1>6, FoldedSoFar
<1>8. \A i \in 0 .. n - 1 : <<F[i], i + 1>> \in T \X (1 .. n)
  <2> HIDE DEF step, n
  <2> QED
    BY <1>1, <1>7 DEF SoFar
<1> QED
  BY <1>5, <1>7, <1>8 DEF SoFar, PopsSoFar, T

\* At the end of it the learnt clause is known.
LEMMA ResolvedFacts ==
  ASSUME NEW M, M \subseteq Assignments, dLevel \in Nat, dLevel > 1, TrailOK(trail, dLevel, M),
         NEW c, ClauseOK(c, M), \A x \in ToSet(c) : RESOLVED(x), \E x \in ToSet(c) : LevelOf(x) = dLevel,
         NEW o \in Orders
  PROVE  Learning(Resolved(c, o), 0, M) /\ Resolved(c, o).uip # 0
<1> DEFINE s == Marked([mark |-> {}, lower |-> << >>, left |-> 0, uip |-> 0, orders |-> updateScores(o, c)], c)
           q == Reverse(trail)
           n == Len(trail)
           r == Resolved(c, o)
<1>1. Learning(s, n, M)
  BY LearningStarts
<1>2. r = Pops(s, q)
  BY DEF Resolved, Pops
<1> HIDE DEF s, r
<1>3. s \in Searches
  BY <1>1 DEF Learning
<1>4. n \in Nat /\ trail \in Seq(Entries) /\ \A i \in 1 .. n : trail[i] \in Entries
  BY OnTrail DEF TrailOK
<1>5. q \in Seq(Entries) /\ Len(q) = n /\ \A i \in 1 .. n : q[i] = trail[(n - i) + 1]
  <2>1. q = [i \in 1 .. n |-> trail[(n - i) + 1]]
    BY DEF Reverse
  <2>2. \A i \in 1 .. n : (n - i) + 1 \in 1 .. n
    BY <1>4
  <2>3. q \in [1 .. n -> Entries]
    BY <1>4, <2>1, <2>2
  <2> QED
    BY <1>4, <2>1, <2>3
<1> HIDE DEF q, n
<1>6. PICK F : PopsSoFar(F, s, q)
  BY <1>3, <1>5, PopsSteps
<1>7. /\ F[0] = s /\ r = F[n]
      /\ \A i \in 0 .. n - 1 : F[i + 1] = Popped(F[i], q[i + 1])
  BY <1>2, <1>5, <1>6 DEF PopsSoFar
<1> DEFINE P == {i \in 0 .. n : Learning(F[i], n - i, M)}
<1>8. 0 \in P
  <2>1. n - 0 = n /\ 0 \in 0 .. n
    BY <1>4
  <2> QED
    BY <1>1, <1>7, <2>1
<1>9. ASSUME NEW i \in 0 .. n - 1, i \in P PROVE i + 1 \in P
  <2>1. n - i \in 1 .. n /\ i + 1 \in 1 .. n /\ (n - (i + 1)) + 1 = n - i /\ (n - i) - 1 = n - (i + 1)
    BY <1>4
  <2>2. F[i + 1] = Popped(F[i], trail[n - i])
    BY <1>5, <1>7, <2>1
  <2>3. Learning(F[i], n - i, M)
    BY <1>9
  <2>4. Learning(Popped(F[i], trail[n - i]), (n - i) - 1, M)
    BY <2>1, <2>3, PoppedFacts DEF n
  <2> QED
    BY <2>1, <2>2, <2>4
<1>10. Learning(r, 0, M)
  <2>0. n \in Nat /\ n \in 0 .. n
    BY <1>4
  <2> HIDE DEF P
  <2>3. \A i \in 0 .. n : i \in P
    BY <2>0, <1>8, <1>9, InductionUpTo
  <2>1. n \in P
    BY <2>0, <2>3
  <2>2. n - n = 0
    BY <1>4
  <2> QED
    BY <1>7, <2>1, <2>2 DEF P
<1>11. r.uip # 0
  <2> SUFFICES ASSUME r.uip = 0 PROVE FALSE
    OBVIOUS
  <2>1. r.left = Cardinality(AtLevel(r.mark)) /\ r.left >= 1
        /\ \A v \in r.mark : \E k \in 1 .. n : k <= 0
    BY <1>10 DEF Learning, n
  <2>2. AtLevel(r.mark) = {}
    BY <1>4, <2>1 DEF AtLevel
  <2> QED
    BY <2>1, <2>2, FS_EmptySet
<1> QED
  BY <1>10, <1>11 DEF r

\* A sequence without repetitions is as long as its set is large.
LEMMA InjectiveLength ==
  ASSUME NEW S, NEW s \in Seq(S), IsInjective(s)
  PROVE  IsFiniteSet(ToSet(s)) /\ Cardinality(ToSet(s)) = Len(s)
<1>1. Len(s) \in Nat /\ DOMAIN s = 1 .. Len(s)
  OBVIOUS
<1>2. s \in [1 .. Len(s) -> ToSet(s)] /\ \A y \in ToSet(s) : \E i \in 1 .. Len(s) : s[i] = y
  BY <1>1 DEF ToSet
<1>3. s \in Bijection(1 .. Len(s), ToSet(s))
  BY <1>1, <1>2 DEF Bijection, Injection, Surjection, IsInjective
<1>4. IsFiniteSet(1 .. Len(s)) /\ Cardinality(1 .. Len(s)) = Len(s)
  BY <1>1, FS_Interval
<1>5. ExistsBijection(1 .. Len(s), ToSet(s))
  BY <1>3 DEF ExistsBijection
<1> QED
  BY <1>4, <1>5, FS_Bijection

\* A clause with one of its literals moved to the front is the same clause.
LEMMA FirstFacts ==
  ASSUME NEW S, NEW c \in Seq(S), IsInjective(c), NEW l \in ToSet(c)
  PROVE  /\ First(c, l) \in Seq(S) /\ First(c, l)[1] = l /\ Len(First(c, l)) = Len(c)
         /\ ToSet(First(c, l)) = ToSet(c) /\ IsInjective(First(c, l))
         /\ \A k \in 2 .. Len(c) : First(c, l)[k] \in ToSet(c) \ {l}
<1> DEFINE r == Only(c, ToSet(c) \ {l})
           f == First(c, l)
           one == <<l>>
<1>1. r \in Seq(S) /\ ToSet(r) = ToSet(c) \cap (ToSet(c) \ {l}) /\ IsInjective(r)
  BY OnlyFacts
<1>2. f = one \o r
  BY DEF First
<1> HIDE DEF r, f
<1>3. l \in S
  BY DEF ToSet
<1>4. one \in Seq(S) /\ Len(one) = 1 /\ one[1] = l /\ ToSet(one) = {l} /\ IsInjective(one)
  BY <1>3 DEF ToSet, IsInjective
<1> HIDE DEF one
<1>5. f \in Seq(S) /\ ToSet(f) = ToSet(c) /\ IsInjective(f)
  <2>1. \A x \in ToSet(one) : x \notin ToSet(r)
    BY <1>1, <1>4
  <2>2. f \in Seq(S)
    BY <1>1, <1>2, <1>4
  <2>3. ToSet(f) = ToSet(one) \cup ToSet(r)
    BY <1>1, <1>2, <1>4, JoinedFacts
  <2>4. IsInjective(f)
    BY <1>1, <1>2, <1>4, <2>1, JoinedFacts
  <2> QED
    BY <2>2, <2>3, <2>4, <1>1, <1>4
<1>6. Len(f) = Len(c)
  BY <1>5, InjectiveLength
<1>7. Len(f) = 1 + Len(r) /\ f[1] = l /\ \A k \in 1 .. Len(r) : f[k + 1] = r[k]
  <2>1. Len(r) \in Nat
    BY <1>1
  <2>2. /\ Len(f) = Len(one) + Len(r)
        /\ \A i \in 1 .. Len(one) + Len(r) : f[i] = IF i <= Len(one) THEN one[i] ELSE r[i - Len(one)]
    <3>1. one \in Seq(S) /\ r \in Seq(S)
      BY <1>1, <1>4
    <3>2. /\ Len(one \o r) = Len(one) + Len(r)
          /\ \A i \in 1 .. Len(one) + Len(r) : (one \o r)[i] = IF i <= Len(one) THEN one[i] ELSE r[i - Len(one)]
      BY ONLY <3>1, ConcatProperties
    <3> QED
      BY <3>2, <1>2
  <2>3. \A k \in 1 .. Len(r) : k + 1 \in 1 .. 1 + Len(r) /\ ~(k + 1 <= 1) /\ (k + 1) - 1 = k
    BY <2>1
  <2>4. 1 \in 1 .. 1 + Len(r)
    BY <2>1
  <2> QED
    BY <1>4, <2>2, <2>3, <2>4
<1>8. ASSUME NEW k \in 2 .. Len(c) PROVE f[k] \in ToSet(c) \ {l}
  <2>1. k - 1 \in 1 .. Len(r) /\ (k - 1) + 1 = k
    BY <1>1, <1>6, <1>7
  <2>2. r[k - 1] \in ToSet(r)
    BY <2>1, <1>1 DEF ToSet
  <2> QED
    BY <2>1, <2>2, <1>1, <1>7
<1> QED
  BY <1>5, <1>6, <1>7, <1>8 DEF f

\* The clause that is learnt, and the level it asserts its first literal at.
LearntOK(c, a, M) ==
  /\ c \in Seq(Literals) /\ c # << >> /\ IsInjective(c) /\ \A m \in M : Holds(c, m)
  /\ a \in 1 .. dLevel - 1 /\ (Len(c) > 1 <=> a > 1)
  /\ \E k \in 1 .. Len(trail) : trail[k].lit = NEG(c[1]) /\ trail[k].dLevel = dLevel
  /\ \A k \in 2 .. Len(c) : \E i \in 1 .. Len(trail) : trail[i].lit = NEG(c[k]) /\ trail[i].dLevel <= a

\* A literal that is dropped as redundant is not needed.
LEMMA RedundantFacts ==
  ASSUME NEW M, M \subseteq Assignments, TrailOK(trail, dLevel, M),
         NEW s, Learning(s, 0, M), s.uip # 0, NEW m \in M, NEG(s.uip) \notin m
  PROVE  \E x \in ToSet(s.lower) : x \in m /\ NotRedundant(s, x)
<1>1. /\ s \in Searches
      /\ \A x \in ToSet(s.lower) : RESOLVED(x) /\ LevelOf(x) > 1 /\ LevelOf(x) < dLevel /\ VAR(x) \in s.mark
      /\ \A v \in s.mark : LevelOf(v) < dLevel => \E x \in ToSet(s.lower) : VAR(x) = v
      /\ \A v \in s.mark : LevelOf(v) < dLevel
      /\ \E x \in ToSet(s.lower) : x \in m
  BY DEF Learning
<1>2. \A x \in ToSet(s.lower) : x \in Literals /\ RESOLVED(x)
  BY <1>1 DEF Searches, ToSet
<1>3. Len(trail) \in Nat
  BY OnTrail
<1> DEFINE S == {i \in 1 .. Len(trail) : NEG(trail[i].lit) \in ToSet(s.lower) /\ NEG(trail[i].lit) \in m}
<1>4. ASSUME NEW x \in ToSet(s.lower)
      PROVE  \E i \in 1 .. Len(trail) : /\ trail[i].lit = NEG(x) /\ NEG(trail[i].lit) = x
                                       /\ VAR(x) = VAR(trail[i].lit)
  <2>1. x \in Literals /\ RESOLVED(x) /\ NEG(NEG(x)) = x
    BY <1>2, LiteralFacts
  <2>2. PICK i \in 1 .. Len(trail) : trail[i].lit = NEG(x) /\ VAR(x) = VAR(trail[i].lit)
    BY <2>1, OnTrail
  <2> QED
    BY <2>1, <2>2
<1>5. S # {} /\ S \in SUBSET Nat
  BY <1>1, <1>4
<1>6. PICK i \in S : \A j \in S : i <= j
  BY <1>5, LeastNatural
<1> DEFINE x == NEG(trail[i].lit)
<1>7. i \in 1 .. Len(trail) /\ x \in ToSet(s.lower) /\ x \in m /\ x \in Literals /\ trail[i].lit \in Literals
  BY <1>2, <1>6, OnTrail
<1>8. AnteOf(x) = trail[i].ante /\ trail[i].lit \notin m
  <2>1. VAR(x) = VAR(trail[i].lit)
    BY <1>7, LiteralFacts
  <2> QED
    BY <2>1, <1>7, OnTrail, AssignmentFacts
<1>9. ASSUME ~ NotRedundant(s, x) PROVE FALSE
  <2>1. trail[i].ante # << >> /\ \A y \in ToSet(Reasons(trail[i].ante)) : VAR(y) \in s.mark
    BY <1>8, <1>9 DEF NotRedundant
  <2> DEFINE r == Reasons(trail[i].ante)
  <2>2. /\ r \in Seq(Literals)
        /\ \A y \in ToSet(r) : RESOLVED(y) /\ \E k \in 1 .. i - 1 : trail[k].lit = NEG(y) /\ VAR(trail[k].lit) = VAR(y)
        /\ trail[i].lit \in m \/ \E y \in ToSet(r) : y \in m
    BY <1>7, <2>1, ReasonsFacts
  <2>3. PICK y \in ToSet(r) : y \in m
    BY <1>8, <2>2
  <2>4. VAR(y) \in s.mark /\ y \in Literals /\ RESOLVED(y)
    BY <2>1, <2>2, <2>3 DEF ToSet
  <2>5. PICK k \in 1 .. i - 1 : trail[k].lit = NEG(y)
    BY <2>2, <2>3
  <2>6. PICK z \in ToSet(s.lower) : VAR(z) = VAR(y)
    BY <1>1, <2>4
  <2>7. z = y
    BY <1>2, <2>4, <2>6, OnTrail
  <2>8. k \in S
    <3>1. k \in 1 .. Len(trail)
      BY <1>3, <1>7, <2>5
    <3>2. NEG(trail[k].lit) = y
      BY <2>4, <2>5, LiteralFacts
    <3> QED
      BY <3>1, <3>2, <2>3, <2>6, <2>7
  <2>9. i <= k /\ k <= i - 1 /\ i \in Nat
    BY <1>3, <1>6, <1>7, <2>5, <2>8
  <2> QED
    BY <2>9
<1> QED
  BY <1>7, <1>9

\* The clause that is learnt from a conflict.
LEMMA LearntFacts ==
  ASSUME NEW M, M \subseteq Assignments, dLevel \in Nat, dLevel > 1, TrailOK(trail, dLevel, M),
         NEW s, Learning(s, 0, M), s.uip # 0
  PROVE  LearntOK(LearntClause(s), aLevelOf(Kept(s)), M)
<1> DEFINE kept == Kept(s)
           a == aLevelOf(kept)
           top == Only(kept, {l \in ToSet(kept) : LevelOf(l) = a})
           levels == {1} \cup {LevelOf(kept[i]) : i \in DOMAIN kept}
           rest == IF kept = << >> THEN << >> ELSE First(kept, top[1])
           u == <<NEG(s.uip)>>
           learnt == u \o rest
<1>1. /\ s \in Searches /\ IsInjective(s.lower)
      /\ \A x \in ToSet(s.lower) : RESOLVED(x) /\ LevelOf(x) > 1 /\ LevelOf(x) < dLevel
      /\ \E k \in 1 .. Len(trail) : trail[k].lit = s.uip /\ trail[k].dLevel = dLevel
  BY DEF Learning
<1>2. LearntClause(s) = learnt
  BY DEF LearntClause
<1>3. s.lower \in Seq(Literals) /\ s.uip \in Literals
  BY <1>1 DEF Searches
<1>4. /\ kept \in Seq(Literals) /\ IsInjective(kept)
      /\ ToSet(kept) = {x \in ToSet(s.lower) : NotRedundant(s, x)}
  BY <1>1, <1>3, OnlyFacts DEF Kept
<1> HIDE DEF kept
<1>5. \A x \in ToSet(kept) : x \in Literals /\ RESOLVED(x) /\ LevelOf(x) \in 2 .. dLevel - 1
  <2>1. \A x \in ToSet(kept) : x \in Literals /\ RESOLVED(x) /\ LevelOf(x) > 1 /\ LevelOf(x) < dLevel
    <3>1. \A x \in ToSet(kept) : x \in Literals
      BY <1>4 DEF ToSet
    <3> QED
      BY <3>1, <1>1, <1>4
  <2> QED
    BY <2>1, ResolvedLevel
<1>6. levels = {1} \cup {LevelOf(x) : x \in ToSet(kept)}
  BY DEF ToSet
<1>7. a = Max(levels)
  BY DEF aLevelOf
<1> HIDE DEF levels
<1>8. a \in levels /\ \A y \in levels : y <= a
  <2>1. dLevel - 1 \in Nat /\ levels \in SUBSET (0 .. dLevel - 1) /\ levels # {}
    BY <1>5, <1>6
  <2> QED
    BY <1>7, <2>1, GreatestIn
<1> HIDE DEF a
<1>9. /\ a \in 1 .. dLevel - 1 /\ \A x \in ToSet(kept) : LevelOf(x) <= a
      /\ a > 1 => \E x \in ToSet(kept) : LevelOf(x) = a
  BY <1>5, <1>6, <1>8
<1>10. /\ rest \in Seq(Literals) /\ IsInjective(rest) /\ ToSet(rest) = ToSet(kept)
       /\ (rest = << >> <=> a = 1)
  <2>1. CASE kept = << >>
    <3>1. rest = << >> /\ ToSet(kept) = {}
      BY <2>1 DEF ToSet
    <3>2. a = 1
      BY <3>1, <1>6, <1>8
    <3> QED
      BY <3>1, <3>2, <2>1, <1>4
  <2>2. CASE kept # << >>
    <3>1. kept[1] \in ToSet(kept)
      <4>1. 1 \in DOMAIN kept
        BY <1>4, <2>2
      <4> QED
        BY <4>1 DEF ToSet
    <3>2. a > 1
      BY <3>1, <1>5, <1>9
    <3>3. top \in Seq(Literals) /\ ToSet(top) = ToSet(kept) \cap {l \in ToSet(kept) : LevelOf(l) = a}
      BY <1>4, OnlyFacts
    <3> HIDE DEF top
    <3>4. top # << >>
      <4>1. ToSet(top) # {}
        BY <3>2, <3>3, <1>9
      <4> QED
        BY <4>1 DEF ToSet
    <3>5. top[1] \in ToSet(kept)
      <4>1. 1 \in DOMAIN top
        BY <3>3, <3>4
      <4>2. top[1] \in ToSet(top)
        BY <4>1 DEF ToSet
      <4> QED
        BY <4>2, <3>3
    <3>6. rest = First(kept, top[1])
      BY <2>2
    <3>7. rest \in Seq(Literals) /\ ToSet(rest) = ToSet(kept) /\ IsInjective(rest)
      BY <3>5, <3>6, <1>4, FirstFacts
    <3> HIDE DEF rest
    <3>8. rest # << >>
      <4>1. kept[1] \in ToSet(rest)
        BY <3>1, <3>7
      <4>2. PICK i \in DOMAIN rest : rest[i] = kept[1]
        BY <4>1 DEF ToSet
      <4>3. DOMAIN << >> = {}
        OBVIOUS
      <4> QED
        BY <4>2, <4>3
    <3> QED
      BY <3>2, <3>7, <3>8
  <2> QED
    BY <2>1, <2>2
<1> HIDE DEF rest
<1>11. u \in Seq(Literals) /\ Len(u) = 1 /\ u[1] = NEG(s.uip) /\ ToSet(u) = {NEG(s.uip)} /\ IsInjective(u)
  <2>1. NEG(s.uip) \in Literals
    BY <1>3, LiteralFacts
  <2> QED
    BY <2>1 DEF ToSet, IsInjective
<1> HIDE DEF u
<1>12. PICK k \in 1 .. Len(trail) : trail[k].lit = s.uip /\ trail[k].dLevel = dLevel
  BY <1>1
<1>13. \A x \in ToSet(u) : x \notin ToSet(rest)
  <2>1. LevelOf(NEG(s.uip)) = dLevel
    <3>1. VAR(NEG(s.uip)) = VAR(trail[k].lit)
      BY <1>3, <1>12, LiteralFacts
    <3> QED
      BY <3>1, <1>12, OnTrail
  <2>2. NEG(s.uip) \notin ToSet(kept)
    BY <2>1, <1>5
  <2> QED
    BY <2>2, <1>10, <1>11
<1>14. learnt \in Seq(Literals) /\ IsInjective(learnt) /\ ToSet(learnt) = {NEG(s.uip)} \cup ToSet(kept)
  <2>1. learnt \in Seq(Literals)
    BY <1>10, <1>11
  <2>2. ToSet(learnt) = ToSet(u) \cup ToSet(rest)
    BY <1>10, <1>11, JoinedFacts
  <2>3. IsInjective(learnt)
    BY <1>10, <1>11, <1>13, JoinedFacts
  <2> QED
    BY <2>1, <2>2, <2>3, <1>10, <1>11
<1>15. /\ Len(rest) \in Nat /\ Len(learnt) = 1 + Len(rest) /\ learnt[1] = NEG(s.uip)
       /\ \A j \in 2 .. Len(learnt) : j - 1 \in 1 .. Len(rest) /\ learnt[j] = rest[j - 1]
  <2>1. Len(rest) \in Nat
    BY <1>10
  <2>2. /\ Len(learnt) = Len(u) + Len(rest)
        /\ \A i \in 1 .. Len(u) + Len(rest) : learnt[i] = IF i <= Len(u) THEN u[i] ELSE rest[i - Len(u)]
    <3>1. u \in Seq(Literals) /\ rest \in Seq(Literals)
      BY <1>10, <1>11
    <3> QED
      BY <3>1, ConcatProperties
  <2> HIDE DEF learnt
  <2>3. Len(learnt) = 1 + Len(rest)
    BY <1>11, <2>2
  <2>4. \A j \in 2 .. Len(learnt) : j \in 1 .. 1 + Len(rest) /\ ~(j <= 1) /\ j - 1 \in 1 .. Len(rest)
    BY <2>1, <2>3
  <2>5. 1 \in 1 .. 1 + Len(rest)
    BY <2>1
  <2> QED
    BY <1>11, <2>1, <2>2, <2>3, <2>4, <2>5
<1> HIDE DEF learnt
<1>16. learnt # << >> /\ (Len(learnt) > 1 <=> a > 1)
  <2>1. rest = << >> <=> Len(rest) = 0
    BY <1>10
  <2> QED
    BY <2>1, <1>9, <1>10, <1>14, <1>15
<1>17. trail[k].lit = NEG(learnt[1])
  BY <1>3, <1>12, <1>15, LiteralFacts
<1>18. ASSUME NEW j \in 2 .. Len(learnt) PROVE \E i \in 1 .. Len(trail) : trail[i].lit = NEG(learnt[j]) /\ trail[i].dLevel <= a
  <2>1. learnt[j] \in ToSet(kept)
    <3>1. j - 1 \in DOMAIN rest /\ learnt[j] = rest[j - 1]
      BY <1>10, <1>15
    <3>2. rest[j - 1] \in ToSet(rest)
      BY <3>1 DEF ToSet
    <3> QED
      BY <3>1, <3>2, <1>10
  <2>2. learnt[j] \in Literals /\ RESOLVED(learnt[j]) /\ LevelOf(learnt[j]) <= a
    BY <2>1, <1>5, <1>9
  <2>3. PICK i \in 1 .. Len(trail) : trail[i].lit = NEG(learnt[j]) /\ trail[i].dLevel = LevelOf(learnt[j])
    BY <2>2, ResolvedLevel
  <2> QED
    BY <2>2, <2>3
<1>19. ASSUME NEW m \in M PROVE Holds(learnt, m)
  <2>1. \E x \in ToSet(learnt) : x \in m
    <3>1. CASE NEG(s.uip) \in m
      BY <3>1, <1>14
    <3>2. CASE NEG(s.uip) \notin m
      <4>1. PICK x \in ToSet(s.lower) : x \in m /\ NotRedundant(s, x)
        BY <3>2, RedundantFacts
      <4> QED
        BY <4>1, <1>4, <1>14
    <3> QED
      BY <3>1, <3>2
  <2> QED
    BY <2>1 DEF Holds, ToSet
<1>20. LearntOK(learnt, a, M)
  BY <1>9, <1>12, <1>14, <1>16, <1>17, <1>18, <1>19 DEF LearntOK
<1> QED
  BY <1>2, <1>20 DEF a, kept

-----------------------------------------------------------------------------
(* Backtracking, trimming and resetting.                                   *)

\* The entries above a level are freed one after the other.
Freeing(o, q) == FoldLeft(LAMBDA p, e : Freed(p, VAR(e.lit)), o, q)

\* The steps of it.
FreeingSoFar(F, o, q) ==
  /\ F \in [0 .. Len(q) -> Orders] /\ F[0] = o /\ Freeing(o, q) = F[Len(q)]
  /\ \A i \in 0 .. Len(q) - 1 : F[i + 1] = Freed(F[i], VAR(q[i + 1].lit))

LEMMA FreeingSteps ==
  ASSUME NEW o \in Orders, NEW q \in Seq(Entries)
  PROVE  \E F : FreeingSoFar(F, o, q)
<1> DEFINE n == Len(q)
           T == Orders
           base == o
           step == [p \in T \X (1 .. n) |-> Freed(p[1], VAR(q[p[2]].lit))]
           Is(h) == h = [u \in SUBSET DOMAIN q |->
                           IF u = {} THEN base ELSE Freed(h[u \ {Max(u)}], VAR(q[Max(u)].lit))]
           it == CHOOSE h : Is(h)
<1>1. n \in Nat /\ DOMAIN q = 1 .. n /\ (\A i \in 1 .. n : q[i] \in Entries) /\ base \in T
  OBVIOUS
<1>0. \A x \in T, e \in Entries : Freed(x, VAR(e.lit)) \in T
  BY FreedType
<1>2. step \in [T \X (1 .. n) -> T]
  <2>1. \A p \in T \X (1 .. n) : p[1] \in T /\ q[p[2]] \in Entries
    BY <1>1
  <2> HIDE DEF T
  <2> QED
    BY <1>0, <2>1
<1>3. \E h : Is(h)
  <2>1. PICK h : Folds(h, T, base, n, step)
    <3> HIDE DEF step, n, T, base
    <3> QED
      BY <1>1, <1>2, Folding
  <2> HIDE DEF T
  <2>2. ASSUME NEW u \in SUBSET (1 .. n), u # {}
        PROVE h[u] = Freed(h[u \ {Max(u)}], VAR(q[Max(u)].lit))
    <3>1. <<h[u \ {Max(u)}], Max(u)>> \in T \X (1 .. n)
      BY <2>1, <2>2, <1>1, GreatestUpTo DEF Folds
    <3> QED
      BY <2>1, <2>2, <3>1 DEF Folds
  <2>3. Is(h)
    BY <2>1, <2>2, <1>1, Zenon DEF Folds
  <2> HIDE DEF Is
  <2> QED
    BY <2>3, Zenon
<1>4. Is(it)
  BY <1>3, Zenon
<1>5. Freeing(o, q) = it[1 .. n]
  BY <1>1 DEF Freeing, FoldLeft, MapThenFoldSet
<1> HIDE DEF it, T
<1>6. Computes(it, T, base, n, step)
  BY <1>1, <1>4, GreatestUpTo DEF Computes
<1>7. PICK F : SoFar(F, it, T, base, n, step)
  <2> HIDE DEF step, n, base
  <2> QED
    BY <1>1, <1>2, <1>6, FoldedSoFar
<1>8. \A i \in 0 .. n - 1 : <<F[i], i + 1>> \in T \X (1 .. n)
  <2> HIDE DEF step, n
  <2> QED
    BY <1>1, <1>7 DEF SoFar
<1> QED
  BY <1>5, <1>7, <1>8 DEF SoFar, FreeingSoFar, T

LEMMA FreedAboveType ==
  ASSUME NEW s, s.orders \in SUBSET Orders, NEW level, trail \in Seq(Entries)
  PROVE  FreedAbove(s, level) \subseteq Orders
<1> DEFINE q == StillAbove(level, s.uip)
<1>1. q \in Seq(Entries)
  BY OnlyFacts DEF StillAbove
<1>2. FreedAbove(s, level) = {Freeing(o, q) : o \in s.orders}
  BY DEF FreedAbove, Freeing
<1> HIDE DEF q
<1>3. ASSUME NEW o \in s.orders PROVE Freeing(o, q) \in Orders
  <2>1. PICK F : FreeingSoFar(F, o, q)
    BY <1>1, FreeingSteps
  <2> QED
    BY <1>1, <2>1 DEF FreeingSoFar
<1> QED
  BY <1>2, <1>3

\* The satisfied clauses, and what is kept of a trail for each.
Satisfiable == {c \in Seq(Literals) : Satisfied(c)}

LEMMA PickedFacts ==
  ASSUME NEW c \in Satisfiable, NEW v \in Picked(c)
  PROVE  v \in Vars /\ \E l \in ToSet(c) : SET(l) /\ VAR(l) = v
<1> DEFINE true == {l \in ToSet(c) : SET(l)}
           positive == {l \in true : l > 0}
           D == {VAR(l) : l \in true}
<1>1. c \in Seq(Literals) /\ \A l \in ToSet(c) : l \in Literals /\ VAR(l) \in Vars
  <2>1. c \in Seq(Literals)
    BY DEF Satisfiable
  <2>2. \A l \in ToSet(c) : l \in Literals
    BY <2>1 DEF ToSet
  <2> QED
    BY <2>1, <2>2, LiteralFacts
<1>2. true # {}
  BY DEF Satisfiable, Satisfied, ToSet
<1>3. \/ v \in positive
      \/ \E l \in true \ positive : v = VAR(l)
      \/ positive = {} /\ v = Min(D)
  BY DEF Picked
<1>4. CASE v \in positive
  <2>1. v \in ToSet(c) /\ SET(v) /\ VAR(v) = v
    BY <1>4, <1>1 DEF VAR
  <2> QED
    BY <1>1, <2>1
<1>5. CASE \E l \in true \ positive : v = VAR(l)
  BY <1>1, <1>5
<1>6. CASE v = Min(D)
  <2>1. D \in SUBSET Nat /\ D # {}
    BY <1>1, <1>2 DEF Vars
  <2> HIDE DEF D
  <2>2. PICK k \in D : \A j \in D : k <= j
    BY <2>1, LeastNatural
  <2>3. v \in D
    BY <2>2, <1>6 DEF Min
  <2> QED
    BY <2>3, <1>1 DEF D
<1> QED
  BY <1>3, <1>4, <1>5, <1>6

LEMMA KeepingFacts ==
  ASSUME NEW ks \in SUBSET SUBSET Vars, NEW c \in Satisfiable
  PROVE  /\ KeepingOne(ks, c) \in SUBSET SUBSET Vars
         /\ \A kept \in KeepingOne(ks, c) :
              (\E k \in ks : k \subseteq kept) /\ \E l \in ToSet(c) : SET(l) /\ VAR(l) \in kept
<1> SUFFICES ASSUME NEW kept \in KeepingOne(ks, c)
             PROVE  /\ kept \in SUBSET Vars /\ (\E k \in ks : k \subseteq kept)
                    /\ \E l \in ToSet(c) : SET(l) /\ VAR(l) \in kept
  OBVIOUS
<1>1. PICK k \in ks : kept \in Keeping(k, c)
  BY DEF KeepingOne
<1>2. CASE \E l \in ToSet(c) : SET(l) /\ VAR(l) \in k
  <2>1. kept = k
    BY <1>1, <1>2 DEF Keeping
  <2> QED
    BY <1>2, <2>1
<1>3. CASE ~ \E l \in ToSet(c) : SET(l) /\ VAR(l) \in k
  <2>1. PICK v \in Picked(c) : kept = k \cup {v}
    BY <1>1, <1>3 DEF Keeping
  <2> QED
    BY <2>1, PickedFacts
<1> QED
  BY <1>2, <1>3

\* The clauses are gone through one after the other.
Keepings(cs) == FoldLeft(KeepingOne, {{}}, cs)

\* The steps of it.
KeepingsSoFar(F, cs) ==
  /\ F \in [0 .. Len(cs) -> SUBSET SUBSET Vars] /\ F[0] = {{}} /\ Keepings(cs) = F[Len(cs)]
  /\ \A i \in 0 .. Len(cs) - 1 : F[i + 1] = KeepingOne(F[i], cs[i + 1])

LEMMA KeepingsSteps ==
  ASSUME NEW cs \in Seq(Satisfiable)
  PROVE  \E F : KeepingsSoFar(F, cs)
<1> DEFINE n == Len(cs)
           T == SUBSET SUBSET Vars
           base == {{}}
           step == [p \in T \X (1 .. n) |-> KeepingOne(p[1], cs[p[2]])]
           Is(h) == h = [u \in SUBSET DOMAIN cs |->
                           IF u = {} THEN base ELSE KeepingOne(h[u \ {Max(u)}], cs[Max(u)])]
           it == CHOOSE h : Is(h)
<1>1. n \in Nat /\ DOMAIN cs = 1 .. n /\ (\A i \in 1 .. n : cs[i] \in Satisfiable) /\ base \in T
  OBVIOUS
<1>0. \A x \in T, e \in Satisfiable : KeepingOne(x, e) \in T
  BY KeepingFacts
<1>2. step \in [T \X (1 .. n) -> T]
  <2>1. \A p \in T \X (1 .. n) : p[1] \in T /\ cs[p[2]] \in Satisfiable
    BY <1>1
  <2> HIDE DEF T
  <2> QED
    BY <1>0, <2>1
<1>3. \E h : Is(h)
  <2>1. PICK h : Folds(h, T, base, n, step)
    <3> HIDE DEF step, n, T, base
    <3> QED
      BY <1>1, <1>2, Folding
  <2> HIDE DEF T
  <2>2. ASSUME NEW u \in SUBSET (1 .. n), u # {}
        PROVE h[u] = KeepingOne(h[u \ {Max(u)}], cs[Max(u)])
    <3>1. <<h[u \ {Max(u)}], Max(u)>> \in T \X (1 .. n)
      BY <2>1, <2>2, <1>1, GreatestUpTo DEF Folds
    <3> QED
      BY <2>1, <2>2, <3>1 DEF Folds
  <2>3. Is(h)
    BY <2>1, <2>2, <1>1, Zenon DEF Folds
  <2> HIDE DEF Is
  <2> QED
    BY <2>3, Zenon
<1>4. Is(it)
  BY <1>3, Zenon
<1>5. Keepings(cs) = it[1 .. n]
  BY <1>1 DEF Keepings, FoldLeft, MapThenFoldSet
<1> HIDE DEF it, T
<1>6. Computes(it, T, base, n, step)
  BY <1>1, <1>4, GreatestUpTo DEF Computes
<1>7. PICK F : SoFar(F, it, T, base, n, step)
  <2> HIDE DEF step, n, base
  <2> QED
    BY <1>1, <1>2, <1>6, FoldedSoFar
<1>8. \A i \in 0 .. n - 1 : <<F[i], i + 1>> \in T \X (1 .. n)
  <2> HIDE DEF step, n
  <2> QED
    BY <1>1, <1>7 DEF SoFar
<1> QED
  BY <1>5, <1>7, <1>8 DEF SoFar, KeepingsSoFar, T

\* What is kept satisfies every clause.
LEMMA KeptFacts ==
  ASSUME NEW cs \in Seq(Satisfiable)
  PROVE  \A kept \in Keepings(cs) :
           kept \in SUBSET Vars /\ \A i \in 1 .. Len(cs) : \E l \in ToSet(cs[i]) : SET(l) /\ VAR(l) \in kept
<1> DEFINE n == Len(cs)
<1>1. PICK F : KeepingsSoFar(F, cs)
  BY KeepingsSteps
<1>2. /\ F \in [0 .. n -> SUBSET SUBSET Vars] /\ Keepings(cs) = F[n] /\ n \in Nat
      /\ \A i \in 0 .. n - 1 : F[i + 1] = KeepingOne(F[i], cs[i + 1])
      /\ \A i \in 1 .. n : cs[i] \in Satisfiable
  BY <1>1 DEF KeepingsSoFar
<1> DEFINE Done(i, kept) == \A j \in 1 .. i : \E l \in ToSet(cs[j]) : SET(l) /\ VAR(l) \in kept
           P == {i \in 0 .. n : \A kept \in F[i] : Done(i, kept)}
<1>3. 0 \in P
  BY <1>2
<1>4. ASSUME NEW i \in 0 .. n - 1, i \in P PROVE i + 1 \in P
  <2>1. i \in 0 .. n /\ i + 1 \in 1 .. n /\ i + 1 \in 0 .. n
    BY <1>2
  <2>2. F[i] \in SUBSET SUBSET Vars /\ cs[i + 1] \in Satisfiable /\ F[i + 1] = KeepingOne(F[i], cs[i + 1])
    BY <1>2, <2>1
  <2> DEFINE ks == F[i]
             c == cs[i + 1]
             all == F[i + 1]
  <2>4. ks \in SUBSET SUBSET Vars /\ c \in Satisfiable /\ all = KeepingOne(ks, c)
    BY <2>2
  <2> HIDE DEF ks, c, all
  <2>5. \A kept \in all : (\E k \in ks : k \subseteq kept) /\ \E l \in ToSet(c) : SET(l) /\ VAR(l) \in kept
    BY <2>4, KeepingFacts
  <2>3. ASSUME NEW kept \in F[i + 1], NEW j \in 1 .. i + 1
        PROVE  \E l \in ToSet(cs[j]) : SET(l) /\ VAR(l) \in kept
    <3>1. PICK k \in F[i] : k \subseteq kept
      BY <2>3, <2>5 DEF ks, all
    <3>2. CASE j = i + 1
      BY <2>3, <2>5, <3>2 DEF all, c
    <3>3. CASE j \in 1 .. i
      <4>1. Done(i, k)
        BY <1>4
      <4> QED
        BY <3>1, <3>3, <4>1
    <3>4. j = i + 1 \/ j \in 1 .. i
      BY <2>1
    <3> QED
      BY <3>2, <3>3, <3>4
  <2> QED
    BY <2>1, <2>3
<1>5. \A i \in 0 .. n : i \in P
  <2> HIDE DEF P, n
  <2> QED
    BY <1>2, <1>3, <1>4, InductionUpTo
<1>6. n \in 0 .. n
  BY <1>2
<1>7. n \in P
  <2> HIDE DEF P, n
  <2> QED
    BY <1>5, <1>6
<1>8. F[n] \in SUBSET SUBSET Vars
  <2> HIDE DEF n
  <2> QED
    BY <1>2, <1>6
<1> QED
  BY <1>2, <1>7, <1>8

\* The literals that are set when a solver is made or reset.

UnitsSoFar(F, units) ==
  /\ F \in [0 .. Len(units) -> Seq(Entries)] /\ F[0] = << >> /\ UnitTrail(units) = F[Len(units)]
  /\ \A i \in 0 .. Len(units) - 1 : F[i + 1] = (IF units[i + 1] \in Assigned(F[i]) THEN F[i] ELSE Append(F[i], Entry(units[i + 1], 1, <<units[i + 1]>>, FALSE)))

LEMMA UnitsSteps ==
  ASSUME NEW units \in Seq(Literals)
  PROVE  \E F : UnitsSoFar(F, units)
<1> DEFINE n == Len(units)
           T == Seq(Entries)
           base == << >>
           step == [p \in T \X (1 .. n) |-> (IF units[p[2]] \in Assigned(p[1]) THEN p[1] ELSE Append(p[1], Entry(units[p[2]], 1, <<units[p[2]]>>, FALSE)))]
           Is(h) == h = [u \in SUBSET DOMAIN units |->
                           IF u = {} THEN base ELSE (IF units[Max(u)] \in Assigned(h[u \ {Max(u)}]) THEN h[u \ {Max(u)}] ELSE Append(h[u \ {Max(u)}], Entry(units[Max(u)], 1, <<units[Max(u)]>>, FALSE)))]
           it == CHOOSE h : Is(h)
<1>1. n \in Nat /\ DOMAIN units = 1 .. n /\ (\A i \in 1 .. n : units[i] \in Literals) /\ base \in T
  OBVIOUS
<1>0. \A x \in T, e \in Literals : (IF e \in Assigned(x) THEN x ELSE Append(x, Entry(e, 1, <<e>>, FALSE))) \in T
  <2>1. \A e \in Literals : Entry(e, 1, <<e>>, FALSE) \in Entries
    BY DEF Entry, Entries
  <2>2. \A x \in Seq(Entries), y \in Entries : Append(x, y) \in Seq(Entries)
    OBVIOUS
  <2> QED
    BY ONLY <2>1, <2>2
<1>2. step \in [T \X (1 .. n) -> T]
  <2>1. \A p \in T \X (1 .. n) : p[1] \in T /\ units[p[2]] \in Literals
    BY <1>1
  <2> HIDE DEF T
  <2> QED
    BY <1>0, <2>1
<1>3. \E h : Is(h)
  <2>1. PICK h : Folds(h, T, base, n, step)
    <3> HIDE DEF step, n, T, base
    <3> QED
      BY <1>1, <1>2, Folding
  <2> HIDE DEF T
  <2>2. ASSUME NEW u \in SUBSET (1 .. n), u # {}
        PROVE h[u] = (IF units[Max(u)] \in Assigned(h[u \ {Max(u)}]) THEN h[u \ {Max(u)}] ELSE Append(h[u \ {Max(u)}], Entry(units[Max(u)], 1, <<units[Max(u)]>>, FALSE)))
    <3>1. <<h[u \ {Max(u)}], Max(u)>> \in T \X (1 .. n)
      BY <2>1, <2>2, <1>1, GreatestUpTo DEF Folds
    <3> QED
      BY <2>1, <2>2, <3>1 DEF Folds
  <2>3. Is(h)
    BY <2>1, <2>2, <1>1, Zenon DEF Folds
  <2> HIDE DEF Is
  <2> QED
    BY <2>3, Zenon
<1>4. Is(it)
  BY <1>3, Zenon
<1>5. UnitTrail(units) = it[1 .. n]
  BY <1>1 DEF UnitTrail, FoldLeft, MapThenFoldSet
<1> HIDE DEF it, T
<1>6. Computes(it, T, base, n, step)
  BY <1>1, <1>4, GreatestUpTo DEF Computes
<1>7. PICK F : SoFar(F, it, T, base, n, step)
  <2> HIDE DEF step, n, base
  <2> QED
    BY <1>1, <1>2, <1>6, FoldedSoFar
<1>8. \A i \in 0 .. n - 1 : <<F[i], i + 1>> \in T \X (1 .. n)
  <2> HIDE DEF step, n
  <2> QED
    BY <1>1, <1>7 DEF SoFar
<1> QED
  BY <1>5, <1>7, <1>8 DEF SoFar, UnitsSoFar, T

LEMMA UnitTrailFacts ==
  ASSUME NEW units \in Seq(Literals), ~ Contradictory(units), NEW M, \A m \in M, l \in ToSet(units) : l \in m
  PROVE  /\ TrailOK(UnitTrail(units), 1, M)
         /\ \A i \in DOMAIN UnitTrail(units) :
              /\ UnitTrail(units)[i].dLevel = 1 /\ ~ UnitTrail(units)[i].binary
              /\ UnitTrail(units)[i].lit \in ToSet(units)
         /\ \A l \in ToSet(units) : l \in Assigned(UnitTrail(units))
<1> DEFINE n == Len(units)
           From(t, i) == /\ TrailOK(t, 1, M)
                         /\ \A k \in DOMAIN t : t[k].lit \in ToSet(units) /\ t[k].dLevel = 1 /\ ~ t[k].binary
                         /\ \A k \in 1 .. i : units[k] \in Assigned(t)
<1>1. PICK F : UnitsSoFar(F, units)
  BY UnitsSteps
<1>2. /\ F \in [0 .. n -> Seq(Entries)] /\ F[0] = << >> /\ UnitTrail(units) = F[n] /\ n \in Nat
      /\ DOMAIN units = 1 .. n
      /\ \A i \in 0 .. n - 1 : F[i + 1] = IF units[i + 1] \in Assigned(F[i]) THEN F[i]
                                          ELSE Append(F[i], Entry(units[i + 1], 1, <<units[i + 1]>>, FALSE))
      /\ \A i \in 1 .. n : units[i] \in Literals /\ units[i] \in ToSet(units)
  <2>1. n \in Nat /\ DOMAIN units = 1 .. n /\ \A i \in 1 .. n : units[i] \in Literals /\ units[i] \in ToSet(units)
    BY DEF ToSet
  <2> QED
    BY <1>1, <2>1 DEF UnitsSoFar
<1> DEFINE P == {i \in 0 .. n : From(F[i], i)}
<1>3. 0 \in P
  <2>1. TrailOK(<< >>, 1, M)
    BY DEF TrailOK, Distinct, Leveled, Reasoned, Decided, Justified
  <2>2. From(<< >>, 0)
    BY <2>1
  <2> HIDE DEF From
  <2> QED
    BY <1>2, <2>2
<1>4. ASSUME NEW t \in Seq(Entries), NEW i \in 0 .. n - 1, From(t, i), units[i + 1] \notin Assigned(t)
      PROVE  From(Append(t, Entry(units[i + 1], 1, <<units[i + 1]>>, FALSE)), i + 1)
  <2> DEFINE l == units[i + 1]
             e == Entry(l, 1, <<l>>, FALSE)
             u == Append(t, e)
  <2>1. l \in Literals /\ l \in ToSet(units)
    <3>1. i + 1 \in 1 .. n
      BY <1>2
    <3> QED
      BY <1>2, <3>1
  <2> HIDE DEF l
  <2>2. e \in Entries /\ e.lit = l /\ e.dLevel = 1 /\ e.ante = <<l>> /\ ~ e.binary
    BY <2>1 DEF Entry, Entries
  <2>3. <<l>> # << >> /\ <<l>>[1] = l /\ Len(<<l>>) = 1 /\ IsInjective(<<l>>) /\ \A m \in M : Holds(<<l>>, m)
    <3>1. IsInjective(<<l>>)
      BY DEF IsInjective
    <3>2. \A m \in M : l \in m
      BY <2>1
    <3>3. 1 \in DOMAIN <<l>> /\ <<l>>[1] = l /\ <<l>> # << >> /\ Len(<<l>>) = 1
      OBVIOUS
    <3> QED
      BY <3>1, <3>2, <3>3 DEF Holds
  <2> HIDE DEF e
  <2>4. ASSUME NEW k \in DOMAIN t PROVE VAR(t[k].lit) # VAR(l)
    <3>1. t[k].lit \in ToSet(units) /\ t[k].lit \in Literals
      BY <1>4 DEF Entries
    <3>2. t[k].lit # l
      BY <1>4 DEF Assigned, l
    <3>3. t[k].lit # NEG(l)
      BY <2>1, <3>1 DEF Contradictory
    <3> QED
      BY <2>1, <3>1, <3>2, <3>3, LiteralFacts
  <2>5. NewEntry(t, e, M)
    <3>1. \A m \in M : l \in m
      BY <2>1
    <3>2. \A k \in DOMAIN t : VAR(t[k].lit) # VAR(e.lit) /\ t[k].dLevel <= e.dLevel
      BY <2>2, <2>4, <1>4
    <3>3. \A k \in 2 .. Len(<<l>>) : FALSE
      BY <2>3
    <3> QED
      BY <2>2, <2>3, <3>1, <3>2, <3>3 DEF NewEntry
  <2>6. TrailOK(u, 1, M)
    BY <2>2, <2>5, <1>4, TrailAppend
  <2>7. DOMAIN u = 1 .. Len(t) + 1 /\ u[Len(t) + 1] = e /\ (\A k \in 1 .. Len(t) : u[k] = t[k]) /\ DOMAIN t = 1 .. Len(t)
        /\ Len(t) \in Nat
    BY <2>2, AppendProperties
  <2> HIDE DEF u
  <2>8. \A k \in DOMAIN u : k = Len(t) + 1 \/ k \in DOMAIN t
    BY <2>7
  <2>9. \A k \in DOMAIN u : u[k].lit \in ToSet(units) /\ u[k].dLevel = 1 /\ ~ u[k].binary
    BY <1>4, <2>1, <2>2, <2>7, <2>8
  <2>10. l \in Assigned(u) /\ \A x \in Assigned(t) : x \in Assigned(u)
    <3>1. Len(t) + 1 \in DOMAIN u
      BY <2>7
    <3>2. \A k \in DOMAIN t : k \in DOMAIN u /\ u[k] = t[k]
      BY <2>7
    <3> QED
      BY <2>2, <2>7, <3>1, <3>2 DEF Assigned
  <2>11. \A k \in 1 .. i + 1 : k = i + 1 \/ k \in 1 .. i
    OBVIOUS
  <2>12. \A k \in 1 .. i + 1 : units[k] \in Assigned(u)
    BY <2>10, <2>11, <1>4 DEF l
  <2> QED
    BY <2>6, <2>9, <2>12 DEF u, e, l
<1>5. ASSUME NEW t \in Seq(Entries), NEW i \in 0 .. n - 1, From(t, i), units[i + 1] \in Assigned(t)
      PROVE  From(t, i + 1)
  <2>1. \A k \in 1 .. i + 1 : k = i + 1 \/ k \in 1 .. i
    OBVIOUS
  <2> QED
    BY <2>1, <1>5
<1> HIDE DEF From
<1>6. ASSUME NEW i \in 0 .. n - 1, i \in P PROVE i + 1 \in P
  <2>1. i \in 0 .. n /\ i + 1 \in 0 .. n
    BY <1>2
  <2>2. F[i] \in Seq(Entries) /\ From(F[i], i)
    BY <1>2, <1>6, <2>1
  <2>3. CASE units[i + 1] \in Assigned(F[i])
    BY <1>2, <1>5, <2>1, <2>2, <2>3
  <2>4. CASE units[i + 1] \notin Assigned(F[i])
    BY <1>2, <1>4, <2>1, <2>2, <2>4
  <2> QED
    BY <2>3, <2>4
<1>7. \A i \in 0 .. n : i \in P
  <2> HIDE DEF P, n
  <2> QED
    BY <1>2, <1>3, <1>6, InductionUpTo
<1>8. From(UnitTrail(units), n)
  <2>1. n \in 0 .. n
    BY <1>2
  <2> QED
    BY <1>2, <1>7, <2>1
<1>9. \A l \in ToSet(units) : \E k \in 1 .. n : units[k] = l
  BY <1>2 DEF ToSet
<1> QED
  BY <1>8, <1>9 DEF From

\* An answer has the literals set of the reported variables that are kept.
LEMMA AnswerFacts ==
  ASSUME NEW d, NEW M, TrailOK(trail, d, M), NEW kept \in SUBSET Vars
  PROVE  /\ AnswerOf(kept) \in Seq(Literals) /\ IsInjective(AnswerOf(kept))
         /\ ToSet(AnswerOf(kept)) = {l \in Literals : VAR(l) \in Reported \cap kept /\ SET(l)}
<1> DEFINE S == {v \in Reported \cap kept : ~FREE(v)}
           all == [v \in Vars |-> v]
           vs == Only(all, S)
           n == Len(vs)
           a == [i \in DOMAIN vs |-> IF SET(vs[i]) THEN vs[i] ELSE -vs[i]]
<1>1. AnswerOf(kept) = a
  BY DEF AnswerOf
<1>2. all \in Seq(Vars) /\ ToSet(all) = Vars /\ IsInjective(all)
  <2>1. vc \in Nat /\ Vars = 1 .. vc
    BY LiteralFacts DEF Vars
  <2> QED
    BY <2>1 DEF ToSet, IsInjective
<1> HIDE DEF all
<1>3. vs \in Seq(Vars) /\ ToSet(vs) = Vars \cap S /\ IsInjective(vs)
  BY <1>2, OnlyFacts
<1> HIDE DEF vs
<1>4. n \in Nat /\ DOMAIN vs = 1 .. n /\ \A i \in 1 .. n : vs[i] \in Vars /\ vs[i] \in S
  BY <1>3 DEF ToSet
<1>5. \A v \in Vars : v \in Literals /\ -v \in Literals /\ VAR(v) = v /\ VAR(-v) = v /\ NEG(v) = -v
  BY LiteralFacts DEF VAR, NEG, Vars
<1>6. \A v \in Vars : RESOLVED(v) <=> SET(-v)
  BY <1>5 DEF RESOLVED, SET
<1> HIDE DEF S
<1>7. \A v \in S : v \in Reported \cap kept /\ v \in Vars /\ (SET(v) \/ SET(-v))
  BY <1>6 DEF S, FREE
<1>8. \A i \in 1 .. n : a[i] \in Literals /\ VAR(a[i]) = vs[i] /\ SET(a[i])
  BY <1>4, <1>5, <1>7
<1>9. a \in Seq(Literals) /\ Len(a) = n /\ DOMAIN a = 1 .. n
  <2>1. a \in [1 .. n -> Literals]
    BY <1>4, <1>8
  <2> QED
    BY <2>1, <1>4
<1> HIDE DEF a
<1>10. IsInjective(a)
  <2>1. ASSUME NEW i \in 1 .. n, NEW j \in 1 .. n, a[i] = a[j] PROVE i = j
    <3>1. vs[i] = vs[j]
      BY <1>8, <2>1
    <3> QED
      BY <3>1, <1>3, <1>4 DEF IsInjective
  <2> QED
    BY <2>1, <1>9 DEF IsInjective
<1>11. \A l \in ToSet(a) : l \in Literals /\ VAR(l) \in Reported \cap kept /\ SET(l)
  <2>1. ASSUME NEW i \in 1 .. n PROVE a[i] \in Literals /\ VAR(a[i]) \in Reported \cap kept /\ SET(a[i])
    BY <1>4, <1>7, <1>8
  <2> QED
    BY <2>1, <1>9 DEF ToSet
<1>12. ASSUME NEW l \in Literals, VAR(l) \in Reported \cap kept, SET(l) PROVE l \in ToSet(a)
  <2>1. VAR(l) \in Vars /\ (VAR(l) = l \/ VAR(l) = NEG(l)) /\ NEG(NEG(l)) = l
    BY LiteralFacts
  <2>2. ~FREE(VAR(l))
    BY <2>1, <1>12 DEF FREE, RESOLVED, SET
  <2>3. VAR(l) \in ToSet(vs)
    BY <2>1, <2>2, <1>3, <1>12 DEF S
  <2>4. PICK i \in 1 .. n : vs[i] = VAR(l)
    BY <2>3, <1>4 DEF ToSet
  <2>5. a[i] \in Literals /\ VAR(a[i]) = VAR(l) /\ SET(a[i])
    BY <2>4, <1>8
  <2>6. a[i] = l
    <3>1. a[i] = l \/ a[i] = NEG(l)
      BY <2>5, LiteralFacts
    <3>2. a[i] = NEG(l) => RESOLVED(l)
      BY <2>5 DEF RESOLVED, SET
    <3>3. ~RESOLVED(l)
      BY <1>12, OnTrail
    <3> QED
      BY <3>1, <3>2, <3>3
  <2> QED
    BY <2>6, <1>9 DEF ToSet
<1>13. ToSet(a) = {l \in Literals : VAR(l) \in Reported \cap kept /\ SET(l)}
  BY <1>11, <1>12
<1> QED
  BY <1>1, <1>9, <1>10, <1>13

\* The clause that excludes an answer has the negations of its literals.
LEMMA ExcludingFacts ==
  ASSUME NEW a \in Seq(Literals), Len(a) > 1, IsInjective(a)
  PROVE  /\ Excluding(a) \in Seq(Literals) /\ IsInjective(Excluding(a)) /\ Len(Excluding(a)) = Len(a)
         /\ ToSet(Excluding(a)) = {NEG(x) : x \in ToSet(a)}
<1> DEFINE n == Len(a)
           two == <<-a[n], -a[1]>>
           more == [i \in 1 .. n - 2 |-> -a[i + 1]]
           e == two \o more
           p(k) == IF k = 1 THEN n ELSE k - 1
<1>1. n \in Nat /\ n > 1 /\ DOMAIN a = 1 .. n /\ \A i \in 1 .. n : a[i] \in Literals /\ -a[i] \in Literals /\ a[i] \in Int
  BY LiteralFacts DEF NEG
<1>2. Excluding(a) = e
  <2>1. Excluding(a) = IF n = 1 THEN <<-a[1]>> ELSE e
    BY DEF Excluding
  <2> HIDE DEF e, n
  <2> QED
    BY <2>1, <1>1
<1> HIDE DEF n
<1>3. two \in Seq(Literals) /\ Len(two) = 2 /\ two[1] = -a[n] /\ two[2] = -a[1]
  <2>1. 1 \in 1 .. n /\ n \in 1 .. n
    BY <1>1
  <2>2. -a[1] \in Literals /\ -a[n] \in Literals
    BY <1>1, <2>1
  <2> QED
    BY <2>2
<1>4. n - 2 \in Nat /\ more \in Seq(Literals) /\ Len(more) = n - 2 /\ \A i \in 1 .. n - 2 : more[i] = -a[i + 1]
  <2>1. n - 2 \in Nat /\ \A i \in 1 .. n - 2 : i + 1 \in 1 .. n
    BY <1>1
  <2>2. more \in [1 .. n - 2 -> Literals]
    <3>1. \A i \in 1 .. n - 2 : -a[i + 1] \in Literals
      BY <1>1, <2>1
    <3> QED
      BY <3>1
  <2>3. \A i \in 1 .. n - 2 : more[i] = -a[i + 1]
    OBVIOUS
  <2> HIDE DEF more
  <2>4. more \in Seq(Literals) /\ Len(more) = n - 2
    BY <2>1, <2>2
  <2> QED
    BY <2>1, <2>3, <2>4
<1> HIDE DEF two, more
<1>5. e \in Seq(Literals) /\ Len(e) = n /\ \A k \in 1 .. n : e[k] = -a[p(k)] /\ p(k) \in 1 .. n
  <2>1. /\ e \in Seq(Literals) /\ Len(e) = Len(two) + Len(more)
        /\ \A i \in 1 .. Len(two) + Len(more) : e[i] = IF i <= Len(two) THEN two[i] ELSE more[i - Len(two)]
    BY <1>3, <1>4, ConcatProperties
  <2> HIDE DEF e
  <2>2. Len(two) + Len(more) = n
    BY <1>1, <1>3, <1>4
  <2>3. ASSUME NEW k \in 1 .. n PROVE e[k] = -a[p(k)] /\ p(k) \in 1 .. n
    <3>0. e[k] = IF k <= 2 THEN two[k] ELSE more[k - 2]
      BY <2>1, <2>2, <1>3
    <3>1. CASE k = 1
      BY <3>0, <3>1, <1>1, <1>3
    <3>2. CASE k = 2
      BY <3>0, <3>2, <1>1, <1>3
    <3>3. CASE k > 2
      <4>1. k - 2 \in 1 .. n - 2 /\ (k - 2) + 1 = k - 1 /\ ~(k <= 2) /\ k # 1 /\ k - 1 \in 1 .. n
        BY <3>3, <1>1
      <4> QED
        BY <3>0, <4>1, <1>4
    <3> QED
      BY <3>1, <3>2, <3>3, <1>1
  <2> QED
    BY <2>1, <2>2, <2>3
<1> HIDE DEF e
<1>6. DOMAIN e = 1 .. n
  BY <1>1, <1>5
<1>7. IsInjective(e)
  <2>1. ASSUME NEW i \in 1 .. n, NEW j \in 1 .. n, e[i] = e[j] PROVE i = j
    <3>1. a[p(i)] = a[p(j)]
      <4>1. -a[p(i)] = -a[p(j)] /\ a[p(i)] \in Int /\ a[p(j)] \in Int
        <5>1. e[i] = -a[p(i)] /\ p(i) \in 1 .. n /\ e[j] = -a[p(j)] /\ p(j) \in 1 .. n
          BY <1>5
        <5> QED
          BY <5>1, <2>1, <1>1
      <4> QED
        BY <4>1
    <3>2. p(i) = p(j)
      BY <3>1, <1>1, <1>5 DEF IsInjective
    <3> QED
      BY <3>2, <1>1
  <2> QED
    BY <2>1, <1>6 DEF IsInjective
<1>8. ToSet(e) = {NEG(x) : x \in ToSet(a)}
  <2>1. \A k \in 1 .. n : e[k] = NEG(a[p(k)]) /\ a[p(k)] \in ToSet(a)
    BY <1>1, <1>5 DEF NEG, ToSet
  <2>2. ASSUME NEW j \in 1 .. n PROVE \E k \in 1 .. n : p(k) = j
    <3>1. CASE j = n
      BY <3>1, <1>1
    <3>2. CASE j # n
      <4>1. j + 1 \in 1 .. n /\ p(j + 1) = j
        BY <3>2, <1>1
      <4> QED
        BY <4>1
    <3> QED
      BY <3>1, <3>2
  <2>3. ASSUME NEW x \in ToSet(a) PROVE NEG(x) \in ToSet(e)
    <3>1. PICK j \in 1 .. n : x = a[j]
      BY <1>1 DEF ToSet
    <3>2. PICK k \in 1 .. n : p(k) = j
      BY <2>2
    <3>3. e[k] = NEG(x)
      BY <2>1, <3>1, <3>2
    <3> QED
      BY <3>3, <1>6 DEF ToSet
  <2>4. ASSUME NEW y \in ToSet(e) PROVE y \in {NEG(x) : x \in ToSet(a)}
    <3>1. PICK k \in 1 .. n : y = e[k]
      BY <1>6 DEF ToSet
    <3> QED
      BY <3>1, <2>1
  <2> QED
    BY <2>3, <2>4
<1> QED
  BY <1>2, <1>5, <1>7, <1>8 DEF n

-----------------------------------------------------------------------------
(* The invariant.                                                          *)

\* The models that the answers so far do not cover.
Remaining == Models(cnf \o Exclusions)

FalseIn(t, c) == \A i \in DOMAIN c : NEG(c[i]) \in Assigned(t)

\* A clause that is false is false at the present level only.
Guarded(t, d, c) == FalseIn(t, c) => \E i \in DOMAIN t : t[i].dLevel = d /\ NEG(t[i].lit) \in ToSet(c)

\* The variables' values, and at which levels the solver may be.
TypeOK ==
  /\ cnf \in Cnfs
  /\ pc \in {"construct", "reset", "stopped", "selecting", "asserting", "finished", "thrown"}
  /\ dLevel \in Nat /\ (dLevel = 0 => pc \in {"stopped", "finished"})
  /\ pc \in {"construct", "reset"} => dLevel = 1
  /\ clauses \in Seq(Seq(Literals)) /\ unit_conflicts \in Seq(Literals)
  /\ blocking \in Seq(Nat) /\ \A i \in DOMAIN blocking : blocking[i] \in DOMAIN clauses
  /\ order \in Orders /\ phase \in [Vars -> BOOLEAN] /\ nextClause \in 0 .. Len(clauses)
  /\ answers \in Seq(Seq(Literals))

ClausesOK == \A i \in DOMAIN clauses : ClauseOK(clauses[i], Remaining)
ConflictsOK ==
  \A c \in ToSet(Others) \cup ToSet(clauses) :
    Guarded(trail, dLevel, c) /\ (pc \in {"selecting", "stopped"} => ~ FalseIn(trail, c))
UnitsOK ==
  \A u \in ToSet(unit_conflicts) :
    /\ \A m \in Remaining : u \in m
    /\ dLevel > 0 /\ pc \notin {"finished", "thrown"} => \E i \in DOMAIN trail : trail[i].lit = u /\ trail[i].dLevel = 1

\* An answer has only extensions that are models; and what it excludes.
CubeOK(a) ==
  \A r \in {m \cap (Reported \cup {-v : v \in Reported}) : m \in Assignments} :
    ToSet(a) \subseteq r => \E m \in Models(cnf) : r \subseteq m
AnswerOK(a) ==
  /\ IsInjective(a) /\ CubeOK(a) /\ \A x \in ToSet(a) : VAR(x) \in Reported
  /\ a = << >> => pc \in {"finished", "thrown"}
  /\ Len(a) = 1 => NEG(a[1]) \in ToSet(unit_conflicts)
  /\ Len(a) > 1 => \E k \in DOMAIN blocking : ToSet(clauses[blocking[k]]) = {NEG(x) : x \in ToSet(a)}
AnswersOK == \A i \in DOMAIN answers : AnswerOK(answers[i])
DisjointOK == \A i, j \in DOMAIN answers : i < j => \E l \in ToSet(answers[i]) : -l \in ToSet(answers[j])

Inv ==
  /\ TypeOK /\ TrailOK(trail, dLevel, Remaining) /\ ClausesOK /\ ConflictsOK /\ UnitsOK
  /\ AnswersOK /\ DisjointOK /\ (dLevel = 0 \/ pc = "finished" => Remaining = {})

-----------------------------------------------------------------------------
(* The problem.                                                            *)

LEMMA CnfFacts ==
  ASSUME cnf \in Cnfs
  PROVE  /\ cnf \in Seq(Seq(Literals)) /\ DOMAIN cnf = 1 .. Len(cnf) /\ Len(cnf) \in Nat
         /\ \A c \in ToSet(cnf) : c \in Seq(Literals) /\ IsInjective(c)
         /\ Others \in Seq(Seq(Literals)) /\ ToSet(Others) = {c \in ToSet(cnf) : Len(c) > 1}
         /\ CnfUnits \in Seq(Literals) /\ \A l \in ToSet(CnfUnits) : \E c \in ToSet(cnf) : Len(c) = 1 /\ c[1] = l
<1>1. cnf \in Seq(Seq(Literals)) /\ \A i \in DOMAIN cnf : IsInjective(cnf[i])
  <2>1. /\ \A cs \in Cnfs : cs \in Seq(Seq((-vc .. vc) \ {0}))
        /\ \A cs \in Cnfs : \A i \in DOMAIN cs : IsInjective(cs[i])
    BY CdclAssumption
  <2>2. Literals = (-vc .. vc) \ {0}
    BY LiteralFacts
  <2> QED
    BY <2>1, <2>2
<1>2. DOMAIN cnf = 1 .. Len(cnf) /\ Len(cnf) \in Nat
  BY <1>1
<1>3. \A c \in ToSet(cnf) : c \in Seq(Literals) /\ IsInjective(c)
  BY <1>1 DEF ToSet
<1>4. Others \in Seq(Seq(Literals)) /\ ToSet(Others) = ToSet(cnf) \cap {c \in ToSet(cnf) : Len(c) > 1}
  BY <1>1, OnlyFacts DEF Others
<1>5. Units \in Seq(Seq(Literals)) /\ ToSet(Units) = ToSet(cnf) \cap {c \in ToSet(cnf) : Len(c) = 1}
  BY <1>1, OnlyFacts DEF Units
<1>6. \A i \in 1 .. Len(Units) : Units[i][1] \in Literals /\ Units[i] \in ToSet(cnf) /\ Len(Units[i]) = 1
  <2>1. ASSUME NEW i \in 1 .. Len(Units)
        PROVE  Units[i][1] \in Literals /\ Units[i] \in ToSet(cnf) /\ Len(Units[i]) = 1
    <3> DEFINE c == Units[i]
    <3>1. c \in ToSet(Units) /\ c \in Seq(Literals)
      BY <1>5 DEF ToSet
    <3> HIDE DEF c
    <3>2. c \in ToSet(cnf) /\ Len(c) = 1
      BY <3>1, <1>5
    <3>3. c[1] \in Literals
      <4>1. 1 \in DOMAIN c
        BY <3>1, <3>2
      <4> QED
        BY <3>1, <4>1
    <3> QED
      BY <3>2, <3>3 DEF c
  <2> QED
    BY <2>1
<1>7. CnfUnits \in Seq(Literals) /\ DOMAIN CnfUnits = 1 .. Len(Units) /\ \A i \in 1 .. Len(Units) : CnfUnits[i] = Units[i][1]
  <2>1. Len(Units) \in Nat /\ DOMAIN Units = 1 .. Len(Units)
    BY <1>5
  <2>2. CnfUnits = [i \in 1 .. Len(Units) |-> Units[i][1]]
    BY <2>1 DEF CnfUnits
  <2>3. CnfUnits \in [1 .. Len(Units) -> Literals]
    BY <1>6, <2>2
  <2> QED
    BY <2>1, <2>2, <2>3
<1>8. \A l \in ToSet(CnfUnits) : \E c \in ToSet(cnf) : Len(c) = 1 /\ c[1] = l
  BY <1>6, <1>7 DEF ToSet
<1> QED
  BY <1>1, <1>2, <1>3, <1>4, <1>7, <1>8

\* The assignments that satisfy a problem and do not belong to some cubes.
LEMMA ModelsWithout ==
  ASSUME NEW g, NEW ans, g \in Seq(Seq(Literals)), ans \in Seq(Seq(Literals))
  PROVE  Models(g \o [i \in DOMAIN ans |-> [k \in DOMAIN ans[i] |-> -ans[i][k]]])
           = {m \in Models(g) : \A i \in DOMAIN ans : \E x \in ToSet(ans[i]) : NEG(x) \in m}
<1> DEFINE n == Len(g)
           k == Len(ans)
           ex == [i \in DOMAIN ans |-> [j \in DOMAIN ans[i] |-> -ans[i][j]]]
           all == g \o ex
<1>1. n \in Nat /\ DOMAIN g = 1 .. n /\ g \in Seq(Seq(Literals))
  OBVIOUS
<1>2. k \in Nat /\ DOMAIN ans = 1 .. k /\ \A i \in 1 .. k : ans[i] \in Seq(Literals)
  OBVIOUS
<1>3. /\ ex \in Seq(Seq(Int)) /\ Len(ex) = k
      /\ \A i \in 1 .. k : ex[i] = [j \in DOMAIN ans[i] |-> -ans[i][j]]
  <2>1. \A i \in 1 .. k : [j \in DOMAIN ans[i] |-> -ans[i][j]] \in Seq(Int)
    <3>1. ASSUME NEW i \in 1 .. k PROVE [j \in DOMAIN ans[i] |-> -ans[i][j]] \in Seq(Int)
      <4>1. ans[i] \in Seq(Literals) /\ Len(ans[i]) \in Nat /\ DOMAIN ans[i] = 1 .. Len(ans[i])
        BY <1>2
      <4>2. [j \in 1 .. Len(ans[i]) |-> -ans[i][j]] \in [1 .. Len(ans[i]) -> Int]
        <5>1. \A j \in 1 .. Len(ans[i]) : ans[i][j] \in Literals
          BY <4>1
        <5>2. \A j \in 1 .. Len(ans[i]) : -ans[i][j] \in Int
          BY <5>1, LiteralFacts
        <5> QED
          BY <5>2
      <4> QED
        BY <4>1, <4>2
    <3> QED
      BY <3>1
  <2>2. ex = [i \in 1 .. k |-> [j \in DOMAIN ans[i] |-> -ans[i][j]]]
    BY <1>2
  <2>3. ex \in [1 .. k -> Seq(Int)]
    BY <2>1, <2>2
  <2>4. \A i \in 1 .. k : ex[i] = [j \in DOMAIN ans[i] |-> -ans[i][j]]
    BY <2>2
  <2> HIDE DEF k
  <2>5. ex \in Seq(Seq(Int)) /\ Len(ex) = k
    <3>1. \A w : w \in [1 .. k -> Seq(Int)] => w \in Seq(Seq(Int)) /\ Len(w) = k
      BY <1>2
    <3> HIDE DEF ex
    <3> QED
      BY <2>3, <3>1
  <2> QED
    BY <2>4, <2>5
<1>4. g \in Seq(Seq(Int))
  BY <1>1, LiteralFacts
<1>5. /\ Len(all) = n + k /\ DOMAIN all = 1 .. n + k
      /\ \A i \in 1 .. n + k : all[i] = IF i <= n THEN g[i] ELSE ex[i - n]
  <2>1. g \o ex \in Seq(Seq(Int)) /\ Len(g \o ex) = Len(g) + Len(ex)
        /\ \A i \in 1 .. Len(g) + Len(ex) :
             (g \o ex)[i] = IF i <= Len(g) THEN g[i] ELSE ex[i - Len(g)]
    <3>1. ex \in Seq(Seq(Int))
      BY <1>3
    <3> QED
      BY ONLY <3>1, <1>4, ConcatProperties
  <2>2. Len(all) \in Nat /\ DOMAIN all = 1 .. Len(all)
    BY <2>1
  <2> QED
    BY <2>1, <2>2, <1>3
<1> HIDE DEF all, n, k, ex
<1>6. ASSUME NEW m, NEW i \in 1 .. k
      PROVE  (\E x \in ToSet(ex[i]) : x \in m) <=> \E x \in ToSet(ans[i]) : NEG(x) \in m
  BY <1>3 DEF ToSet, NEG
<1>7. ASSUME NEW m
      PROVE  (\A i \in DOMAIN all : \E x \in ToSet(all[i]) : x \in m)
             <=> /\ \A i \in DOMAIN g : \E x \in ToSet(g[i]) : x \in m
                 /\ \A i \in DOMAIN ans : \E x \in ToSet(ans[i]) : NEG(x) \in m
  <2>1. \A i \in 1 .. n : i \in 1 .. n + k /\ all[i] = g[i]
    BY <1>1, <1>2, <1>5
  <2>2. \A i \in 1 .. k : n + i \in 1 .. n + k /\ all[n + i] = ex[i]
    <3>1. \A i \in 1 .. k : n + i \in 1 .. n + k /\ ~(n + i <= n) /\ (n + i) - n = i
      BY <1>1, <1>2
    <3> QED
      BY <3>1, <1>5
  <2>3. \A i \in 1 .. n + k : i \in 1 .. n \/ (i - n \in 1 .. k /\ all[i] = ex[i - n])
    BY <1>1, <1>2, <1>5
  <2> QED
    BY <1>1, <1>2, <1>5, <1>6, <2>1, <2>2, <2>3
<1> QED
  BY <1>7 DEF Models, all, ex

\* The models of the problem, and those that no answer covers.
LEMMA RemainingFacts ==
  ASSUME cnf \in Cnfs, answers \in Seq(Seq(Literals))
  PROVE  /\ Remaining = {m \in Models(cnf) : \A i \in DOMAIN answers : \E x \in ToSet(answers[i]) : NEG(x) \in m}
         /\ Remaining \subseteq Assignments
         /\ \A c \in ToSet(cnf), m \in Remaining : Holds(c, m)
<1>8. Remaining = {m \in Models(cnf) : \A i \in DOMAIN answers : \E x \in ToSet(answers[i]) : NEG(x) \in m}
  <2>1. cnf \in Seq(Seq(Literals))
    BY CnfFacts
  <2> QED
    BY <2>1, ModelsWithout DEF Remaining, Exclusions
<1>9. \A c \in ToSet(cnf), m \in Remaining : Holds(c, m)
  BY <1>8 DEF Models, Holds, ToSet
<1> QED
  BY <1>8, <1>9, AssignmentFacts

\* The clauses that the search works with.
LEMMA PoolFacts ==
  ASSUME Inv
  PROVE  /\ \A c \in ToSet(Others) \cup ToSet(clauses) : ClauseOK(c, Remaining)
         /\ \A k \in Pool : /\ k[1] \in ToSet(Others) \cup ToSet(clauses)
                            /\ k[2] \in BOOLEAN /\ (k[2] => Len(k[1]) = 2)
         /\ \A c \in ToSet(Others) \cup ToSet(clauses) : \E k \in Pool : k[1] = c
<1>1. cnf \in Cnfs /\ answers \in Seq(Seq(Literals)) /\ ClausesOK
  BY DEF Inv, TypeOK
<1>2. \A c \in ToSet(Others) : ClauseOK(c, Remaining)
  BY <1>1, CnfFacts, RemainingFacts DEF ClauseOK
<1>3. \A c \in ToSet(clauses) : ClauseOK(c, Remaining)
  BY <1>1 DEF ClausesOK, ToSet
<1>4. ASSUME NEW k \in Pool
      PROVE  /\ k[1] \in ToSet(Others) \cup ToSet(clauses)
             /\ k[2] \in BOOLEAN /\ (k[2] => Len(k[1]) = 2)
  <2>1. CASE k \in {<<Others[i], Len(Others[i]) = 2>> : i \in DOMAIN Others}
    <3>1. PICK i \in DOMAIN Others : k = <<Others[i], Len(Others[i]) = 2>>
      BY <2>1
    <3>2. k[1] \in ToSet(Others) \cup ToSet(clauses)
      <4>1. k[1] \in ToSet(Others)
        BY <3>1 DEF ToSet
      <4> QED
        BY <4>1
    <3>3. k[2] \in BOOLEAN
      BY <3>1
    <3>4. k[2] => Len(k[1]) = 2
      BY <3>1
    <3> QED
      BY <3>2, <3>3, <3>4
  <2>2. CASE k \in {<<clauses[i], FALSE>> : i \in DOMAIN clauses}
    <3>1. PICK i \in DOMAIN clauses : k = <<clauses[i], FALSE>>
      BY <2>2
    <3>2. k[1] \in ToSet(clauses) /\ k[2] = FALSE
      BY <3>1 DEF ToSet
    <3> QED
      BY <3>2
  <2> QED
    BY <2>1, <2>2 DEF Pool
<1>5. ASSUME NEW c \in ToSet(Others) \cup ToSet(clauses) PROVE \E k \in Pool : k[1] = c
  <2>1. CASE c \in ToSet(Others)
    <3>1. PICK i \in DOMAIN Others : c = Others[i]
      BY <2>1 DEF ToSet
    <3>2. <<Others[i], Len(Others[i]) = 2>> \in Pool
      BY DEF Pool
    <3> QED
      BY <3>1, <3>2
  <2>2. CASE c \in ToSet(clauses)
    <3>1. PICK i \in DOMAIN clauses : c = clauses[i]
      BY <2>2 DEF ToSet
    <3>2. <<clauses[i], FALSE>> \in Pool
      BY DEF Pool
    <3> QED
      BY <3>1, <3>2
  <2> QED
    BY <2>1, <2>2
<1> QED
  BY <1>2, <1>3, <1>4, <1>5

-----------------------------------------------------------------------------
(* The steps keep the invariant.                                           *)

\* What holds of the answers while none is reported.
LEMMA Stay ==
  ASSUME Inv, pc \notin {"finished", "thrown"}, UNCHANGED <<problem, blocking, unit_conflicts, answers>>,
         clauses' \in Seq(Seq(Literals)), \A i \in DOMAIN clauses : i \in DOMAIN clauses' /\ clauses'[i] = clauses[i]
  PROVE  /\ Remaining' = Remaining /\ Others' = Others /\ cnf' \in Cnfs
         /\ unit_conflicts' \in Seq(Literals) /\ answers' \in Seq(Seq(Literals))
         /\ blocking' \in Seq(Nat) /\ \A i \in DOMAIN blocking' : blocking'[i] \in DOMAIN clauses'
         /\ AnswersOK' /\ DisjointOK'
<1>1. cnf' = cnf /\ answers' = answers /\ blocking' = blocking /\ unit_conflicts' = unit_conflicts
  BY DEF problem
<1>2. TypeOK /\ AnswersOK /\ DisjointOK
  BY DEF Inv
<1>3. Remaining' = Remaining /\ Others' = Others
  BY <1>1 DEF Remaining, Exclusions, Others
<1>4. \A i \in DOMAIN blocking : blocking[i] \in DOMAIN clauses /\ clauses'[blocking[i]] = clauses[blocking[i]]
  BY <1>2 DEF TypeOK
<1>5. ASSUME NEW a, AnswerOK(a) PROVE AnswerOK(a)'
  <2>1. CubeOK(a)'
    BY <1>1, <1>5 DEF AnswerOK, CubeOK
  <2>2. a # << >>
    BY <1>5 DEF AnswerOK
  <2>3. Len(a) > 1 => \E k \in DOMAIN blocking' : ToSet(clauses'[blocking'[k]]) = {NEG(x) : x \in ToSet(a)}
    BY <1>1, <1>4, <1>5 DEF AnswerOK
  <2> QED
    BY <1>1, <1>5, <2>1, <2>2, <2>3 DEF AnswerOK
<1>6. AnswersOK'
  BY <1>1, <1>2, <1>5 DEF AnswersOK
<1>7. DisjointOK'
  BY <1>1, <1>2 DEF DisjointOK
<1> QED
  BY <1>1, <1>2, <1>3, <1>4, <1>6, <1>7 DEF TypeOK

LEMMA AppendedFacts ==
  ASSUME NEW t \in Seq(Entries), NEW e \in Entries
  PROVE  /\ Len(t) + 1 \in DOMAIN Append(t, e) /\ Append(t, e)[Len(t) + 1] = e
         /\ \A i \in DOMAIN t : i \in DOMAIN Append(t, e) /\ Append(t, e)[i] = t[i]
         /\ Assigned(Append(t, e)) = Assigned(t) \cup {e.lit}
         /\ \A c \in Seq(Literals) : FalseIn(Append(t, e), c) => FalseIn(t, c) \/ NEG(e.lit) \in ToSet(c)
<1> DEFINE u == Append(t, e)
<1>1. /\ Len(t) \in Nat /\ DOMAIN t = 1 .. Len(t) /\ DOMAIN u = 1 .. Len(t) + 1 /\ u[Len(t) + 1] = e
      /\ \A i \in 1 .. Len(t) : u[i] = t[i]
  BY AppendProperties
<1> HIDE DEF u
<1>2. Len(t) + 1 \in DOMAIN u /\ \A i \in DOMAIN t : i \in DOMAIN u /\ u[i] = t[i]
  BY <1>1
<1>3. \A i \in DOMAIN u : i = Len(t) + 1 \/ i \in DOMAIN t
  BY <1>1
<1>4. Assigned(u) = Assigned(t) \cup {e.lit}
  BY <1>1, <1>2, <1>3 DEF Assigned
<1>5. ASSUME NEW c \in Seq(Literals), FalseIn(u, c), ~ FalseIn(t, c) PROVE NEG(e.lit) \in ToSet(c)
  <2>1. PICK i \in DOMAIN c : NEG(c[i]) \notin Assigned(t)
    BY <1>5 DEF FalseIn
  <2>2. NEG(c[i]) = e.lit /\ c[i] \in Literals
    BY <1>4, <1>5, <2>1 DEF FalseIn
  <2>3. NEG(e.lit) = c[i]
    BY <2>2, LiteralFacts
  <2> QED
    BY <2>3 DEF ToSet
<1> QED
  BY <1>1, <1>2, <1>4, <1>5 DEF u

\* A free literal is not on the trail.
LEMMA FreeFacts ==
  ASSUME NEW d, NEW M, TrailOK(trail, d, M), NEW l \in Literals, FREE(l)
  PROVE  /\ \A i \in DOMAIN trail : VAR(trail[i].lit) # VAR(l)
         /\ FREE(NEG(l)) /\ FREE(VAR(l))
<1>1. FREE(NEG(l))
  BY LiteralFacts DEF FREE, SET, RESOLVED
<1>2. FREE(VAR(l))
  BY <1>1, LiteralFacts
<1>3. ASSUME NEW i \in DOMAIN trail, VAR(trail[i].lit) = VAR(l) PROVE FALSE
  <2>1. trail[i].lit \in Literals /\ trail[i].lit \in Assigned(trail)
    BY OnTrail DEF Assigned
  <2>2. trail[i].lit = l \/ trail[i].lit = NEG(l)
    BY <1>3, <2>1, LiteralFacts
  <2> QED
    BY <2>1, <2>2 DEF FREE, SET, RESOLVED
<1> QED
  BY <1>1, <1>2, <1>3

LEMMA PropagateInv ==
  ASSUME Inv, Propagate
  PROVE  Inv'
<1>1. /\ pc \in {"construct", "reset", "asserting"} /\ pc' = pc /\ dLevel' = dLevel /\ clauses' = clauses
      /\ UNCHANGED <<problem, blocking, unit_conflicts, answers, order, phase, nextClause>>
  BY DEF Propagate, added
<1>p. PICK k \in Pool : \E l \in Implied(k[1]) : trail' = Append(trail, Entry(l, dLevel, First(k[1], l), k[2]))
  BY DEF Propagate
<1> DEFINE c == k[1]
<1>2. PICK l \in Implied(c) : trail' = Append(trail, Entry(l, dLevel, First(c, l), k[2]))
  BY <1>p
<1> DEFINE e == Entry(l, dLevel, First(c, l), k[2])
<1>3. TypeOK /\ TrailOK(trail, dLevel, Remaining) /\ ClausesOK /\ ConflictsOK /\ UnitsOK
  BY DEF Inv
<1>4. dLevel \in Nat \ {0} /\ clauses \in Seq(Seq(Literals))
  BY <1>1, <1>3 DEF TypeOK
<1>5. /\ Remaining' = Remaining /\ Others' = Others /\ cnf' \in Cnfs
      /\ unit_conflicts' \in Seq(Literals) /\ answers' \in Seq(Seq(Literals))
      /\ blocking' \in Seq(Nat) /\ \A i \in DOMAIN blocking' : blocking'[i] \in DOMAIN clauses'
      /\ AnswersOK' /\ DisjointOK'
  BY <1>1, <1>4, Stay
<1>6. ClauseOK(c, Remaining) /\ k[2] \in BOOLEAN /\ (k[2] => Len(c) = 2)
  BY PoolFacts
<1>7. c \in Seq(Literals) /\ IsInjective(c) /\ \A m \in Remaining : Holds(c, m)
  BY <1>6 DEF ClauseOK
<1>8. l \in ToSet(c) /\ FREE(l) /\ (\A m \in ToSet(c) \ {l} : RESOLVED(m)) /\ l \in Literals
  BY <1>7 DEF Implied, ToSet
<1> HIDE DEF c
<1>9. /\ First(c, l) \in Seq(Literals) /\ First(c, l)[1] = l /\ Len(First(c, l)) = Len(c)
      /\ ToSet(First(c, l)) = ToSet(c) /\ IsInjective(First(c, l))
      /\ \A j \in 2 .. Len(c) : First(c, l)[j] \in ToSet(c) \ {l}
  BY <1>7, <1>8, FirstFacts
<1>10. e \in Entries /\ e.lit = l /\ e.dLevel = dLevel /\ e.ante = First(c, l)
  BY <1>4, <1>6, <1>8, <1>9 DEF Entry, Entries
<1> HIDE DEF e
<1>11. trail \in Seq(Entries) /\ DOMAIN trail = 1 .. Len(trail)
  BY <1>3, OnTrail DEF TrailOK
<1>12. NewEntry(trail, e, Remaining)
  <2>1. \A i \in DOMAIN trail : VAR(trail[i].lit) # VAR(l)
    BY <1>3, <1>8, FreeFacts
  <2>2. \A i \in DOMAIN trail : trail[i].dLevel <= dLevel
    BY <1>3, <1>4 DEF TrailOK, Leveled
  <2>3. ASSUME NEW x \in ToSet(c) \ {l} PROVE \E j \in DOMAIN trail : trail[j].lit = NEG(x)
    BY <1>8 DEF RESOLVED, Assigned
  <2>4. \A m \in Remaining : Holds(First(c, l), m)
    <3>1. \A m \in Remaining : \E x \in ToSet(c) : x \in m
      BY <1>7 DEF Holds, ToSet
    <3>2. \A m \in Remaining : \E x \in ToSet(First(c, l)) : x \in m
      BY <3>1, <1>9
    <3> QED
      BY <3>2 DEF Holds, ToSet
  <2>5. ASSUME dLevel = 1, NEW m \in Remaining PROVE l \in m
    <3>1. PICK x \in ToSet(c) : x \in m
      BY <1>7 DEF Holds, ToSet
    <3>2. CASE x # l
      <4>1. PICK j \in DOMAIN trail : trail[j].lit = NEG(x)
        BY <2>3, <3>2
      <4>2. trail[j].dLevel = 1
        BY <1>3, <2>5, OnTrail
      <4>3. NEG(x) \in m
        BY <4>1, <4>2, <1>3 DEF TrailOK, Justified
      <4>4. x \in Literals /\ m \in Assignments
        <5>1. x \in Literals
          BY <1>7 DEF ToSet
        <5> QED
          BY <5>1, <1>3, RemainingFacts DEF TypeOK
      <4> QED
        BY <3>1, <4>3, <4>4, AssignmentFacts
    <3> QED
      BY <3>1, <3>2
  <2>6. First(c, l)[1] = l /\ IsInjective(First(c, l))
        /\ \A j \in 2 .. Len(First(c, l)) : \E i \in DOMAIN trail : trail[i].lit = NEG(First(c, l)[j])
    BY <1>9, <2>3
  <2>7. First(c, l) # << >>
    <3>1. Len(c) # 0
      BY <1>6 DEF ClauseOK
    <3> QED
      BY <3>1, <1>9
  <2> QED
    BY <1>4, <1>10, <2>1, <2>2, <2>4, <2>5, <2>6, <2>7 DEF NewEntry
<1>13. TrailOK(trail', dLevel', Remaining')
  <2>1. TrailOK(Append(trail, e), e.dLevel, Remaining)
    BY <1>3, <1>12, TrailAppend
  <2> QED
    BY <2>1, <1>1, <1>2, <1>5, <1>10 DEF e, c
<1>14. /\ Len(trail) + 1 \in DOMAIN trail' /\ trail'[Len(trail) + 1] = e
       /\ \A i \in DOMAIN trail : i \in DOMAIN trail' /\ trail'[i] = trail[i]
       /\ \A x \in Seq(Literals) : FalseIn(trail', x) => FalseIn(trail, x) \/ NEG(e.lit) \in ToSet(x)
  <2>1. trail' = Append(trail, e)
    BY <1>2 DEF e, c
  <2> QED
    BY <2>1, <1>10, <1>11, AppendedFacts
<1>15. ConflictsOK'
  <2>1. \A x \in ToSet(Others) \cup ToSet(clauses) : x \in Seq(Literals) /\ Guarded(trail, dLevel, x)
    BY <1>3, PoolFacts DEF ConflictsOK, ClauseOK
  <2>2. \A x \in ToSet(Others) \cup ToSet(clauses) : Guarded(trail', dLevel, x)
    BY <2>1, <1>10, <1>14 DEF Guarded
  <2> QED
    BY <2>2, <1>1, <1>5 DEF ConflictsOK
<1>16. UnitsOK'
  BY <1>1, <1>3, <1>5, <1>14 DEF UnitsOK
<1>17. ClausesOK'
  BY <1>1, <1>3, <1>5 DEF ClausesOK
<1>18. TypeOK'
  BY <1>1, <1>3, <1>5 DEF TypeOK
<1> QED
  BY <1>1, <1>4, <1>5, <1>13, <1>15, <1>16, <1>17, <1>18 DEF Inv

\* A step that leaves the trail and the clauses as they are.
LEMMA QuietInv ==
  ASSUME Inv, pc \notin {"finished", "thrown"}, UNCHANGED <<problem, dLevel, trail, added, answers>>,
         pc' \in {"stopped", "selecting", "asserting", "finished", "thrown"},
         order' \in Orders, phase' \in [Vars -> BOOLEAN], nextClause' \in 0 .. Len(clauses),
         dLevel = 0 => pc' \in {"stopped", "finished"}, pc' = "finished" => Remaining = {},
         pc' \in {"selecting", "stopped"} => \A c \in ToSet(Others) \cup ToSet(clauses) : ~ FalseIn(trail, c)
  PROVE  Inv'
<1>1. dLevel' = dLevel /\ trail' = trail /\ clauses' = clauses /\ UNCHANGED <<problem, blocking, unit_conflicts, answers>>
  BY DEF added
<1>2. /\ TypeOK /\ TrailOK(trail, dLevel, Remaining) /\ ClausesOK /\ ConflictsOK /\ UnitsOK
      /\ (dLevel = 0 => Remaining = {})
  BY DEF Inv
<1>3. clauses' \in Seq(Seq(Literals)) /\ \A i \in DOMAIN clauses : i \in DOMAIN clauses' /\ clauses'[i] = clauses[i]
  BY <1>1, <1>2 DEF TypeOK
<1>4. /\ Remaining' = Remaining /\ Others' = Others /\ cnf' \in Cnfs
      /\ unit_conflicts' \in Seq(Literals) /\ answers' \in Seq(Seq(Literals))
      /\ blocking' \in Seq(Nat) /\ \A i \in DOMAIN blocking' : blocking'[i] \in DOMAIN clauses'
      /\ AnswersOK' /\ DisjointOK'
  BY <1>1, <1>3, Stay
<1>5. TypeOK'
  BY <1>1, <1>2, <1>3, <1>4 DEF TypeOK
<1>6. TrailOK(trail', dLevel', Remaining')
  BY <1>1, <1>2, <1>4
<1>7. ClausesOK'
  BY <1>1, <1>2, <1>4 DEF ClausesOK
<1>8. ConflictsOK'
  BY <1>1, <1>2, <1>4 DEF ConflictsOK
<1>9. UnitsOK'
  BY <1>1, <1>2, <1>4 DEF UnitsOK
<1> QED
  BY <1>1, <1>2, <1>4, <1>5, <1>6, <1>7, <1>8, <1>9 DEF Inv

\* When propagation is over and there is no conflict, no clause is false.
LEMMA NoneFalse ==
  ASSUME Inv, NoneLeft \/ pc \in {"selecting", "stopped"}
  PROVE  \A c \in ToSet(Others) \cup ToSet(clauses) : ~ FalseIn(trail, c)
<1>1. CASE pc \in {"selecting", "stopped"}
  BY <1>1 DEF Inv, ConflictsOK
<1>2. CASE NoneLeft
  <2>1. ASSUME NEW c \in ToSet(Others) \cup ToSet(clauses) PROVE ~ FalseIn(trail, c)
    <3>1. PICK k \in Pool : k[1] = c
      BY PoolFacts
    <3>2. ~ False(c)
      BY <1>2, <3>1 DEF NoneLeft
    <3> QED
      BY <3>2 DEF False, FalseIn, RESOLVED
  <2> QED
    BY <2>1
<1> QED
  BY <1>1, <1>2

LEMMA RunInv ==
  ASSUME Inv, Run \/ Propagated \/ Ready
  PROVE  Inv'
<1>1. TypeOK /\ (dLevel = 0 => Remaining = {})
  BY DEF Inv
<1>2. order \in Orders /\ phase \in [Vars -> BOOLEAN] /\ nextClause \in 0 .. Len(clauses)
  BY <1>1 DEF TypeOK
<1>3. CASE Run
  BY <1>1, <1>2, <1>3, NoneFalse, QuietInv DEF Run
<1>4. CASE Propagated \/ Ready
  <2>1. dLevel # 0
    BY <1>1, <1>4 DEF TypeOK, Propagated, Ready
  <2> QED
    BY <1>2, <1>4, <2>1, NoneFalse, QuietInv DEF Propagated, Ready
<1> QED
  BY <1>3, <1>4

LEMMA ConstructedInv ==
  ASSUME Inv, Constructed
  PROVE  Inv'
<1>1. TypeOK
  BY DEF Inv
<1>2. order \in Orders /\ nextClause \in 0 .. Len(clauses) /\ dLevel = 1
  BY <1>1 DEF TypeOK, Constructed
<1> DEFINE vs == {v \in Vars : FREE(v) /\ SCORE(order, v) > 0}
<1>3. phase' \in [Vars -> BOOLEAN]
  BY DEF Constructed
<1>4. PICK s \in [1 .. Cardinality(vs) -> vs] : order' = [order EXCEPT !.varOrder = s]
  BY DEF Constructed, SetToSeqs
<1>5. Cardinality(vs) \in Nat
  <2>1. IsFiniteSet(Vars)
    BY LiteralFacts, FS_Interval DEF Vars
  <2>2. vs \subseteq Vars
    OBVIOUS
  <2> QED
    BY <2>1, <2>2, FS_Subset, FS_CardinalityType
<1>6. s \in Seq(Vars)
  <2>1. s \in [1 .. Cardinality(vs) -> Vars]
    OBVIOUS
  <2> HIDE DEF vs
  <2> QED
    BY <1>5, <2>1
<1>7. order' \in Orders
  BY <1>2, <1>4, <1>6 DEF Orders
<1> QED
  BY <1>2, <1>3, <1>7, NoneFalse, QuietInv DEF Constructed

\* The variable that is selected is free, whatever the order.
LEMMA SelectedFacts ==
  ASSUME Inv
  PROVE  /\ \A v \in Selected : v \in Vars /\ FREE(v)
         /\ Advance => order' \in Orders /\ nextClause' \in 0 .. Len(clauses)
<1>1. /\ TypeOK /\ TrailOK(trail, dLevel, Remaining) /\ order \in Orders /\ nextClause \in 0 .. Len(clauses)
      /\ clauses \in Seq(Seq(Literals))
  BY DEF Inv, TypeOK
<1>2. order.varOrder \in Seq(Vars) /\ order.nextVar \in Nat \ {0}
  BY <1>1 DEF Orders
<1>3. ASSUME OpenClauses # {}
      PROVE  Max(OpenClauses) \in 1 .. nextClause /\ Max(OpenClauses) \in DOMAIN clauses
  <2>1. OpenClauses \in SUBSET (0 .. nextClause) /\ nextClause \in Nat /\ OpenClauses \subseteq 1 .. nextClause
    BY <1>1 DEF OpenClauses
  <2>2. Max(OpenClauses) \in OpenClauses
    BY <1>3, <2>1, GreatestIn
  <2>3. Max(OpenClauses) \in 1 .. nextClause
    BY <2>1, <2>2
  <2>4. Len(clauses) \in Nat /\ DOMAIN clauses = 1 .. Len(clauses)
    BY <1>1
  <2> QED
    BY <1>1, <2>3, <2>4
<1>4. ASSUME FreeInOrder # {}
      PROVE  Min(FreeInOrder) \in DOMAIN order.varOrder /\ FREE(order.varOrder[Min(FreeInOrder)])
  <2>1. FreeInOrder \in SUBSET Nat
    BY <1>2 DEF FreeInOrder
  <2>2. PICK k \in FreeInOrder : \A j \in FreeInOrder : k <= j
    BY <1>4, <2>1, LeastNatural
  <2>3. Min(FreeInOrder) \in FreeInOrder
    BY <2>2 DEF Min
  <2> QED
    BY <1>2, <2>3 DEF FreeInOrder
<1>5. ASSUME NEW v \in Selected PROVE v \in Vars /\ FREE(v)
  <2>1. CASE OpenClauses # {}
    <3> DEFINE c == clauses[Max(OpenClauses)]
    <3>1. c \in Seq(Literals)
      BY <1>1, <1>3, <2>1
    <3>2. v \in BestOf(c)
      BY <2>1 DEF Selected
    <3> HIDE DEF c
    <3>3. PICK l \in ToSet(c) : FREE(l) /\ v = VAR(l)
      BY <3>2 DEF BestOf
    <3>4. l \in Literals
      BY <3>1 DEF ToSet
    <3> QED
      BY <1>1, <3>3, <3>4, FreeFacts, LiteralFacts
  <2>2. CASE OpenClauses = {}
    <3>1. FreeInOrder # {} /\ v = order.varOrder[Min(FreeInOrder)]
      BY <2>2 DEF Selected
    <3> QED
      BY <1>2, <1>4, <3>1
  <2> QED
    BY <2>1, <2>2
<1>6. ASSUME Advance PROVE order' \in Orders /\ nextClause' \in 0 .. Len(clauses)
  <2>0. Len(clauses) \in Nat /\ DOMAIN clauses = 1 .. Len(clauses)
    BY <1>1
  <2>1. CASE OpenClauses # {}
    BY <1>1, <1>3, <1>6, <2>0, <2>1 DEF Advance
  <2>2. CASE OpenClauses = {}
    <3>1. nextClause' = IF nextClause = 0 THEN 0 ELSE 1
      BY <1>6, <2>2 DEF Advance
    <3>2. nextClause' \in 0 .. Len(clauses)
      BY <1>1, <2>0, <3>1
    <3>3. CASE FreeInOrder # {}
      <4>1. order' = [order EXCEPT !.nextVar = Min(FreeInOrder) + 1]
        BY <1>6, <2>2, <3>3 DEF Advance
      <4>2. Min(FreeInOrder) \in Nat
        BY <1>2, <1>4, <3>3
      <4>3. Min(FreeInOrder) + 1 \in Nat \ {0}
        BY <4>2
      <4> QED
        BY <1>1, <3>2, <4>1, <4>3 DEF Orders
    <3>4. CASE FreeInOrder = {}
      BY <1>1, <1>6, <2>2, <3>2, <3>4 DEF Advance
    <3> QED
      BY <3>3, <3>4
  <2> QED
    BY <2>1, <2>2
<1> QED
  BY <1>5, <1>6

LEMMA PauseInv ==
  ASSUME Inv, Pause
  PROVE  Inv'
<1>1. phase \in [Vars -> BOOLEAN] /\ phase' = phase
  BY DEF Inv, TypeOK, Pause
<1>2. order' \in Orders /\ nextClause' \in 0 .. Len(clauses)
  BY SelectedFacts DEF Pause
<1> QED
  BY <1>1, <1>2, NoneFalse, QuietInv DEF Pause

LEMMA DecideInv ==
  ASSUME Inv, Decide
  PROVE  Inv'
<1>1. /\ pc = "selecting" /\ pc' = "asserting" /\ dLevel' = dLevel + 1 /\ clauses' = clauses /\ phase' = phase
      /\ UNCHANGED <<problem, blocking, unit_conflicts, answers>>
  BY DEF Decide, added
<1>2. PICK v \in Selected : trail' = Append(trail, Decision(IF phase[v] THEN v ELSE -v, dLevel + 1))
  BY DEF Decide
<1> DEFINE l == IF phase[v] THEN v ELSE -v
           e == Decision(l, dLevel + 1)
<1>3. TypeOK /\ TrailOK(trail, dLevel, Remaining) /\ ClausesOK /\ ConflictsOK /\ UnitsOK
  BY DEF Inv
<1>4. dLevel \in Nat \ {0} /\ clauses \in Seq(Seq(Literals)) /\ phase \in [Vars -> BOOLEAN]
  BY <1>1, <1>3 DEF TypeOK
<1>5. /\ Remaining' = Remaining /\ Others' = Others /\ cnf' \in Cnfs
      /\ unit_conflicts' \in Seq(Literals) /\ answers' \in Seq(Seq(Literals))
      /\ blocking' \in Seq(Nat) /\ \A i \in DOMAIN blocking' : blocking'[i] \in DOMAIN clauses'
      /\ AnswersOK' /\ DisjointOK'
  BY <1>1, <1>4, Stay
<1>6. order' \in Orders /\ nextClause' \in 0 .. Len(clauses)
  BY SelectedFacts DEF Decide
<1>7. l \in Literals /\ VAR(l) = v /\ \A i \in DOMAIN trail : VAR(trail[i].lit) # v
  <2>1. v \in Vars /\ FREE(v) /\ v \in Literals
    BY SelectedFacts, LiteralFacts
  <2>2. VAR(v) = v /\ VAR(-v) = v /\ -v \in Literals
    BY <2>1, LiteralFacts DEF VAR, Vars
  <2>3. \A i \in DOMAIN trail : VAR(trail[i].lit) # VAR(v)
    BY <1>3, <2>1, FreeFacts
  <2> QED
    BY <2>1, <2>2, <2>3
<1> HIDE DEF l
<1>8. e \in Entries /\ e.lit = l /\ e.dLevel = dLevel + 1 /\ e.ante = << >>
  BY <1>4, <1>7 DEF Decision, Entry, Entries
<1> HIDE DEF e
<1>9. trail \in Seq(Entries) /\ DOMAIN trail = 1 .. Len(trail)
  BY <1>3, OnTrail DEF TrailOK
<1>10. NewEntry(trail, e, Remaining)
  <2>1. \A i \in DOMAIN trail : trail[i].dLevel \in Nat /\ trail[i].dLevel <= dLevel
    BY <1>3, <1>4, <1>9, OnTrail
  <2>2. \A i \in DOMAIN trail : trail[i].dLevel <= dLevel + 1 /\ trail[i].dLevel < dLevel + 1
    BY <2>1, <1>4
  <2>3. dLevel + 1 \in Nat \ {0} /\ dLevel + 1 > 1 /\ dLevel + 1 # 1
    BY <1>4
  <2> QED
    BY <1>7, <1>8, <2>2, <2>3 DEF NewEntry
<1>11. TrailOK(trail', dLevel', Remaining')
  <2>1. TrailOK(Append(trail, e), e.dLevel, Remaining)
    BY <1>3, <1>10, TrailAppend
  <2> QED
    BY <2>1, <1>1, <1>2, <1>5, <1>8 DEF e, l
<1>12. /\ Len(trail) + 1 \in DOMAIN trail' /\ trail'[Len(trail) + 1] = e
       /\ \A i \in DOMAIN trail : i \in DOMAIN trail' /\ trail'[i] = trail[i]
       /\ \A x \in Seq(Literals) : FalseIn(trail', x) => FalseIn(trail, x) \/ NEG(e.lit) \in ToSet(x)
  <2>1. trail' = Append(trail, e)
    BY <1>2 DEF e, l
  <2> QED
    BY <2>1, <1>8, <1>9, AppendedFacts
<1>13. ConflictsOK'
  <2>1. \A x \in ToSet(Others) \cup ToSet(clauses) : x \in Seq(Literals) /\ ~ FalseIn(trail, x)
    BY <1>1, <1>3, PoolFacts DEF ConflictsOK, ClauseOK
  <2>2. \A x \in ToSet(Others) \cup ToSet(clauses) : Guarded(trail', dLevel + 1, x)
    BY <2>1, <1>8, <1>12 DEF Guarded
  <2> QED
    BY <2>2, <1>1, <1>5 DEF ConflictsOK
<1>14. UnitsOK'
  <2>1. ASSUME NEW x \in ToSet(unit_conflicts)
        PROVE  /\ \A m \in Remaining : x \in m
               /\ \E i \in DOMAIN trail : trail[i].lit = x /\ trail[i].dLevel = 1
    BY <1>1, <1>3, <1>4 DEF UnitsOK
  <2>2. ASSUME NEW x \in ToSet(unit_conflicts)
        PROVE  \E i \in DOMAIN trail' : trail'[i].lit = x /\ trail'[i].dLevel = 1
    BY <2>1, <1>12
  <2> QED
    BY <2>1, <2>2, <1>1, <1>5 DEF UnitsOK
<1>15. ClausesOK'
  BY <1>1, <1>3, <1>5 DEF ClausesOK
<1>16. TypeOK'
  <2>1. dLevel' \in Nat \ {0}
    BY <1>1, <1>4
  <2> QED
    BY <1>1, <1>4, <1>5, <1>6, <2>1 DEF TypeOK
<1>17. dLevel' # 0
  BY <1>1, <1>4
<1> QED
  BY <1>1, <1>5, <1>11, <1>13, <1>14, <1>15, <1>16, <1>17 DEF Inv

\* A conflict at level 1 leaves no model.
LEMMA ConflictAtLevel1Inv ==
  ASSUME Inv, ConflictAtLevel1
  PROVE  Inv'
<1>1. /\ dLevel = 1 /\ pc \in {"construct", "reset", "asserting"} /\ Conflicts # {}
      /\ UNCHANGED <<problem, added, order, phase, nextClause, answers>>
  BY DEF ConflictAtLevel1
<1>2. TypeOK /\ TrailOK(trail, dLevel, Remaining) /\ ClausesOK
  BY DEF Inv
<1>3. PICK k \in Pool : False(k[1])
  BY <1>1 DEF Conflicts
<1>4. Remaining = {}
  <2> SUFFICES ASSUME NEW m \in Remaining PROVE FALSE
    OBVIOUS
  <2> DEFINE c == k[1]
  <2>1. c \in Seq(Literals) /\ Holds(c, m) /\ False(c)
    BY <1>3, PoolFacts DEF ClauseOK
  <2> HIDE DEF c
  <2>2. PICK i \in DOMAIN c : c[i] \in m
    BY <2>1 DEF Holds
  <2>3. c[i] \in Literals /\ RESOLVED(c[i])
    BY <2>1 DEF False
  <2>4. PICK j \in 1 .. Len(trail) : trail[j].lit = NEG(c[i])
    BY <1>2, <2>3, OnTrail
  <2>5. j \in DOMAIN trail /\ trail[j].dLevel = 1
    BY <1>1, <1>2, OnTrail
  <2>6. NEG(c[i]) \in m
    BY <1>2, <2>4, <2>5 DEF TrailOK, Justified
  <2>7. m \in Assignments
    BY <1>2, RemainingFacts DEF TypeOK
  <2> QED
    BY <2>2, <2>3, <2>6, <2>7, AssignmentFacts
<1>5. order \in Orders /\ phase \in [Vars -> BOOLEAN] /\ nextClause \in 0 .. Len(clauses)
      /\ clauses \in Seq(Seq(Literals))
  BY <1>2 DEF TypeOK
<1>6. CASE pc = "asserting"
  <2>1. pc' = "finished" /\ UNCHANGED <<problem, dLevel, trail, added, answers>>
    BY <1>1, <1>6 DEF ConflictAtLevel1
  <2> QED
    BY <1>1, <1>4, <1>5, <2>1, QuietInv
<1>7. CASE pc # "asserting"
  <2>1. pc' = "stopped" /\ dLevel' = 0 /\ trail' = << >>
    BY <1>7 DEF ConflictAtLevel1
  <2>2. clauses' = clauses /\ UNCHANGED <<problem, blocking, unit_conflicts, answers>>
    BY <1>1 DEF added
  <2>3. /\ Remaining' = Remaining /\ Others' = Others /\ cnf' \in Cnfs
        /\ unit_conflicts' \in Seq(Literals) /\ answers' \in Seq(Seq(Literals))
        /\ blocking' \in Seq(Nat) /\ \A i \in DOMAIN blocking' : blocking'[i] \in DOMAIN clauses'
        /\ AnswersOK' /\ DisjointOK'
    BY <1>1, <1>5, <2>2, Stay
  <2>4. TrailOK(<< >>, 0, Remaining)
    BY DEF TrailOK, Distinct, Leveled, Reasoned, Decided, Justified
  <2>5. \A c \in ToSet(Others) \cup ToSet(clauses) : ~ FalseIn(<< >>, c)
    <3>1. ASSUME NEW c \in ToSet(Others) \cup ToSet(clauses) PROVE ~ FalseIn(<< >>, c)
      <4>1. c \in Seq(Literals) /\ Len(c) > 1
        BY PoolFacts DEF ClauseOK
      <4>2. 1 \in DOMAIN c
        BY <4>1
      <4> QED
        BY <4>2 DEF FalseIn, Assigned
    <3> QED
      BY <3>1
  <2>6. ConflictsOK'
    BY <2>1, <2>2, <2>3, <2>5 DEF ConflictsOK, Guarded
  <2>7. UnitsOK'
    BY <1>4, <2>1, <2>2, <2>3 DEF UnitsOK
  <2>8. ClausesOK'
    BY <1>2, <2>2, <2>3 DEF ClausesOK
  <2>9. TypeOK'
    BY <1>1, <1>5, <2>1, <2>2, <2>3 DEF TypeOK
  <2> QED
    BY <1>4, <2>1, <2>3, <2>4, <2>6, <2>7, <2>8, <2>9 DEF Inv
<1> QED
  BY <1>6, <1>7

\* What is left of the trail after going back to a level.
LEMMA BelowFacts ==
  ASSUME NEW M, TrailOK(trail, dLevel, M), dLevel \in Nat, NEW level \in Nat
  PROVE  /\ Below(level) \in Seq(Entries) /\ TrailOK(Below(level), level, M)
         /\ \A i \in DOMAIN Below(level) :
              \E j \in DOMAIN trail : Below(level)[i] = trail[j] /\ trail[j].dLevel <= level
         /\ \A j \in DOMAIN trail : trail[j].dLevel <= level => \E i \in DOMAIN Below(level) : Below(level)[i] = trail[j]
<1> DEFINE n == Len(trail)
           S == {e \in ToSet(trail) : e.dLevel <= level}
           D == {0} \cup {i \in 1 .. n : trail[i].dLevel <= level}
           p == Max(D)
           u == Below(level)
<1>1. trail \in Seq(Entries) /\ n \in Nat /\ DOMAIN trail = 1 .. n /\ Leveled(trail, dLevel)
      /\ \A i \in 1 .. n : trail[i].dLevel \in Nat
  <2>1. \A i \in 1 .. n : trail[i].dLevel \in 1 .. dLevel
    BY OnTrail
  <2> QED
    BY <2>1, OnTrail DEF TrailOK
<1>2. u = Only(trail, S)
  BY DEF Below
<1>3. \A i \in 1 .. n : trail[i] \in S <=> trail[i].dLevel <= level
  BY <1>1 DEF ToSet
<1>4. D \in SUBSET (0 .. n) /\ D # {}
  BY <1>1
<1> HIDE DEF S, u
<1>5. p \in D /\ \A y \in D : y <= p
  <2> HIDE DEF D
  <2> QED
    BY <1>1, <1>4, GreatestIn
<1>6. p \in 0 .. n /\ \A i \in 1 .. n : trail[i].dLevel <= level => i <= p
  BY <1>1, <1>4, <1>5
<1>7. ASSUME NEW i \in 1 .. n, i <= p PROVE trail[i].dLevel <= level
  <2>1. p \in 1 .. n /\ trail[p].dLevel <= level
    BY <1>1, <1>5, <1>6, <1>7
  <2>2. i \in 1 .. p
    BY <1>6, <1>7
  <2>3. trail[i].dLevel <= trail[p].dLevel
    BY <1>1, <2>1, <2>2 DEF Leveled
  <2>4. p \in 1 .. n /\ trail[p].dLevel \in Nat /\ trail[i].dLevel \in Nat
    BY <2>1, <1>1
  <2> HIDE DEF p
  <2> QED
    BY <2>1, <2>3, <2>4
<1> HIDE DEF p, D
<1>8. Len(u) = p /\ \A i \in 1 .. p : u[i] = trail[i]
  BY <1>1, <1>2, <1>3, <1>6, <1>7, OnlyPrefix
<1>9. u \in Seq(Entries) /\ ToSet(u) = ToSet(trail) \cap S
  BY <1>1, <1>2, OnlyFacts
<1>10. \A i \in 1 .. p : i \in 1 .. n /\ trail[i].dLevel <= level
  BY <1>1, <1>6, <1>7
<1>11. TrailOK(u, level, M)
  BY <1>6, <1>8, <1>9, <1>10, TrailPrefix
<1>12. DOMAIN u = 1 .. p
  BY <1>8, <1>9
<1>13. \A j \in 1 .. n : trail[j].dLevel <= level => j \in DOMAIN u /\ u[j] = trail[j]
  BY <1>6, <1>8, <1>12
<1> QED
  BY <1>1, <1>8, <1>9, <1>10, <1>11, <1>12, <1>13 DEF u

\* A conflict is a false clause with a literal of the present level.
LEMMA ConflictFacts ==
  ASSUME Inv, NEW c \in Conflicts
  PROVE  /\ ClauseOK(c.clause, Remaining) /\ c.order \in Orders
         /\ \A x \in ToSet(c.clause) : RESOLVED(x)
         /\ \E x \in ToSet(c.clause) : LevelOf(x) = dLevel
<1>1. TypeOK /\ TrailOK(trail, dLevel, Remaining) /\ ConflictsOK
  BY DEF Inv
<1>2. order \in Orders /\ order.front \in [Literals -> Literals \cup {0}]
  BY <1>1 DEF TypeOK, Orders
<1> DEFINE Of(k) == /\ ToSet(c.clause) = ToSet(k[1]) /\ ClauseOK(c.clause, Remaining) /\ c.order \in Orders
<1>3. \E k \in Pool : False(k[1]) /\ Of(k)
  <2>1. CASE c \in {[clause |-> k[1], order |-> order] : k \in {k \in Pool : False(k[1]) /\ ~k[2]}}
    <3>1. PICK k \in Pool : False(k[1]) /\ c = [clause |-> k[1], order |-> order]
      BY <2>1
    <3>2. ClauseOK(k[1], Remaining)
      BY PoolFacts
    <3>3. c.clause = k[1] /\ c.order = order
      BY <3>1
    <3> QED
      BY <3>1, <3>2, <3>3, <1>2
  <2>2. CASE c \in {[clause |-> d, order |-> [order EXCEPT !.front[d[2]] = d[1]]] :
                      d \in UNION {{k[1], Reverse(k[1])} : k \in {k \in Pool : False(k[1]) /\ k[2]}}}
    <3>1. PICK d \in UNION {{k[1], Reverse(k[1])} : k \in {k \in Pool : False(k[1]) /\ k[2]}} :
             c = [clause |-> d, order |-> [order EXCEPT !.front[d[2]] = d[1]]]
      BY <2>2
    <3>2. PICK k \in Pool : False(k[1]) /\ k[2] /\ d \in {k[1], Reverse(k[1])}
      BY <3>1
    <3> DEFINE b == k[1]
    <3>3. ClauseOK(b, Remaining) /\ Len(b) = 2
      BY <3>2, PoolFacts
    <3>4. d = b \/ d = Reverse(b)
      BY <3>2
    <3>5. False(b)
      BY <3>2
    <3> HIDE DEF b
    <3>6. b \in Seq(Literals) /\ IsInjective(b) /\ DOMAIN b = 1 .. 2 /\ b[1] \in Literals /\ b[2] \in Literals
          /\ \A m \in Remaining : Holds(b, m)
      <4>1. b \in Seq(Literals) /\ IsInjective(b) /\ \A m \in Remaining : Holds(b, m)
        BY <3>3 DEF ClauseOK
      <4>2. DOMAIN b = 1 .. 2
        BY <3>3, <4>1
      <4>3. 1 \in DOMAIN b /\ 2 \in DOMAIN b
        BY <4>2
      <4>4. b[1] \in Literals /\ b[2] \in Literals
        BY <4>1, <4>3
      <4> QED
        BY <4>1, <4>2, <4>4
    <3>7. ToSet(d) = ToSet(b) /\ ClauseOK(d, Remaining) /\ d[1] \in Literals /\ d[2] \in Literals
      <4>1. CASE d = b
        BY <4>1, <3>3, <3>6
      <4>2. CASE d = Reverse(b)
        <5>1. d = [i \in 1 .. 2 |-> b[(2 - i) + 1]]
          BY <3>3, <4>2 DEF Reverse
        <5>2. DOMAIN d = 1 .. 2 /\ d[1] = b[2] /\ d[2] = b[1]
          BY <5>1
        <5>3. d \in [1 .. 2 -> Literals]
          BY <5>1, <3>6
        <5>4. d \in Seq(Literals) /\ Len(d) = 2
          <6>1. PICK n \in Nat : n = 2
            OBVIOUS
          <6>2. d \in [1 .. n -> Literals]
            BY ONLY <5>3, <6>1
          <6>3. d \in Seq(Literals) /\ Len(d) = n
            BY ONLY <6>2, n \in Nat
          <6> QED
            BY <6>1, <6>3
        <5>5. \A i \in 1 .. 2 : i = 1 \/ i = 2
          OBVIOUS
        <5>6. b[1] # b[2]
          <6>1. 1 \in DOMAIN b /\ 2 \in DOMAIN b /\ 1 # 2
            BY <3>6
          <6> QED
            BY <6>1, <3>6 DEF IsInjective
        <5>7. IsInjective(d)
          BY <5>2, <5>5, <5>6 DEF IsInjective
        <5>8. ToSet(d) = {b[1], b[2]} /\ ToSet(b) = {b[1], b[2]}
          BY <5>2, <5>5, <3>6 DEF ToSet
        <5>9. ASSUME NEW m \in Remaining PROVE Holds(d, m)
          <6>1. \E x \in ToSet(b) : x \in m
            BY <3>6 DEF Holds, ToSet
          <6> QED
            BY <6>1, <5>8 DEF Holds, ToSet
        <5> QED
          BY <5>2, <5>4, <5>7, <5>8, <5>9, <3>6 DEF ClauseOK
      <4> QED
        BY <3>4, <4>1, <4>2
    <3>8. [order EXCEPT !.front[d[2]] = d[1]] \in Orders
      <4>1. [order.front EXCEPT ![d[2]] = d[1]] \in [Literals -> Literals \cup {0}]
        BY <1>2, <3>7
      <4> QED
        BY <4>1, <1>2 DEF Orders
    <3>9. c.clause = d /\ c.order = [order EXCEPT !.front[d[2]] = d[1]]
      BY <3>1
    <3>10. ToSet(c.clause) = ToSet(b) /\ ClauseOK(c.clause, Remaining) /\ c.order \in Orders
      BY <3>7, <3>8, <3>9
    <3> QED
      BY <3>5, <3>10 DEF b
  <2> QED
    BY <2>1, <2>2 DEF Conflicts
<1>4. PICK k \in Pool : False(k[1]) /\ Of(k)
  BY <1>3
<1> DEFINE b == k[1]
<1>5. /\ ToSet(c.clause) = ToSet(b) /\ ClauseOK(c.clause, Remaining) /\ c.order \in Orders /\ False(b)
      /\ Guarded(trail, dLevel, b) /\ b \in Seq(Literals)
  BY <1>1, <1>4, PoolFacts DEF ConflictsOK, ClauseOK
<1> HIDE DEF b, Of
<1>6. \A x \in ToSet(c.clause) : RESOLVED(x)
  BY <1>5 DEF False, ToSet
<1>7. PICK i \in DOMAIN trail : trail[i].dLevel = dLevel /\ NEG(trail[i].lit) \in ToSet(b)
  BY <1>5 DEF Guarded, FalseIn, False, RESOLVED
<1>8. LevelOf(NEG(trail[i].lit)) = dLevel
  <2>0. i \in 1 .. Len(trail) /\ trail[i].lit \in Literals
    BY <1>1, OnTrail
  <2>1. i \in 1 .. Len(trail) /\ VAR(NEG(trail[i].lit)) = VAR(trail[i].lit)
    BY <2>0, LiteralFacts
  <2> QED
    BY <2>1, <1>1, <1>7, OnTrail
<1> QED
  BY <1>5, <1>6, <1>7, <1>8

\* The clause that is learnt asserts its first literal below.
LEMMA AssertedFacts ==
  ASSUME NEW M, M \subseteq Assignments, TrailOK(trail, dLevel, M), dLevel \in Nat,
         NEW c, NEW level, LearntOK(c, level, M)
  PROVE  LET e == Entry(c[1], level, c, FALSE)
         IN  e \in Entries /\ NewEntry(Below(level), e, M)
<1> DEFINE e == Entry(c[1], level, c, FALSE)
           u == Below(level)
<1>1. /\ c \in Seq(Literals) /\ c # << >> /\ IsInjective(c) /\ \A m \in M : Holds(c, m)
      /\ level \in 1 .. dLevel - 1 /\ (Len(c) > 1 <=> level > 1)
      /\ \A k \in 2 .. Len(c) : \E i \in 1 .. Len(trail) : trail[i].lit = NEG(c[k]) /\ trail[i].dLevel <= level
  BY DEF LearntOK
<1>2. PICK k \in 1 .. Len(trail) : trail[k].lit = NEG(c[1]) /\ trail[k].dLevel = dLevel
  BY DEF LearntOK
<1>3. Len(c) \in Nat \ {0} /\ DOMAIN c = 1 .. Len(c) /\ 1 \in DOMAIN c /\ c[1] \in Literals
  BY <1>1
<1>4. level \in Nat \ {0} /\ level < dLevel
  BY <1>1
<1>5. e \in Entries /\ e.lit = c[1] /\ e.dLevel = level /\ e.ante = c
  BY <1>1, <1>3, <1>4 DEF Entry, Entries
<1>6. DOMAIN trail = 1 .. Len(trail) /\ Distinct(trail)
  BY OnTrail DEF TrailOK
<1> HIDE DEF e, u
<1>7. /\ \A i \in DOMAIN u : \E j \in DOMAIN trail : u[i] = trail[j] /\ trail[j].dLevel <= level
      /\ \A j \in DOMAIN trail : trail[j].dLevel <= level => \E i \in DOMAIN u : u[i] = trail[j]
  BY <1>4, BelowFacts DEF u
<1>8. ASSUME NEW i \in DOMAIN u PROVE VAR(u[i].lit) # VAR(c[1]) /\ u[i].dLevel <= level
  <2>1. PICK j \in DOMAIN trail : u[i] = trail[j] /\ trail[j].dLevel <= level
    BY <1>7
  <2>2. j # k
    BY <2>1, <1>2, <1>4
  <2>3. VAR(trail[k].lit) = VAR(c[1])
    BY <1>2, <1>3, LiteralFacts
  <2> QED
    BY <2>1, <2>2, <2>3, <1>6 DEF Distinct
<1>9. ASSUME NEW j \in 2 .. Len(c) PROVE \E i \in DOMAIN u : u[i].lit = NEG(c[j])
  <2>1. PICK i \in DOMAIN trail : trail[i].lit = NEG(c[j]) /\ trail[i].dLevel <= level
    BY <1>1, <1>6
  <2> QED
    BY <2>1, <1>7
<1>10. ASSUME level = 1, NEW m \in M PROVE c[1] \in m
  <2>1. Len(c) = 1
    BY <1>1, <1>3, <1>10
  <2> QED
    BY <2>1, <1>1, <1>3 DEF Holds
<1>11. NewEntry(u, e, M)
  BY <1>1, <1>4, <1>5, <1>8, <1>9, <1>10 DEF NewEntry
<1> QED
  BY <1>5, <1>11 DEF e, u

LEMMA LearnAndBacktrackInv ==
  ASSUME Inv, LearnAndBacktrack
  PROVE  Inv'
<1>1. PICK c \in Conflicts, restart \in BOOLEAN :
        LET s == Resolved(c.clause, c.order)
            learnt == LearntClause(s)
            aLevel == aLevelOf(Kept(s))
            level == IF restart THEN 1 ELSE aLevel
        IN  /\ clauses' = IF Len(learnt) > 1 THEN Append(clauses, learnt) ELSE clauses
            /\ nextClause' = Len(clauses')
            /\ order' \in FreedAbove(s, level)
            /\ phase' = PhaseAbove(level)
            /\ dLevel' = level
            /\ IF level = aLevel
               THEN pc' = "asserting" /\ trail' = Append(Below(level), Entry(learnt[1], level, learnt, FALSE))
               ELSE pc' = "selecting" /\ trail' = Below(level)
  BY DEF LearnAndBacktrack
<1> DEFINE s == Resolved(c.clause, c.order)
           learnt == LearntClause(s)
           aLevel == aLevelOf(Kept(s))
           level == IF restart THEN 1 ELSE aLevel
           e == Entry(learnt[1], level, learnt, FALSE)
           u == Below(level)
<1>2. /\ clauses' = IF Len(learnt) > 1 THEN Append(clauses, learnt) ELSE clauses
      /\ nextClause' = Len(clauses')
      /\ order' \in FreedAbove(s, level)
      /\ phase' = PhaseAbove(level)
      /\ dLevel' = level
      /\ IF level = aLevel THEN pc' = "asserting" /\ trail' = Append(u, e) ELSE pc' = "selecting" /\ trail' = u
  BY <1>1
<1>3. /\ pc = "asserting" /\ dLevel > 1 /\ UNCHANGED <<problem, blocking, unit_conflicts, answers>>
  BY DEF LearnAndBacktrack
<1>4. TypeOK /\ TrailOK(trail, dLevel, Remaining) /\ ClausesOK /\ ConflictsOK /\ UnitsOK
  BY DEF Inv
<1>5. /\ dLevel \in Nat /\ clauses \in Seq(Seq(Literals)) /\ phase \in [Vars -> BOOLEAN] /\ cnf \in Cnfs
      /\ answers \in Seq(Seq(Literals))
  BY <1>4 DEF TypeOK
<1>6. Remaining \subseteq Assignments
  BY <1>5, RemainingFacts
<1>7. Learning(s, 0, Remaining) /\ s.uip # 0
  BY <1>3, <1>4, <1>5, <1>6, ConflictFacts, ResolvedFacts
<1> HIDE DEF s
<1>8. LearntOK(learnt, aLevel, Remaining)
  BY <1>3, <1>4, <1>5, <1>6, <1>7, LearntFacts
<1> HIDE DEF learnt, aLevel
<1>9. /\ aLevel \in 1 .. dLevel - 1 /\ learnt \in Seq(Literals) /\ learnt # << >> /\ learnt[1] \in Literals
      /\ (Len(learnt) > 1 => ClauseOK(learnt, Remaining))
      /\ \E k \in 1 .. Len(trail) : trail[k].lit = NEG(learnt[1]) /\ trail[k].dLevel = dLevel
  <2>1. learnt \in Seq(Literals) /\ learnt # << >>
    BY <1>8 DEF LearntOK
  <2>2. 1 \in DOMAIN learnt
    BY <2>1
  <2> QED
    BY <1>8, <2>1, <2>2 DEF LearntOK, ClauseOK
<1>10. level \in Nat \ {0} /\ level < dLevel
  BY <1>3, <1>5, <1>9
<1>11. trail \in Seq(Entries) /\ DOMAIN trail = 1 .. Len(trail) /\ Distinct(trail)
  BY <1>4, OnTrail DEF TrailOK
<1> HIDE DEF e, u, level
<1>12. /\ u \in Seq(Entries) /\ TrailOK(u, level, Remaining)
       /\ \A i \in DOMAIN u : \E j \in DOMAIN trail : u[i] = trail[j] /\ trail[j].dLevel <= level
       /\ \A j \in DOMAIN trail : trail[j].dLevel <= level => \E i \in DOMAIN u : u[i] = trail[j]
  BY <1>4, <1>5, <1>10, BelowFacts DEF u
<1>13. clauses' \in Seq(Seq(Literals)) /\ \A i \in DOMAIN clauses : i \in DOMAIN clauses' /\ clauses'[i] = clauses[i]
  BY <1>2, <1>5, <1>9
<1>14. /\ Remaining' = Remaining /\ Others' = Others /\ cnf' \in Cnfs
       /\ unit_conflicts' \in Seq(Literals) /\ answers' \in Seq(Seq(Literals))
       /\ blocking' \in Seq(Nat) /\ \A i \in DOMAIN blocking' : blocking'[i] \in DOMAIN clauses'
       /\ AnswersOK' /\ DisjointOK'
  BY <1>3, <1>13, Stay
<1>15. ToSet(clauses') \subseteq ToSet(clauses) \cup {x \in {learnt} : Len(learnt) > 1}
  BY <1>2, <1>5, <1>9 DEF ToSet
<1>16. \A i \in DOMAIN u : u[i].dLevel < dLevel
  <2>1. \A j \in DOMAIN trail : trail[j].dLevel \in Nat
    BY <1>4, <1>5, <1>11, OnTrail
  <2> QED
    BY <2>1, <1>5, <1>10, <1>12
<1>17. ASSUME NEW x \in Seq(Literals), NEW k \in DOMAIN trail, trail[k].dLevel = dLevel, NEG(trail[k].lit) \in ToSet(x)
       PROVE  ~ FalseIn(u, x)
  <2>1. PICK i \in DOMAIN x : x[i] = NEG(trail[k].lit)
    BY <1>17 DEF ToSet
  <2>0. trail[k].lit \in Literals
    BY <1>4, <1>11, OnTrail
  <2>2. NEG(x[i]) = trail[k].lit
    BY <2>0, <2>1, LiteralFacts
  <2>3. ASSUME trail[k].lit \in Assigned(u) PROVE FALSE
    <3>1. PICK j \in DOMAIN u : u[j].lit = trail[k].lit
      BY <2>3 DEF Assigned
    <3>2. PICK h \in DOMAIN trail : u[j] = trail[h]
      BY <1>12
    <3>3. h = k
      BY <3>1, <3>2, <1>11 DEF Distinct
    <3>4. u[j].dLevel = dLevel
      BY <3>2, <3>3, <1>17
    <3>5. u[j].dLevel < dLevel
      BY <1>16
    <3> QED
      BY <3>4, <3>5, <1>5
  <2> QED
    BY <2>1, <2>2, <2>3 DEF FalseIn
<1>18. \A x \in ToSet(Others) \cup ToSet(clauses) : x \in Seq(Literals) /\ ~ FalseIn(u, x)
  <2>1. ASSUME NEW x \in ToSet(Others) \cup ToSet(clauses) PROVE x \in Seq(Literals) /\ ~ FalseIn(u, x)
    <3>1. x \in Seq(Literals) /\ Guarded(trail, dLevel, x)
      BY <1>4, PoolFacts DEF ConflictsOK, ClauseOK
    <3>2. \A l \in Assigned(u) : l \in Assigned(trail)
      BY <1>12 DEF Assigned
    <3>3. FalseIn(u, x) => FalseIn(trail, x)
      BY <3>2 DEF FalseIn
    <3>4. FalseIn(u, x) => \E k \in DOMAIN trail : trail[k].dLevel = dLevel /\ NEG(trail[k].lit) \in ToSet(x)
      BY <3>1, <3>3 DEF Guarded
    <3> QED
      BY <3>1, <3>4, <1>17
  <2> QED
    BY <2>1
<1>19. ~ FalseIn(u, learnt)
  <2>1. PICK k \in 1 .. Len(trail) : trail[k].lit = NEG(learnt[1]) /\ trail[k].dLevel = dLevel
    BY <1>9
  <2>2. NEG(trail[k].lit) = learnt[1]
    BY <2>1, <1>9, LiteralFacts
  <2>3. learnt[1] \in ToSet(learnt) /\ k \in DOMAIN trail
    BY <1>9, <1>11 DEF ToSet
  <2> QED
    BY <2>1, <2>2, <2>3, <1>9, <1>17
<1>20. \A x \in ToSet(Others') \cup ToSet(clauses') : x \in Seq(Literals) /\ ~ FalseIn(u, x)
  BY <1>9, <1>14, <1>15, <1>18, <1>19
<1>21. ClausesOK'
  <2>1. ASSUME NEW i \in DOMAIN clauses' PROVE ClauseOK(clauses'[i], Remaining)
    <3>1. clauses'[i] \in ToSet(clauses')
      BY DEF ToSet
    <3>2. \A x \in ToSet(clauses) : ClauseOK(x, Remaining)
      BY PoolFacts
    <3> QED
      BY <3>1, <3>2, <1>9, <1>15
  <2> QED
    BY <2>1, <1>14 DEF ClausesOK
<1>22. order' \in Orders /\ phase' \in [Vars -> BOOLEAN] /\ nextClause' \in 0 .. Len(clauses')
  <2>1. s.orders \in SUBSET Orders
    BY <1>7 DEF Learning, Searches
  <2>2. order' \in Orders
    BY <2>1, <1>2, <1>11, FreedAboveType
  <2>3. phase' \in [Vars -> BOOLEAN]
    <3>1. phase' = [v \in Vars |-> IF \E x \in ToSet(Above(level)) : VAR(x.lit) = v /\ x.dLevel < dLevel
                                  THEN SET(v) ELSE phase[v]]
      BY <1>2 DEF PhaseAbove
    <3>2. \A v : SET(v) \in BOOLEAN
      BY DEF SET
    <3> QED
      BY <3>1, <3>2, <1>5
  <2>4. nextClause' \in 0 .. Len(clauses')
    BY <1>2, <1>13
  <2> QED
    BY <2>2, <2>3, <2>4
<1>23. TypeOK'
  <2>1. dLevel' \in Nat /\ dLevel' # 0
    BY <1>2, <1>10
  <2>2. pc' \in {"asserting", "selecting"}
    BY <1>2
  <2> QED
    BY <1>13, <1>14, <1>22, <2>1, <2>2 DEF TypeOK
<1>24. ASSUME NEW x \in ToSet(unit_conflicts)
       PROVE  (\A m \in Remaining : x \in m) /\ \E i \in DOMAIN u : u[i].lit = x /\ u[i].dLevel = 1
  <2>1. PICK j \in DOMAIN trail : trail[j].lit = x /\ trail[j].dLevel = 1
    BY <1>3, <1>4, <1>5 DEF UnitsOK
  <2>2. trail[j].dLevel <= level
    BY <2>1, <1>10
  <2> QED
    BY <2>1, <2>2, <1>4, <1>12 DEF UnitsOK
<1>25. CASE level = aLevel
  <2>1. pc' = "asserting" /\ trail' = Append(u, e)
    BY <1>2, <1>25
  <2>2. e \in Entries /\ NewEntry(u, e, Remaining)
    BY <1>4, <1>5, <1>6, <1>8, <1>25, AssertedFacts DEF e, u
  <2>3. e.dLevel = level
    BY DEF e, Entry
  <2>4. TrailOK(trail', dLevel', Remaining')
    <3>1. TrailOK(Append(u, e), e.dLevel, Remaining)
      BY <1>12, <2>2, TrailAppend
    <3> QED
      BY <3>1, <1>2, <1>14, <2>1, <2>3
  <2>5. /\ Len(u) + 1 \in DOMAIN trail' /\ trail'[Len(u) + 1] = e
        /\ \A i \in DOMAIN u : i \in DOMAIN trail' /\ trail'[i] = u[i]
        /\ \A x \in Seq(Literals) : FalseIn(trail', x) => FalseIn(u, x) \/ NEG(e.lit) \in ToSet(x)
    BY <1>12, <2>1, <2>2, AppendedFacts
  <2>6. \A x \in ToSet(Others') \cup ToSet(clauses') : Guarded(trail', level, x)
    BY <1>20, <2>3, <2>5 DEF Guarded
  <2>7. ConflictsOK'
    BY <1>2, <2>1, <2>6 DEF ConflictsOK
  <2>8. UnitsOK'
    <3>1. ASSUME NEW x \in ToSet(unit_conflicts)
          PROVE  (\A m \in Remaining : x \in m) /\ \E i \in DOMAIN trail' : trail'[i].lit = x /\ trail'[i].dLevel = 1
      BY <1>24, <2>5
    <3>2. unit_conflicts' = unit_conflicts /\ Remaining' = Remaining
      BY <1>3, <1>14
    <3> QED
      BY <3>1, <3>2 DEF UnitsOK
  <2> QED
    BY <1>2, <1>10, <1>14, <1>21, <1>23, <2>1, <2>4, <2>7, <2>8 DEF Inv
<1>26. CASE level # aLevel
  <2>1. pc' = "selecting" /\ trail' = u
    BY <1>2, <1>26
  <2>2. TrailOK(trail', dLevel', Remaining')
    BY <1>2, <1>12, <1>14, <2>1
  <2>3. ConflictsOK'
    BY <1>20, <2>1 DEF ConflictsOK, Guarded
  <2>4. UnitsOK'
    BY <1>3, <1>14, <1>24, <2>1 DEF UnitsOK
  <2> QED
    BY <1>2, <1>10, <1>14, <1>21, <1>23, <2>1, <2>2, <2>3, <2>4 DEF Inv
<1> QED
  BY <1>25, <1>26

\* A trail follows from fewer models too.
LEMMA TrailFewer ==
  ASSUME NEW t, NEW d, NEW M, TrailOK(t, d, M), NEW N \in SUBSET M
  PROVE  TrailOK(t, d, N)
<1>1. \A m \in N : m \in M
  OBVIOUS
<1> QED
  BY <1>1 DEF TrailOK, Justified

\* An answer that satisfies every clause of the problem does so with whatever
\* values the other reported variables have.
LEMMA CubeFacts ==
  ASSUME NEW d, NEW M, TrailOK(trail, d, M), cnf \in Cnfs, NEW kept \in SUBSET Vars,
         \A c \in ToSet(cnf) : \E l \in ToSet(c) : SET(l) /\ VAR(l) \in kept
  PROVE  CubeOK(AnswerOf(kept))
<1> DEFINE R == Reported \cup {-v : v \in Reported}
<1> SUFFICES ASSUME NEW n \in Assignments, ToSet(AnswerOf(kept)) \subseteq n \cap R
             PROVE  \E m \in Models(cnf) : n \cap R \subseteq m
  BY DEF CubeOK
<1> DEFINE r == n \cap R
           f == [v \in Vars |-> IF v \in Reported THEN v \in r ELSE SET(v)]
           m == {IF f[v] THEN v ELSE -v : v \in Vars}
<1>1. f \in [Vars -> BOOLEAN]
  <2>1. \A v : SET(v) \in BOOLEAN
    BY DEF SET
  <2>2. \A v : (v \in r) \in BOOLEAN
    OBVIOUS
  <2> HIDE DEF r
  <2> QED
    BY <2>1, <2>2
<1>2. m \in Assignments
  BY <1>1 DEF Assignments
<1>3. Reported \subseteq Vars
  BY CdclAssumption DEF Vars
<1>4. ASSUME NEW v \in Vars
      PROVE  /\ v \in Reported => (f[v] <=> v \in r)
             /\ v \notin Reported => (f[v] <=> SET(v))
  OBVIOUS
<1>5. ASSUME NEW v \in Vars PROVE (f[v] => v \in m) /\ (~ f[v] => NEG(v) \in m)
  BY DEF NEG
<1> HIDE DEF f, m
<1>6. ASSUME NEW l \in r PROVE l \in m
  <2>1. l \in Literals /\ l \in n
    BY AssignmentFacts
  <2>2. VAR(l) \in Reported
    <3>1. CASE l \in Reported
      <4>1. l \in Nat \ {0}
        BY <3>1, <1>3, CdclAssumption DEF Vars
      <4> QED
        BY <3>1, <4>1 DEF VAR
    <3>2. CASE \E v \in Reported : l = -v
      <4>1. PICK v \in Reported : l = -v
        BY <3>2
      <4>2. v \in Nat \ {0}
        BY <1>3, CdclAssumption DEF Vars
      <4> QED
        BY <4>1, <4>2 DEF VAR
    <3> QED
      BY <3>1, <3>2
  <2>3. VAR(l) \in Vars /\ (l = VAR(l) \/ l = NEG(VAR(l)))
    BY <2>1, LiteralFacts
  <2>4. CASE l = VAR(l)
    <3>1. VAR(l) \in r
      BY <2>4, <1>6
    <3>2. f[VAR(l)]
      BY <3>1, <2>2, <2>3, <1>4
    <3> QED
      BY <3>2, <2>3, <2>4, <1>5
  <2>5. CASE l = NEG(VAR(l))
    <3>1. VAR(l) \notin n
      BY <2>1, <2>3, <2>5, LiteralFacts, AssignmentFacts
    <3> QED
      BY <2>2, <2>3, <2>5, <3>1, <1>4, <1>5
  <2> QED
    BY <2>3, <2>4, <2>5
<1>7. \A c \in ToSet(cnf) : c \in Seq(Literals)
  BY CnfFacts
<1>8. ASSUME NEW c \in ToSet(cnf) PROVE \E l \in ToSet(c) : l \in m
  <2>1. PICK l \in ToSet(c) : SET(l) /\ VAR(l) \in kept
    OBVIOUS
  <2>2. l \in Literals
    <3>1. PICK i \in DOMAIN c : c[i] = l
      BY DEF ToSet
    <3>2. c \in Seq(Literals)
      BY <1>7
    <3> QED
      BY <3>1, <3>2
  <2>3. VAR(l) \in Vars /\ NEG(l) \in Literals /\ (l = VAR(l) \/ l = NEG(VAR(l))) /\ (l = NEG(VAR(l)) => VAR(l) = NEG(l))
    BY <2>2, LiteralFacts
  <2>4. CASE VAR(l) \in Reported
    <3>1. l \in ToSet(AnswerOf(kept))
      BY <2>1, <2>2, <2>4, AnswerFacts
    <3> QED
      BY <3>1, <1>6
  <2>5. CASE VAR(l) \notin Reported
    <3>1. f[VAR(l)] <=> SET(VAR(l))
      BY <1>4, <2>3, <2>5
    <3>2. CASE l = VAR(l)
      BY <3>1, <3>2, <2>1, <2>3, <1>5
    <3>3. CASE l = NEG(VAR(l))
      <4>1. ~ RESOLVED(l)
        BY <2>1, <2>2, OnTrail
      <4>2. ~ SET(VAR(l))
        BY <4>1, <3>3, <2>3 DEF RESOLVED, SET
      <4> QED
        BY <3>1, <3>3, <4>2, <2>3, <1>5
    <3> QED
      BY <3>2, <3>3, <2>3
  <2> QED
    BY <2>4, <2>5
<1>9. \A i \in DOMAIN cnf : cnf[i] \in ToSet(cnf)
  BY DEF ToSet
<1>10. m \in Models(cnf)
  BY <1>2, <1>8, <1>9 DEF Models
<1> QED
  BY <1>6, <1>10

\* What is kept for the problem and for every answer that is excluded.
LEMMA TrimmedFacts ==
  ASSUME Inv, \A i \in DOMAIN Verified : Satisfied(Verified[i]), NEW kept \in Trimmed
  PROVE  /\ kept \in SUBSET Vars
         /\ \A c \in ToSet(cnf) : \E l \in ToSet(c) : SET(l) /\ VAR(l) \in kept
         /\ \A k \in DOMAIN blocking : \E l \in ToSet(clauses[blocking[k]]) : SET(l) /\ VAR(l) \in kept
         /\ \A u \in ToSet(unit_conflicts) : VAR(u) \in kept
<1> DEFINE bs == [k \in DOMAIN blocking |-> clauses[blocking[k]]]
<1>1. /\ cnf \in Cnfs /\ clauses \in Seq(Seq(Literals)) /\ unit_conflicts \in Seq(Literals)
      /\ blocking \in Seq(Nat) /\ \A k \in DOMAIN blocking : blocking[k] \in DOMAIN clauses
  BY DEF Inv, TypeOK
<1>2. cnf \in Seq(Seq(Literals)) /\ DOMAIN cnf = 1 .. Len(cnf) /\ Len(cnf) \in Nat
  BY <1>1, CnfFacts
<1>3. bs \in Seq(Seq(Literals)) /\ Len(bs) = Len(blocking) /\ Len(blocking) \in Nat /\ DOMAIN blocking = 1 .. Len(blocking)
  <2>1. \A k \in DOMAIN blocking : clauses[blocking[k]] \in Seq(Literals)
    BY <1>1
  <2>2. Len(blocking) \in Nat /\ DOMAIN blocking = 1 .. Len(blocking)
    BY <1>1
  <2>3. bs \in [1 .. Len(blocking) -> Seq(Literals)]
    BY <2>1, <2>2
  <2> HIDE DEF bs
  <2> QED
    BY <2>2, <2>3
<1>4. \A k \in DOMAIN blocking : bs[k] = clauses[blocking[k]]
  OBVIOUS
<1>5. Verified = cnf \o bs
  BY DEF Verified
<1> HIDE DEF bs
<1>6. /\ Verified \in Seq(Seq(Literals)) /\ Len(Verified) = Len(cnf) + Len(blocking)
      /\ \A i \in 1 .. Len(cnf) + Len(blocking) : Verified[i] = IF i <= Len(cnf) THEN cnf[i] ELSE bs[i - Len(cnf)]
  <2>1. PICK S : S = Seq(Literals)
    OBVIOUS
  <2>2. cnf \in Seq(S) /\ bs \in Seq(S)
    BY <1>2, <1>3, <2>1
  <2>3. /\ cnf \o bs \in Seq(S) /\ Len(cnf \o bs) = Len(cnf) + Len(bs)
        /\ \A i \in 1 .. Len(cnf) + Len(bs) : (cnf \o bs)[i] = IF i <= Len(cnf) THEN cnf[i] ELSE bs[i - Len(cnf)]
    BY ONLY <2>2, ConcatProperties
  <2> QED
    BY <2>1, <2>3, <1>3, <1>5
<1>7. DOMAIN Verified = 1 .. Len(cnf) + Len(blocking)
  BY <1>6
<1>8. Verified \in Seq(Satisfiable)
  <2>1. ASSUME NEW i \in DOMAIN Verified PROVE Verified[i] \in Satisfiable
    BY <1>6 DEF Satisfiable
  <2>2. \A i \in 1 .. Len(Verified) : Verified[i] \in Satisfiable
    BY <2>1, <1>6, <1>7
  <2> QED
    <3>1. PICK S : S = Seq(Literals)
      OBVIOUS
    <3>2. Verified \in Seq(S)
      BY <3>1, <1>6
    <3> QED
      BY ONLY <2>2, <3>2
<1>9. PICK k0 \in Keepings(Verified) : kept = k0 \cup {VAR(unit_conflicts[i]) : i \in DOMAIN unit_conflicts}
  BY DEF Trimmed, Keepings
<1>10. k0 \in SUBSET Vars /\ \A i \in 1 .. Len(Verified) : \E l \in ToSet(Verified[i]) : SET(l) /\ VAR(l) \in k0
  BY <1>8, <1>9, KeptFacts
<1>11. \A i \in 1 .. Len(Verified) : \E l \in ToSet(Verified[i]) : SET(l) /\ VAR(l) \in kept
  BY <1>9, <1>10
<1>12. \A i \in DOMAIN unit_conflicts : VAR(unit_conflicts[i]) \in Vars
  <2>1. \A i \in DOMAIN unit_conflicts : unit_conflicts[i] \in Literals
    BY <1>1
  <2> QED
    BY <2>1, LiteralFacts
<1>13. ASSUME NEW c \in ToSet(cnf) PROVE \E l \in ToSet(c) : SET(l) /\ VAR(l) \in kept
  <2>1. PICK i \in 1 .. Len(cnf) : cnf[i] = c
    BY <1>2 DEF ToSet
  <2>2. i \in 1 .. Len(Verified) /\ Verified[i] = c
    BY <2>1, <1>2, <1>3, <1>6
  <2> QED
    BY <2>2, <1>11
<1>14. ASSUME NEW k \in DOMAIN blocking PROVE \E l \in ToSet(clauses[blocking[k]]) : SET(l) /\ VAR(l) \in kept
  <2> DEFINE j == Len(cnf) + k
  <2>1. j \in 1 .. Len(cnf) + Len(blocking) /\ ~ (j <= Len(cnf)) /\ j - Len(cnf) = k
    BY <1>2, <1>3
  <2> HIDE DEF j
  <2>2. Verified[j] = clauses[blocking[k]]
    BY <2>1, <1>4, <1>6
  <2> QED
    BY <2>1, <2>2, <1>6, <1>11
<1> QED
  BY <1>9, <1>10, <1>12, <1>13, <1>14 DEF ToSet

\* A new answer is another cube than those before.
LEMMA NewAnswerFacts ==
  ASSUME Inv, pc = "selecting", \A i \in DOMAIN Verified : Satisfied(Verified[i]), NEW kept \in Trimmed,
         NEW a, a = AnswerOf(kept)
  PROVE  /\ a \in Seq(Literals) /\ IsInjective(a) /\ CubeOK(a) /\ \A x \in ToSet(a) : VAR(x) \in Reported
         /\ \A i \in DOMAIN answers : answers[i] # << >> /\ \E x \in ToSet(answers[i]) : -x \in ToSet(a)
<1>1. TypeOK /\ TrailOK(trail, dLevel, Remaining) /\ UnitsOK /\ AnswersOK
  BY DEF Inv
<1>2. /\ cnf \in Cnfs /\ dLevel \in Nat /\ dLevel > 0 /\ answers \in Seq(Seq(Literals))
      /\ unit_conflicts \in Seq(Literals)
  BY <1>1 DEF TypeOK
<1>3. /\ kept \in SUBSET Vars
      /\ \A c \in ToSet(cnf) : \E l \in ToSet(c) : SET(l) /\ VAR(l) \in kept
      /\ \A k \in DOMAIN blocking : \E l \in ToSet(clauses[blocking[k]]) : SET(l) /\ VAR(l) \in kept
      /\ \A u \in ToSet(unit_conflicts) : VAR(u) \in kept
  BY TrimmedFacts
<1>4. /\ a \in Seq(Literals) /\ IsInjective(a)
      /\ ToSet(a) = {l \in Literals : VAR(l) \in Reported \cap kept /\ SET(l)}
  BY <1>1, <1>3, AnswerFacts
<1>5. CubeOK(a)
  BY <1>1, <1>2, <1>3, CubeFacts
<1>6. ASSUME NEW i \in DOMAIN answers
      PROVE  answers[i] # << >> /\ \E x \in ToSet(answers[i]) : -x \in ToSet(a)
  <2> DEFINE b == answers[i]
  <2>1. b \in Seq(Literals) /\ AnswerOK(b)
    BY <1>1, <1>2 DEF AnswersOK
  <2> HIDE DEF b
  <2>2. b # << >> /\ \A x \in ToSet(b) : VAR(x) \in Reported
    BY <2>1 DEF AnswerOK
  <2>3. Len(b) \in Nat \ {0} /\ 1 \in DOMAIN b
    BY <2>1, <2>2
  <2>4. ASSUME NEW x \in ToSet(b), SET(NEG(x)), VAR(NEG(x)) \in kept PROVE -x \in ToSet(a)
    <3>1. x \in Literals
      <4>1. PICK k \in DOMAIN b : b[k] = x
        BY DEF ToSet
      <4> QED
        BY <4>1, <2>1
    <3>2. NEG(x) \in Literals /\ VAR(NEG(x)) = VAR(x) /\ NEG(x) = -x
      BY <3>1, LiteralFacts DEF NEG
    <3> QED
      BY <3>2, <2>2, <2>4, <1>4
  <2>5. CASE Len(b) = 1
    <3>1. NEG(b[1]) \in ToSet(unit_conflicts) /\ b[1] \in ToSet(b)
      BY <2>1, <2>3, <2>5 DEF AnswerOK, ToSet
    <3>2. SET(NEG(b[1]))
      BY <3>1, <1>1, <1>2 DEF UnitsOK, SET, Assigned
    <3> QED
      BY <2>2, <2>4, <3>1, <3>2, <1>3 DEF b
  <2>6. CASE Len(b) > 1
    <3>1. PICK k \in DOMAIN blocking : ToSet(clauses[blocking[k]]) = {NEG(x) : x \in ToSet(b)}
      BY <2>1, <2>6 DEF AnswerOK
    <3>2. PICK l \in ToSet(clauses[blocking[k]]) : SET(l) /\ VAR(l) \in kept
      BY <1>3
    <3>3. PICK x \in ToSet(b) : l = NEG(x)
      BY <3>1, <3>2
    <3>4. -x \in ToSet(a)
      BY <2>4, <3>2, <3>3
    <3> QED
      BY <2>2, <3>4 DEF b
  <2>7. Len(b) = 1 \/ Len(b) > 1
    BY <2>3
  <2> QED
    BY <2>5, <2>6, <2>7
<1> QED
  BY <1>4, <1>5, <1>6

\* What an answer that is added changes.
LEMMA Answered ==
  ASSUME Inv, NEW a \in Seq(Literals), answers' = Append(answers, a), UNCHANGED problem,
         \A i \in DOMAIN answers : \E x \in ToSet(answers[i]) : -x \in ToSet(a)
  PROVE  /\ Remaining' = {m \in Remaining : \E x \in ToSet(a) : NEG(x) \in m}
         /\ Others' = Others /\ cnf' \in Cnfs /\ answers' \in Seq(Seq(Literals)) /\ DisjointOK'
         /\ \A i \in DOMAIN answers' : answers'[i] = a \/ \E j \in DOMAIN answers : answers'[i] = answers[j]
<1>1. cnf \in Cnfs /\ cnf' = cnf /\ cnf \in Seq(Seq(Literals)) /\ answers \in Seq(Seq(Literals)) /\ DisjointOK
  BY CnfFacts DEF Inv, TypeOK, problem
<1>2. PICK S : S = Seq(Literals)
  OBVIOUS
<1>3. /\ answers' \in Seq(S) /\ DOMAIN answers = 1 .. Len(answers) /\ Len(answers) \in Nat
      /\ DOMAIN answers' = 1 .. Len(answers) + 1 /\ answers'[Len(answers) + 1] = a
      /\ \A i \in 1 .. Len(answers) : answers'[i] = answers[i]
  BY <1>1, <1>2
<1>4. answers' \in Seq(Seq(Literals))
  BY <1>2, <1>3
<1>5. \A i \in DOMAIN answers' : i \in DOMAIN answers \/ i = Len(answers) + 1
  BY <1>3
<1>6. \A i \in DOMAIN answers : i \in DOMAIN answers' /\ answers'[i] = answers[i] /\ i < Len(answers) + 1
  BY <1>3
<1>7. Remaining = {m \in Models(cnf) : \A i \in DOMAIN answers : \E x \in ToSet(answers[i]) : NEG(x) \in m}
  BY <1>1, RemainingFacts
<1>8. Remaining' = {m \in Models(cnf) : \A i \in DOMAIN answers' : \E x \in ToSet(answers'[i]) : NEG(x) \in m}
  <2>1. PICK g, ans : g = cnf /\ ans = answers'
    OBVIOUS
  <2>2. g \in Seq(Seq(Literals)) /\ ans \in Seq(Seq(Literals))
    BY <1>1, <1>4, <2>1
  <2>3. Models(g \o [i \in DOMAIN ans |-> [k \in DOMAIN ans[i] |-> -ans[i][k]]])
          = {m \in Models(g) : \A i \in DOMAIN ans : \E x \in ToSet(ans[i]) : NEG(x) \in m}
    BY <2>2, ModelsWithout
  <2>4. Remaining' = Models(g \o [i \in DOMAIN ans |-> [k \in DOMAIN ans[i] |-> -ans[i][k]]])
    BY <1>1, <2>1 DEF Remaining, Exclusions
  <2> QED
    BY <2>1, <2>3, <2>4
<1>9. Remaining' = {m \in Remaining : \E x \in ToSet(a) : NEG(x) \in m}
  <2>1. ASSUME NEW m
        PROVE  (\A i \in DOMAIN answers' : \E x \in ToSet(answers'[i]) : NEG(x) \in m)
               <=> /\ \A i \in DOMAIN answers : \E x \in ToSet(answers[i]) : NEG(x) \in m
                   /\ \E x \in ToSet(a) : NEG(x) \in m
    BY <1>3, <1>5, <1>6
  <2> QED
    BY <1>7, <1>8, <2>1
<1>10. Others' = Others
  BY <1>1 DEF Others
<1>11. DisjointOK'
  <2>1. ASSUME NEW i \in DOMAIN answers', NEW j \in DOMAIN answers', i < j
        PROVE  \E x \in ToSet(answers'[i]) : -x \in ToSet(answers'[j])
    <3>1. i \in DOMAIN answers
      BY <2>1, <1>3
    <3>2. CASE j \in DOMAIN answers
      BY <2>1, <3>1, <3>2, <1>1, <1>6 DEF DisjointOK
    <3>3. CASE j = Len(answers) + 1
      BY <3>1, <3>3, <1>3, <1>6
    <3> QED
      BY <3>2, <3>3, <1>5
  <2> QED
    BY <2>1 DEF DisjointOK
<1> QED
  BY <1>1, <1>3, <1>4, <1>5, <1>6, <1>9, <1>10, <1>11

LEMMA FoundModelInv ==
  ASSUME Inv, FoundModel
  PROVE  Inv'
<1>1. pc = "selecting" /\ UNCHANGED <<problem, phase, selected, pauses>>
  BY DEF FoundModel
<1>2. TypeOK /\ TrailOK(trail, dLevel, Remaining) /\ ClausesOK /\ ConflictsOK /\ UnitsOK /\ AnswersOK
  BY DEF Inv
<1>3. /\ cnf \in Cnfs /\ dLevel \in Nat /\ dLevel # 0 /\ clauses \in Seq(Seq(Literals)) /\ order \in Orders
      /\ unit_conflicts \in Seq(Literals) /\ phase \in [Vars -> BOOLEAN] /\ nextClause \in 0 .. Len(clauses)
      /\ blocking \in Seq(Nat) /\ \A i \in DOMAIN blocking : blocking[i] \in DOMAIN clauses
  BY <1>1, <1>2 DEF TypeOK
<1>4. Remaining \subseteq Assignments
  BY <1>2, RemainingFacts DEF TypeOK
<1>5. \A x \in ToSet(Others) \cup ToSet(clauses) : ClauseOK(x, Remaining)
  BY PoolFacts
<1>6. CASE \E i \in DOMAIN Verified : ~Satisfied(Verified[i])
  <2>1. pc' = "thrown" /\ UNCHANGED <<dLevel, trail, added, order, nextClause, answers>>
    BY <1>6 DEF FoundModel
  <2> QED
    BY <1>1, <1>3, <2>1, QuietInv
<1>7. CASE \A i \in DOMAIN Verified : Satisfied(Verified[i])
  <2>1. PICK kept \in Trimmed :
          LET a == AnswerOf(kept)
          IN  /\ answers' = Append(answers, a)
              /\ IF a = << >>
                 THEN pc' = "finished" /\ UNCHANGED <<dLevel, trail, added, order, nextClause>>
                 ELSE /\ clauses' = IF Len(a) > 1 THEN Append(clauses, Excluding(a)) ELSE clauses
                      /\ blocking' = IF Len(a) > 1 THEN Append(blocking, Len(clauses) + 1) ELSE blocking
                      /\ unit_conflicts' = IF Len(a) > 1 THEN unit_conflicts ELSE Append(unit_conflicts, -a[1])
                      /\ ResetTo(unit_conflicts' \o CnfUnits)
    BY <1>7 DEF FoundModel
  <2>2. PICK a : a = AnswerOf(kept)
    OBVIOUS
  <2>3. /\ a \in Seq(Literals) /\ IsInjective(a) /\ CubeOK(a) /\ \A x \in ToSet(a) : VAR(x) \in Reported
        /\ \A i \in DOMAIN answers : answers[i] # << >> /\ \E x \in ToSet(answers[i]) : -x \in ToSet(a)
    BY <1>1, <1>7, <2>2, NewAnswerFacts
  <2>4. answers' = Append(answers, a) /\ UNCHANGED problem
    BY <1>1, <2>1, <2>2
  <2>5. /\ Remaining' = {m \in Remaining : \E x \in ToSet(a) : NEG(x) \in m}
        /\ Others' = Others /\ cnf' \in Cnfs /\ answers' \in Seq(Seq(Literals)) /\ DisjointOK'
        /\ \A i \in DOMAIN answers' : answers'[i] = a \/ \E j \in DOMAIN answers : answers'[i] = answers[j]
    BY <2>3, <2>4, Answered
  <2>6. CASE a = << >>
    <3>1. pc' = "finished" /\ UNCHANGED <<dLevel, trail, added, order, nextClause>>
      BY <2>1, <2>2, <2>6
    <3>2. Remaining' = {}
      BY <2>5, <2>6 DEF ToSet
    <3>3. UNCHANGED <<clauses, blocking, unit_conflicts>>
      BY <3>1 DEF added
    <3>4. TypeOK'
      BY <1>1, <1>2, <1>3, <2>5, <3>1, <3>3 DEF TypeOK
    <3>5. TrailOK(trail, dLevel, {})
      BY <1>2, TrailFewer
    <3>6. ClausesOK'
      <4>1. \A i \in DOMAIN clauses : ClauseOK(clauses[i], {})
        BY <1>2 DEF ClausesOK, ClauseOK
      <4> QED
        BY <4>1, <3>2, <3>3 DEF ClausesOK
    <3>7. ConflictsOK'
      BY <1>2, <2>5, <3>1, <3>3 DEF ConflictsOK
    <3>8. UnitsOK'
      BY <3>1, <3>2 DEF UnitsOK
    <3>9. AnswersOK'
      <4>1. ASSUME NEW b, AnswerOK(b) PROVE AnswerOK(b)'
        BY <4>1, <1>3, <2>4, <3>1, <3>3 DEF AnswerOK, CubeOK, problem
      <4>2. AnswerOK(a)'
        <5>1. Len(a) = 0
          BY <2>6
        <5> QED
          BY <5>1, <2>3, <2>4, <3>1 DEF AnswerOK, CubeOK, problem
      <4>3. \A j \in DOMAIN answers : AnswerOK(answers[j])
        BY <1>2 DEF AnswersOK
      <4> QED
        BY <4>1, <4>2, <4>3, <2>5 DEF AnswersOK
    <3> QED
      BY <2>5, <3>1, <3>2, <3>4, <3>5, <3>6, <3>7, <3>8, <3>9 DEF Inv
  <2>7. CASE a # << >>
    <3> DEFINE units == unit_conflicts' \o CnfUnits
               N == Remaining'
    <3>1. /\ clauses' = IF Len(a) > 1 THEN Append(clauses, Excluding(a)) ELSE clauses
          /\ blocking' = IF Len(a) > 1 THEN Append(blocking, Len(clauses) + 1) ELSE blocking
          /\ unit_conflicts' = IF Len(a) > 1 THEN unit_conflicts ELSE Append(unit_conflicts, -a[1])
      BY <2>1, <2>2, <2>7
    <3>2. /\ dLevel' = 1 /\ nextClause' = Len(clauses') /\ order' = [order EXCEPT !.nextVar = 1]
          /\ IF Contradictory(units) THEN pc' = "finished" /\ trail' = << >> ELSE pc' = "reset" /\ trail' = UnitTrail(units)
      BY <2>1, <2>2, <2>7 DEF ResetTo
    <3>3. N \subseteq Remaining /\ \A m \in N : \E x \in ToSet(a) : NEG(x) \in m
      BY <2>5
    <3> HIDE DEF N
    <3>4. Len(a) \in Nat \ {0} /\ 1 \in DOMAIN a /\ a[1] \in Literals /\ (Len(a) = 1 => ToSet(a) = {a[1]})
      <4>1. Len(a) \in Nat \ {0} /\ DOMAIN a = 1 .. Len(a)
        BY <2>3, <2>7
      <4>2. 1 \in DOMAIN a
        BY <4>1
      <4>3. a[1] \in Literals
        BY <2>3, <4>2
      <4>4. Len(a) = 1 => DOMAIN a = {1}
        BY <4>1
      <4> QED
        BY <4>1, <4>2, <4>3, <4>4 DEF ToSet
    <3>5. NEG(a[1]) \in Literals /\ NEG(a[1]) = -a[1]
      BY <3>4, LiteralFacts DEF NEG
    <3>6. Len(a) > 1 => ClauseOK(Excluding(a), N) /\ ToSet(Excluding(a)) = {NEG(x) : x \in ToSet(a)}
      <4>1. ASSUME Len(a) > 1 PROVE ClauseOK(Excluding(a), N) /\ ToSet(Excluding(a)) = {NEG(x) : x \in ToSet(a)}
        <5>1. /\ Excluding(a) \in Seq(Literals) /\ IsInjective(Excluding(a)) /\ Len(Excluding(a)) = Len(a)
              /\ ToSet(Excluding(a)) = {NEG(x) : x \in ToSet(a)}
          BY <2>3, <4>1, ExcludingFacts
        <5>2. ASSUME NEW m \in N PROVE Holds(Excluding(a), m)
          <6>1. \E x \in ToSet(Excluding(a)) : x \in m
            BY <3>3, <5>1
          <6> QED
            BY <6>1 DEF Holds, ToSet
        <5> QED
          BY <4>1, <5>1, <5>2 DEF ClauseOK
      <4> QED
        BY <4>1
    <3>7. PICK S : S = Seq(Literals)
      OBVIOUS
    <3>8. /\ clauses' \in Seq(Seq(Literals)) /\ Len(clauses) \in Nat
          /\ \A i \in DOMAIN clauses : i \in DOMAIN clauses' /\ clauses'[i] = clauses[i]
          /\ Len(a) > 1 => Len(clauses) + 1 \in DOMAIN clauses' /\ clauses'[Len(clauses) + 1] = Excluding(a)
          /\ \A i \in DOMAIN clauses' : i \in DOMAIN clauses \/ (Len(a) > 1 /\ i = Len(clauses) + 1)
      <4>1. clauses \in Seq(S)
        BY <1>3, <3>7
      <4>2. CASE Len(a) > 1
        <5>1. Excluding(a) \in S
          BY <4>2, <3>6, <3>7 DEF ClauseOK
        <5>2. PICK x \in S : x = Excluding(a)
          BY <5>1
        <5>3. clauses' = Append(clauses, x)
          BY <4>2, <3>1, <5>2
        <5>4. /\ Append(clauses, x) \in Seq(S) /\ Len(clauses) \in Nat /\ DOMAIN clauses = 1 .. Len(clauses)
              /\ DOMAIN Append(clauses, x) = 1 .. Len(clauses) + 1
              /\ \A i \in 1 .. Len(clauses) : Append(clauses, x)[i] = clauses[i]
              /\ Append(clauses, x)[Len(clauses) + 1] = x
          BY ONLY <4>1, x \in S
        <5> HIDE DEF units
        <5> QED
          BY <4>2, <5>2, <5>3, <5>4, <3>7
      <4>3. CASE ~ (Len(a) > 1)
        BY <4>1, <4>3, <3>1, <3>7
      <4> QED
        BY <4>2, <4>3
    <3>9. \A x \in ToSet(Others') \cup ToSet(clauses') : ClauseOK(x, N)
      <4>1. ASSUME NEW x \in ToSet(Others) \cup ToSet(clauses) PROVE ClauseOK(x, N)
        BY <1>5, <3>3 DEF ClauseOK
      <4>2. ASSUME NEW i \in DOMAIN clauses' PROVE ClauseOK(clauses'[i], N)
        BY <3>6, <3>8, <4>1 DEF ToSet
      <4> QED
        BY <4>1, <4>2, <2>5 DEF ToSet
    <3>10. /\ unit_conflicts' \in Seq(Literals)
           /\ \A x \in ToSet(unit_conflicts) : x \in ToSet(unit_conflicts')
           /\ \A x \in ToSet(unit_conflicts') : x \in ToSet(unit_conflicts) \/ (Len(a) = 1 /\ x = NEG(a[1]))
           /\ Len(a) = 1 => NEG(a[1]) \in ToSet(unit_conflicts')
      <4>1. CASE Len(a) > 1
        <5>1. unit_conflicts' = unit_conflicts
          BY <4>1, <3>1
        <5>2. Len(a) # 1
          <6>1. PICK n \in Nat : n = Len(a)
            BY <3>4
          <6>2. n > 1
            BY ONLY <4>1, <6>1
          <6>3. n # 1
            BY ONLY <6>2, n \in Nat
          <6> QED
            BY ONLY <6>1, <6>3
        <5> QED
          BY <5>1, <5>2, <1>3
      <4>2. CASE Len(a) = 1
        <5>1. PICK l \in Literals : l = NEG(a[1])
          BY <3>5
        <5>2. unit_conflicts' = Append(unit_conflicts, l)
          BY <4>2, <3>1, <3>5, <5>1
        <5>3. /\ Append(unit_conflicts, l) \in Seq(Literals) /\ Len(unit_conflicts) \in Nat
              /\ DOMAIN unit_conflicts = 1 .. Len(unit_conflicts)
              /\ DOMAIN Append(unit_conflicts, l) = 1 .. Len(unit_conflicts) + 1
              /\ \A i \in 1 .. Len(unit_conflicts) : Append(unit_conflicts, l)[i] = unit_conflicts[i]
              /\ Append(unit_conflicts, l)[Len(unit_conflicts) + 1] = l
          BY ONLY <1>3, l \in Literals
        <5>4. /\ Len(unit_conflicts) + 1 \in 1 .. Len(unit_conflicts) + 1
              /\ \A i \in 1 .. Len(unit_conflicts) : i \in 1 .. Len(unit_conflicts) + 1
              /\ \A i \in 1 .. Len(unit_conflicts) + 1 : i \in 1 .. Len(unit_conflicts) \/ i = Len(unit_conflicts) + 1
          BY <5>3
        <5> QED
          BY <4>2, <5>1, <5>2, <5>3, <5>4 DEF ToSet
      <4>3. Len(a) > 1 \/ Len(a) = 1
        BY <3>4
      <4> QED
        BY <4>1, <4>2, <4>3
    <3>11. \A x \in ToSet(unit_conflicts'), m \in N : x \in m
      <4>1. \A x \in ToSet(unit_conflicts), m \in N : x \in m
        BY <1>2, <3>3 DEF UnitsOK
      <4>2. ASSUME Len(a) = 1, NEW m \in N PROVE NEG(a[1]) \in m
        BY <4>2, <3>3, <3>4
      <4> QED
        BY <4>1, <4>2, <3>10
    <3>12. CnfUnits \in Seq(Literals) /\ \A x \in ToSet(CnfUnits), m \in N : x \in m
      <4>1. ASSUME NEW x \in ToSet(CnfUnits), NEW m \in N PROVE x \in m
        <5>1. PICK c \in ToSet(cnf) : Len(c) = 1 /\ c[1] = x
          BY <1>3, CnfFacts
        <5>2. c \in Seq(Literals) /\ Holds(c, m)
          BY <1>2, <1>3, <3>3, CnfFacts, RemainingFacts DEF TypeOK
        <5>3. DOMAIN c = {1}
          BY <5>1, <5>2
        <5> QED
          BY <5>1, <5>2, <5>3 DEF Holds
      <4> QED
        BY <4>1, <1>3, CnfFacts
    <3>13. units \in Seq(Literals) /\ ToSet(units) = ToSet(unit_conflicts') \cup ToSet(CnfUnits)
      <4>1. units \in Seq(Literals)
        BY ONLY <3>10, <3>12, ConcatProperties
      <4> QED
        BY <4>1, <3>10, <3>12, JoinedFacts
    <3> HIDE DEF units
    <3>14. \A m \in N, x \in ToSet(units) : x \in m
      BY <3>11, <3>12, <3>13
    <3>15. pc' \in {"finished", "reset"} /\ dLevel' = 1 /\ (pc' = "finished" => N = {} /\ trail' = << >>)
           /\ (pc' = "reset" => ~ Contradictory(units) /\ trail' = UnitTrail(units))
      <4>1. ASSUME Contradictory(units) PROVE N = {}
        <5>1. PICK x \in ToSet(units) : NEG(x) \in ToSet(units)
          BY <4>1 DEF Contradictory
        <5>2. x \in Literals
          <6>1. PICK i \in DOMAIN units : units[i] = x
            BY DEF ToSet
          <6> QED
            BY <6>1, <3>13
        <5>3. ASSUME NEW m \in N PROVE FALSE
          <6>1. x \in m /\ NEG(x) \in m
            BY <5>1, <3>14
          <6>2. m \in Assignments
            BY <1>4, <3>3
          <6> QED
            BY <5>2, <6>1, <6>2, AssignmentFacts
        <5> QED
          BY <5>3
      <4> QED
        BY <4>1, <3>2
    <3>16. /\ TrailOK(trail', dLevel', N)
           /\ \A i \in DOMAIN trail' : trail'[i].dLevel = 1
           /\ pc' = "reset" => \A l \in ToSet(units) : l \in Assigned(trail')
      <4>1. CASE pc' = "finished"
        <5>1. trail' = << >> /\ DOMAIN trail' = {} /\ trail' \in Seq(Entries)
          BY <4>1, <3>15
        <5> QED
          BY <4>1, <5>1 DEF TrailOK, Distinct, Leveled, Reasoned, Decided, Justified
      <4>2. CASE pc' = "reset"
        BY <4>2, <3>13, <3>14, <3>15, UnitTrailFacts
      <4> QED
        BY <4>1, <4>2, <3>15
    <3>17. ConflictsOK'
      <4>1. ASSUME NEW c \in ToSet(Others') \cup ToSet(clauses') PROVE Guarded(trail', 1, c)
        <5>1. c \in Seq(Literals) /\ 1 \in DOMAIN c /\ c[1] \in Literals
          <6>1. c \in Seq(Literals) /\ Len(c) > 1
            BY <3>9 DEF ClauseOK
          <6>2. 1 \in DOMAIN c
            BY <6>1
          <6> QED
            BY <6>1, <6>2
        <5>2. ASSUME FalseIn(trail', c)
              PROVE  \E i \in DOMAIN trail' : trail'[i].dLevel = 1 /\ NEG(trail'[i].lit) \in ToSet(c)
          <6>1. NEG(c[1]) \in Assigned(trail')
            BY <5>1, <5>2 DEF FalseIn
          <6>2. PICK i \in DOMAIN trail' : trail'[i].lit = NEG(c[1])
            BY <6>1 DEF Assigned
          <6>3. NEG(trail'[i].lit) = c[1]
            BY <6>2, <5>1, LiteralFacts
          <6> QED
            BY <6>3, <5>1, <3>16 DEF ToSet
        <5> QED
          BY <5>2 DEF Guarded
      <4> QED
        BY <4>1, <3>15 DEF ConflictsOK
    <3>18. UnitsOK'
      <4>1. ASSUME NEW x \in ToSet(unit_conflicts'), pc' = "reset"
            PROVE  \E i \in DOMAIN trail' : trail'[i].lit = x /\ trail'[i].dLevel = 1
        BY <4>1, <3>13, <3>16 DEF Assigned
      <4> QED
        BY <4>1, <3>11, <3>15 DEF UnitsOK, N
    <3>19. blocking' \in Seq(Nat) /\ (\A i \in DOMAIN blocking' : blocking'[i] \in DOMAIN clauses')
           /\ (\A i \in DOMAIN blocking : i \in DOMAIN blocking' /\ blocking'[i] = blocking[i])
           /\ (Len(a) > 1 => Len(blocking) + 1 \in DOMAIN blocking' /\ blocking'[Len(blocking) + 1] = Len(clauses) + 1)
      <4>1. CASE Len(a) > 1
        <5>1. PICK k \in Nat : k = Len(clauses) + 1
          BY <3>8
        <5>2. /\ Append(blocking, k) \in Seq(Nat) /\ Len(blocking) \in Nat /\ DOMAIN blocking = 1 .. Len(blocking)
              /\ DOMAIN Append(blocking, k) = 1 .. Len(blocking) + 1
              /\ \A i \in 1 .. Len(blocking) : Append(blocking, k)[i] = blocking[i]
              /\ Append(blocking, k)[Len(blocking) + 1] = k
          BY ONLY <1>3, k \in Nat
        <5>3. blocking' = Append(blocking, k)
          BY <4>1, <3>1, <5>1
        <5>4. /\ Len(blocking) + 1 \in 1 .. Len(blocking) + 1
              /\ \A i \in 1 .. Len(blocking) : i \in 1 .. Len(blocking) + 1
              /\ \A i \in 1 .. Len(blocking) + 1 : i \in 1 .. Len(blocking) \/ i = Len(blocking) + 1
          BY <5>2
        <5>5. ASSUME NEW i \in DOMAIN blocking' PROVE blocking'[i] \in DOMAIN clauses'
          BY <4>1, <5>1, <5>2, <5>3, <5>4, <3>8, <1>3
        <5> QED
          BY <4>1, <5>1, <5>2, <5>3, <5>4, <5>5
      <4>2. CASE ~ (Len(a) > 1)
        BY <4>2, <3>1, <3>8, <1>3
      <4> QED
        BY <4>1, <4>2
    <3>20. AnswersOK'
      <4>1. ASSUME NEW b, AnswerOK(b), b # << >> PROVE AnswerOK(b)'
        <5>1. IsInjective(b) /\ CubeOK(b)' /\ \A x \in ToSet(b) : VAR(x) \in Reported
          BY <4>1, <2>4 DEF AnswerOK, CubeOK, problem
        <5>2. Len(b) = 1 => NEG(b[1]) \in ToSet(unit_conflicts')
          BY <4>1, <3>10 DEF AnswerOK
        <5>3. ASSUME Len(b) > 1
              PROVE  \E k \in DOMAIN blocking' : ToSet(clauses'[blocking'[k]]) = {NEG(x) : x \in ToSet(b)}
          <6>1. PICK k \in DOMAIN blocking : ToSet(clauses[blocking[k]]) = {NEG(x) : x \in ToSet(b)}
            BY <4>1, <5>3 DEF AnswerOK
          <6>2. k \in DOMAIN blocking' /\ clauses'[blocking'[k]] = clauses[blocking[k]]
            BY <1>3, <3>8, <3>19
          <6> QED
            BY <6>1, <6>2
        <5> QED
          BY <4>1, <5>1, <5>2, <5>3 DEF AnswerOK
      <4>2. AnswerOK(a)'
        <5>1. IsInjective(a) /\ CubeOK(a)' /\ \A x \in ToSet(a) : VAR(x) \in Reported
          BY <2>3, <2>4 DEF CubeOK, problem
        <5>2. Len(a) = 1 => NEG(a[1]) \in ToSet(unit_conflicts')
          BY <3>10
        <5>3. ASSUME Len(a) > 1
              PROVE  \E k \in DOMAIN blocking' : ToSet(clauses'[blocking'[k]]) = {NEG(x) : x \in ToSet(a)}
          <6>1. /\ Len(blocking) + 1 \in DOMAIN blocking'
                /\ clauses'[blocking'[Len(blocking) + 1]] = Excluding(a)
            BY <5>3, <3>8, <3>19
          <6> QED
            BY <5>3, <6>1, <3>6
        <5> QED
          BY <2>7, <5>1, <5>2, <5>3 DEF AnswerOK
      <4>3. \A j \in DOMAIN answers : AnswerOK(answers[j]) /\ answers[j] # << >>
        BY <1>2, <2>3 DEF AnswersOK
      <4> QED
        BY <4>1, <4>2, <4>3, <2>5 DEF AnswersOK
    <3>21. TypeOK'
      <4>1. order' \in Orders
        <5>1. \A o \in Orders : [o EXCEPT !.nextVar = 1] \in Orders
          BY DEF Orders
        <5>2. order' = [order EXCEPT !.nextVar = 1]
          BY <3>2
        <5> QED
          BY <5>1, <5>2, <1>3
      <4>2. Len(clauses') \in Nat
        BY <3>8
      <4>3. nextClause' \in 0 .. Len(clauses')
        BY <4>2, <3>2
      <4>4. phase' \in [Vars -> BOOLEAN]
        BY <1>1, <1>3
      <4> QED
        BY <4>1, <4>3, <4>4, <2>5, <3>8, <3>10, <3>15, <3>19 DEF TypeOK
    <3>22. ClausesOK'
      <4>1. \A i \in DOMAIN clauses' : ClauseOK(clauses'[i], N)
        BY <3>9 DEF ToSet
      <4> QED
        BY <4>1 DEF ClausesOK, N
    <3>23. TrailOK(trail', dLevel', Remaining') /\ (dLevel' = 0 \/ pc' = "finished" => Remaining' = {})
      BY <3>15, <3>16 DEF N
    <3> QED
      BY <2>5, <3>17, <3>18, <3>20, <3>21, <3>22, <3>23 DEF Inv
  <2> QED
    BY <2>6, <2>7
<1> QED
  BY <1>6, <1>7

LEMMA InitInv ==
  ASSUME Init
  PROVE  Inv
<1>1. /\ cnf \in Cnfs /\ dLevel = 1 /\ clauses = << >> /\ blocking = << >> /\ unit_conflicts = << >>
      /\ nextClause = 0 /\ answers = << >> /\ phase = [v \in Vars |-> FALSE]
      /\ order = [activity |-> [l \in Literals |-> Occurrences(Others, l)], varOrder |-> << >>,
                  nextVar |-> 1, front |-> [l \in Literals |-> 0]]
      /\ IF solver_unit_contradiction THEN pc = "finished" /\ trail = << >>
         ELSE pc = "construct" /\ trail = UnitTrail(CnfUnits)
  BY DEF Init
<1>2. /\ answers \in Seq(Seq(Literals)) /\ clauses \in Seq(Seq(Literals)) /\ unit_conflicts \in Seq(Literals)
      /\ blocking \in Seq(Nat)
      /\ DOMAIN answers = {} /\ DOMAIN clauses = {} /\ DOMAIN blocking = {} /\ DOMAIN unit_conflicts = {}
      /\ ToSet(clauses) = {} /\ ToSet(unit_conflicts) = {}
  BY <1>1 DEF ToSet
<1>3. /\ Remaining \subseteq Assignments /\ \A c \in ToSet(cnf), m \in Remaining : Holds(c, m)
  BY <1>1, <1>2, RemainingFacts
<1>4. /\ \A c \in ToSet(cnf) : c \in Seq(Literals) /\ IsInjective(c)
      /\ Others \in Seq(Seq(Literals)) /\ ToSet(Others) = {c \in ToSet(cnf) : Len(c) > 1}
      /\ CnfUnits \in Seq(Literals) /\ \A l \in ToSet(CnfUnits) : \E c \in ToSet(cnf) : Len(c) = 1 /\ c[1] = l
  BY <1>1, CnfFacts
<1>5. ASSUME NEW m \in Remaining, NEW x \in ToSet(CnfUnits) PROVE x \in m
  <2>1. PICK c \in ToSet(cnf) : Len(c) = 1 /\ c[1] = x
    BY <1>4
  <2>2. c \in Seq(Literals) /\ Holds(c, m)
    BY <1>3, <1>4
  <2>3. DOMAIN c = {1}
    BY <2>1, <2>2
  <2> QED
    BY <2>1, <2>2, <2>3 DEF Holds
<1>6. solver_unit_contradiction => Remaining = {}
  <2>1. ASSUME NEW x \in ToSet(CnfUnits), NEG(x) \in ToSet(CnfUnits), NEW m \in Remaining PROVE FALSE
    <3>1. x \in m /\ NEG(x) \in m /\ m \in Assignments
      BY <2>1, <1>3, <1>5
    <3>2. x \in Literals
      BY <3>1, AssignmentFacts
    <3> QED
      BY <3>1, <3>2, AssignmentFacts
  <2>2. ASSUME << >> \in ToSet(cnf), NEW m \in Remaining PROVE FALSE
    BY <2>2, <1>3 DEF Holds
  <2> QED
    BY <2>1, <2>2 DEF solver_unit_contradiction, Contradictory
<1>7. TrailOK(trail, 1, Remaining) /\ \A i \in DOMAIN trail : trail[i].dLevel = 1
  <2>1. CASE solver_unit_contradiction
    <3>1. trail = << >> /\ DOMAIN trail = {} /\ trail \in Seq(Entries)
      BY <2>1, <1>1
    <3> QED
      BY <3>1 DEF TrailOK, Distinct, Leveled, Reasoned, Decided, Justified
  <2>2. CASE ~ solver_unit_contradiction
    BY <2>2, <1>1, <1>4, <1>5, UnitTrailFacts DEF solver_unit_contradiction
  <2> QED
    BY <2>1, <2>2
<1>8. ConflictsOK
  <2>1. ASSUME NEW c \in ToSet(Others) \cup ToSet(clauses) PROVE Guarded(trail, 1, c)
    <3>1. c \in Seq(Literals) /\ 1 \in DOMAIN c /\ c[1] \in Literals
      <4>1. c \in Seq(Literals) /\ Len(c) > 1
        BY <1>2, <1>4
      <4>2. 1 \in DOMAIN c
        BY <4>1
      <4> QED
        BY <4>1, <4>2
    <3>2. ASSUME FalseIn(trail, c)
          PROVE  \E i \in DOMAIN trail : trail[i].dLevel = 1 /\ NEG(trail[i].lit) \in ToSet(c)
      <4>1. NEG(c[1]) \in Assigned(trail)
        BY <3>1, <3>2 DEF FalseIn
      <4>2. PICK i \in DOMAIN trail : trail[i].lit = NEG(c[1])
        BY <4>1 DEF Assigned
      <4>3. NEG(trail[i].lit) = c[1]
        BY <4>2, <3>1, LiteralFacts
      <4> QED
        BY <4>3, <3>1, <1>7 DEF ToSet
    <3> QED
      BY <3>2 DEF Guarded
  <2>2. pc \notin {"selecting", "stopped"}
    BY <1>1
  <2> QED
    BY <2>1, <2>2, <1>1 DEF ConflictsOK
<1>9. order \in Orders
  <2>1. \A l \in Literals : Occurrences(Others, l) \in Nat
    <3>1. DOMAIN Others = 1 .. Len(Others) /\ Len(Others) \in Nat
      BY <1>4
    <3>2. ASSUME NEW l \in Literals PROVE Occurrences(Others, l) \in Nat
      <4>1. IsFiniteSet(DOMAIN Others)
        BY <3>1, FS_Interval
      <4>2. {i \in DOMAIN Others : l \in ToSet(Others[i])} \subseteq DOMAIN Others
        OBVIOUS
      <4> QED
        BY <4>1, <4>2, FS_Subset, FS_CardinalityType DEF Occurrences
    <3> QED
      BY <3>2
  <2>2. << >> \in Seq(Vars)
    OBVIOUS
  <2>3. [l \in Literals |-> Occurrences(Others, l)] \in [Literals -> Nat]
    BY <2>1
  <2>4. [l \in Literals |-> 0] \in [Literals -> Literals \cup {0}]
    OBVIOUS
  <2> QED
    BY <1>1, <2>2, <2>3, <2>4 DEF Orders
<1>10. TypeOK
  <2>1. nextClause \in 0 .. Len(clauses)
    BY <1>1
  <2>2. phase \in [Vars -> BOOLEAN]
    BY <1>1
  <2> QED
    BY <1>1, <1>2, <1>9, <2>1, <2>2 DEF TypeOK
<1>11. ClausesOK /\ UnitsOK /\ AnswersOK /\ DisjointOK
  BY <1>2 DEF ClausesOK, UnitsOK, AnswersOK, DisjointOK
<1> QED
  BY <1>1, <1>6, <1>7, <1>8, <1>10, <1>11 DEF Inv

-----------------------------------------------------------------------------
(* Nothing is left free: without clauses of two literals and without an    *)
(* interruption, a variable that the search has passed is assigned.        *)

\* Orders of the variables V in which only variables in T have been passed.
PassedIn(V, T) ==
  {o \in Orders : /\ IsInjective(o.varOrder) /\ ToSet(o.varOrder) = V
                  /\ \A i \in DOMAIN o.varOrder : i < o.nextVar => o.varOrder[i] \in T}

\* Promoting a literal of a variable in T passes no other.
LEMMA PromotedPassed ==
  ASSUME NEW V, NEW T, NEW o \in PassedIn(V, T), NEW l \in Literals, VAR(l) \in T
  PROVE  Promoted(o, l) \in PassedIn(V, T)
<1> DEFINE up == [o EXCEPT !.activity[l] = @ + 1]
           v == VAR(l)
           n == Len(o.varOrder)
           lower == {i \in DOMAIN o.varOrder : SCORE(up, o.varOrder[i]) < SCORE(up, v)}
           p == CHOOSE i \in DOMAIN o.varOrder : o.varOrder[i] = v
           q == Min(lower)
           swapped == [up EXCEPT !.varOrder[p] = o.varOrder[q], !.varOrder[q] = v]
<1>1. /\ o \in Orders /\ IsInjective(o.varOrder) /\ ToSet(o.varOrder) = V
      /\ \A i \in DOMAIN o.varOrder : i < o.nextVar => o.varOrder[i] \in T
  BY DEF PassedIn
<1>2. /\ o.varOrder \in Seq(Vars) /\ n \in Nat /\ DOMAIN o.varOrder = 1 .. n /\ o.nextVar \in Nat
      /\ v \in T
  BY <1>1 DEF Orders
<1>3. up.varOrder = o.varOrder /\ up.nextVar = o.nextVar
  BY <1>1 DEF Orders
<1>4. Promoted(o, l) \in Orders
  BY <1>1, PromotedType
<1>5. ASSUME Promoted(o, l) = up PROVE Promoted(o, l) \in PassedIn(V, T)
  <2> HIDE DEF up
  <2> QED
    BY <1>1, <1>3, <1>4, <1>5 DEF PassedIn
<1>6. ASSUME v \in ToSet(o.varOrder), lower # {}, ~(q > p), Promoted(o, l) = swapped
      PROVE  Promoted(o, l) \in PassedIn(V, T)
  <2>1. p \in 1 .. n /\ o.varOrder[p] = v
    BY <1>2, <1>6 DEF ToSet
  <2>2. lower \in SUBSET Nat /\ lower \subseteq 1 .. n
    BY <1>2
  <2> HIDE DEF lower, p
  <2>3. PICK k \in lower : \A j \in lower : k <= j
    BY <2>2, <1>6, LeastNatural
  <2>4. q \in 1 .. n
    BY <2>2, <2>3 DEF Min
  <2> HIDE DEF q
  <2>5. q <= p
    BY <1>2, <1>6, <2>1, <2>4
  <2> DEFINE r == [[o.varOrder EXCEPT ![p] = o.varOrder[q]] EXCEPT ![q] = v]
  <2>6. swapped.varOrder = r /\ swapped.nextVar = o.nextVar
    BY <1>1, <1>3 DEF Orders
  <2>7. /\ DOMAIN r = 1 .. n /\ r[q] = o.varOrder[p] /\ r[p] = o.varOrder[q]
        /\ \A i \in 1 .. n : i # p /\ i # q => r[i] = o.varOrder[i]
    <3>1. o.varOrder = [i \in 1 .. n |-> o.varOrder[i]]
      BY <1>2
    <3> QED
      BY <2>1, <2>4, <3>1
  <2> HIDE DEF r, v, swapped, n
  <2>8. ToSet(r) = V
    <3>1. \A i \in 1 .. n : \E j \in 1 .. n : r[i] = o.varOrder[j]
      BY <2>1, <2>4, <2>7
    <3>2. \A i \in 1 .. n : \E j \in 1 .. n : o.varOrder[i] = r[j]
      BY <2>1, <2>4, <2>7
    <3>3. ToSet(o.varOrder) = {o.varOrder[i] : i \in 1 .. n} /\ ToSet(r) = {r[i] : i \in 1 .. n}
      BY <1>2, <2>7 DEF ToSet, n
    <3> QED
      BY <1>1, <3>1, <3>2, <3>3
  <2>9. IsInjective(r)
    <3>1. \A i, j \in 1 .. n : o.varOrder[i] = o.varOrder[j] => i = j
      BY <1>1, <1>2 DEF IsInjective
    <3>2. ASSUME NEW i \in 1 .. n, NEW j \in 1 .. n, r[i] = r[j] PROVE i = j
      BY <2>1, <2>4, <2>7, <3>1, <3>2
    <3> QED
      BY <2>7, <3>2 DEF IsInjective
  <2>10. ASSUME NEW i \in 1 .. n, i < o.nextVar PROVE r[i] \in T
    <3>1. CASE i = q
      BY <1>2, <2>1, <2>7, <3>1
    <3>2. CASE i = p
      <4>1. q < o.nextVar
        BY <1>2, <2>1, <2>4, <2>5, <2>10, <3>2
      <4> QED
        BY <1>1, <1>2, <2>4, <2>7, <3>2, <4>1
    <3>3. CASE i # p /\ i # q
      BY <1>1, <1>2, <2>7, <2>10, <3>3
    <3> QED
      BY <3>1, <3>2, <3>3
  <2> QED
    BY <1>4, <1>6, <2>6, <2>7, <2>8, <2>9, <2>10 DEF PassedIn
<1> HIDE DEF p, q, lower, up, v, swapped
<1>7. Promoted(o, l) = IF v \notin ToSet(o.varOrder) \/ lower = {} \/ q > p THEN up ELSE swapped
  BY DEF Promoted, p, q, lower, up, v, swapped
<1> QED
  BY <1>5, <1>6, <1>7

\* A variable that is freed has not been passed any more.
LEMMA FreedPassed ==
  ASSUME NEW V, NEW T, NEW o \in PassedIn(V, T), NEW v
  PROVE  Freed(o, v) \in PassedIn(V, T \ {v})
<1> DEFINE p == CHOOSE i \in DOMAIN o.varOrder : o.varOrder[i] = v
           r == Freed(o, v)
<1>1. /\ o \in Orders /\ IsInjective(o.varOrder) /\ ToSet(o.varOrder) = V
      /\ \A i \in DOMAIN o.varOrder : i < o.nextVar => o.varOrder[i] \in T
  BY DEF PassedIn
<1>2. o.varOrder \in Seq(Vars) /\ DOMAIN o.varOrder = 1 .. Len(o.varOrder) /\ Len(o.varOrder) \in Nat
      /\ o.nextVar \in Nat
  BY <1>1 DEF Orders
<1>3. r \in Orders
  BY <1>1, FreedType
<1>4. CASE v \notin ToSet(o.varOrder)
  <2>1. r.varOrder = o.varOrder /\ r.nextVar = 1
    BY <1>1, <1>4 DEF Freed, Orders
  <2>2. \A i \in 1 .. Len(o.varOrder) : ~(i < 1)
    BY <1>2
  <2> QED
    BY <1>1, <1>2, <1>3, <2>1, <2>2 DEF PassedIn
<1>5. CASE v \in ToSet(o.varOrder)
  <2>1. p \in DOMAIN o.varOrder /\ o.varOrder[p] = v
    BY <1>5 DEF ToSet
  <2>2. r.varOrder = o.varOrder /\ r.nextVar = IF p < o.nextVar THEN p ELSE o.nextVar
    BY <1>1, <1>5 DEF Freed, Orders
  <2> HIDE DEF p, r
  <2>3. ASSUME NEW i \in DOMAIN o.varOrder, i < r.nextVar PROVE o.varOrder[i] \in T \ {v}
    <3>1. i < o.nextVar /\ i # p
      BY <1>2, <2>1, <2>2, <2>3
    <3> QED
      BY <1>1, <2>1, <3>1 DEF IsInjective
  <2> QED
    BY <1>1, <1>3, <2>2, <2>3 DEF PassedIn, r
<1> QED
  BY <1>4, <1>5

\* Passing fewer variables.
LEMMA PassedMore ==
  ASSUME NEW V, NEW T, NEW U, T \subseteq U
  PROVE  PassedIn(V, T) \subseteq PassedIn(V, U)
BY DEF PassedIn

\* Updating the scores of a clause whose variables are in T passes no other.
LEMMA ScoresPassed ==
  ASSUME NEW V, NEW T, NEW o \in PassedIn(V, T), NEW c \in Seq(Literals), \A x \in ToSet(c) : VAR(x) \in T
  PROVE  updateScores(o, c) \subseteq PassedIn(V, T)
<1>1. PassedIn(V, T) \in SUBSET Orders
  BY DEF PassedIn
<1>2. \A x \in ToSet(c) : x \in Literals
  BY DEF ToSet
<1>3. \A x \in PassedIn(V, T), l \in ToSet(c) : Promoted(x, l) \in PassedIn(V, T)
  BY <1>2, PromotedPassed
<1> QED
  BY <1>1, <1>3, ScoresIn


\* The variables on a trail.
Stacked(t) == {VAR(t[i].lit) : i \in DOMAIN t}


\* The variables of the first entries of the trail.
Upto(j) == {VAR(trail[k].lit) : k \in 1 .. j}

\* An entry is popped: what is still on the trail is all that may be passed.
LEMMA PoppedPassed ==
  ASSUME NEW M, TrailOK(trail, dLevel, M), NEW j \in 1 .. Len(trail), ~ trail[j].binary,
         NEW V, NEW s \in Searches, s.uip = 0, s.orders \subseteq PassedIn(V, Upto(j))
  PROVE  /\ Popped(s, trail[j]).orders \subseteq PassedIn(V, Upto(j - 1))
         /\ Popped(s, trail[j]).uip \in {0, trail[j].lit}
<1> DEFINE e == trail[j]
           v == VAR(e.lit)
           scored == IF e.ante = << >> THEN s.orders
                     ELSE UNION {updateScores(o, ScoredClause(o, e)) : o \in s.orders}
           freed(os) == {Freed(o, v) : o \in os}
           after == freed(scored)
           r == [s EXCEPT !.orders = after, !.mark = @ \ {v}, !.left = @ - 1]
           next == Marked(r, Reasons(e.ante))
           U == Upto(j - 1)
<1>1. /\ Len(trail) \in Nat /\ DOMAIN trail = 1 .. Len(trail) /\ e \in Entries /\ e.lit \in Literals
      /\ e.ante \in Seq(Literals) /\ j \in Nat /\ v \in Vars
  BY OnTrail, LiteralFacts
<1>2. v \in Upto(j) /\ Upto(j) \ {v} \subseteq U
  <2>1. \A k \in 1 .. j : k = j \/ k \in 1 .. j - 1
    BY <1>1
  <2> QED
    BY <1>1, <2>1 DEF Upto
<1>3. ASSUME NEW os \in SUBSET PassedIn(V, Upto(j)) PROVE freed(os) \subseteq PassedIn(V, U)
  <2>1. ASSUME NEW o \in os PROVE Freed(o, v) \in PassedIn(V, U)
    <3>1. Freed(o, v) \in PassedIn(V, Upto(j) \ {v})
      BY <1>3, FreedPassed
    <3> QED
      BY <1>2, <3>1, PassedMore
  <2> QED
    BY <2>1
<1>4. ASSUME e.ante # << >>, NEW x \in ToSet(e.ante) PROVE VAR(x) \in Upto(j)
  <2>1. PICK k \in DOMAIN e.ante : x = e.ante[k]
    BY <1>4 DEF ToSet
  <2>2. Reasoned(trail) /\ DOMAIN e.ante = 1 .. Len(e.ante) /\ Len(e.ante) \in Nat /\ x \in Literals
    BY <1>1, <2>1 DEF TrailOK
  <2>3. CASE k = 1
    <3>1. x = e.lit
      BY <1>1, <1>4, <2>1, <2>2, <2>3 DEF Reasoned
    <3> QED
      BY <1>2, <3>1
  <2>4. CASE k # 1
    <3>1. k \in 2 .. Len(e.ante)
      BY <2>1, <2>2, <2>4
    <3>2. PICK i \in 1 .. j - 1 : trail[i].lit = NEG(x)
      BY <1>1, <1>4, <2>1, <2>2, <3>1 DEF Reasoned
    <3>3. VAR(trail[i].lit) = VAR(x) /\ i \in 1 .. j
      BY <1>1, <2>2, <3>2, LiteralFacts
    <3> QED
      BY <3>3 DEF Upto
  <2> QED
    BY <2>3, <2>4
<1>5. scored \in SUBSET PassedIn(V, Upto(j))
  <2>1. CASE e.ante = << >>
    BY <2>1
  <2>2. CASE e.ante # << >>
    <3>1. \A o : ScoredClause(o, e) = e.ante
      BY DEF ScoredClause
    <3>2. \A o \in s.orders : updateScores(o, e.ante) \subseteq PassedIn(V, Upto(j))
      BY <1>1, <1>4, <2>2, ScoresPassed
    <3> QED
      BY <2>2, <3>1, <3>2
  <2> QED
    BY <2>1, <2>2
<1>6. freed(s.orders) \subseteq PassedIn(V, U) /\ after \subseteq PassedIn(V, U)
  BY <1>3, <1>5
<1>7. Popped(s, e) = IF v \notin s.mark THEN [s EXCEPT !.orders = freed(@)]
                     ELSE IF s.left = 1 THEN [s EXCEPT !.orders = after, !.mark = @ \ {v}, !.uip = e.lit]
                     ELSE next
  BY DEF Popped
<1>8. r \in Searches /\ r.orders = after /\ r.uip = 0
  <2>1. after \in SUBSET Orders
    BY <1>6 DEF PassedIn
  <2>2. s.mark \ {v} \in SUBSET Vars /\ s.left - 1 \in Int
    BY DEF Searches
  <2> HIDE DEF after, v
  <2> QED
    BY <2>1, <2>2 DEF Searches
<1> HIDE DEF after, freed, scored
<1>9. next.orders = after /\ next.uip = 0
  <2>1. next.orders = r.orders /\ next.uip = r.uip
    BY <1>8 DEF Marked, Searches
  <2> QED
    BY <1>8, <2>1
<1> HIDE DEF next, r
<1>10. Popped(s, e).orders \subseteq PassedIn(V, U) /\ Popped(s, e).uip \in {0, e.lit}
  <2>1. CASE v \notin s.mark
    <3>1. Popped(s, e).orders = freed(s.orders) /\ Popped(s, e).uip = 0
      BY <1>7, <2>1 DEF Searches
    <3> QED
      BY <1>6, <3>1
  <2>2. CASE v \in s.mark /\ s.left = 1
    <3>1. Popped(s, e).orders = after /\ Popped(s, e).uip = e.lit
      BY <1>7, <2>2 DEF Searches
    <3> QED
      BY <1>6, <3>1
  <2>3. CASE v \in s.mark /\ s.left # 1
    BY <1>6, <1>7, <1>9, <2>3
  <2> QED
    BY <2>1, <2>2, <2>3
<1> QED
  BY <1>10

\* After learning, the variables before the literal at which it ends may be
\* passed, and no others.
LEMMA ResolvedPassed ==
  ASSUME NEW M, M \subseteq Assignments, dLevel \in Nat, dLevel > 1, TrailOK(trail, dLevel, M),
         \A i \in DOMAIN trail : ~ trail[i].binary,
         NEW c, ClauseOK(c, M), \A x \in ToSet(c) : RESOLVED(x), \E x \in ToSet(c) : LevelOf(x) = dLevel,
         NEW V, NEW o \in PassedIn(V, Stacked(trail))
  PROVE  \E k \in 1 .. Len(trail) : /\ trail[k].lit = Resolved(c, o).uip
                                   /\ Resolved(c, o).orders \subseteq PassedIn(V, Upto(k - 1))
<1> DEFINE start == [mark |-> {}, lower |-> << >>, left |-> 0, uip |-> 0, orders |-> updateScores(o, c)]
           s == Marked(start, c)
           q == Reverse(trail)
           n == Len(trail)
           r == Resolved(c, o)
<1>0. /\ n \in Nat /\ DOMAIN trail = 1 .. n /\ trail \in Seq(Entries) /\ (\A i \in 1 .. n : trail[i] \in Entries)
      /\ Stacked(trail) = Upto(n)
  BY OnTrail DEF TrailOK, Stacked, Upto
<1>1. o \in Orders
  BY DEF PassedIn
<1>2. Learning(s, n, M) /\ Learning(r, 0, M) /\ r.uip # 0
  BY <1>1, LearningStarts, ResolvedFacts
<1>3. updateScores(o, c) \subseteq PassedIn(V, Upto(n))
  <2>1. c \in Seq(Literals)
    BY DEF ClauseOK
  <2>2. ASSUME NEW x \in ToSet(c) PROVE VAR(x) \in Upto(n)
    <3>1. x \in Literals /\ RESOLVED(x)
      BY <2>1 DEF ToSet
    <3> QED
      BY <3>1, OnTrail DEF Upto
  <2> QED
    BY <1>0, <2>1, <2>2, ScoresPassed
<1>4. s \in Searches /\ s.orders \subseteq PassedIn(V, Upto(n)) /\ s.uip = 0
  <2>1. s.orders = start.orders /\ s.uip = start.uip
    BY DEF Marked
  <2> QED
    BY <1>2, <1>3, <2>1 DEF Learning
<1>5. r = Pops(s, q)
  BY DEF Resolved, Pops
<1> HIDE DEF s, r
<1>6. q \in Seq(Entries) /\ Len(q) = n /\ \A i \in 1 .. n : q[i] = trail[(n - i) + 1]
  <2>1. q = [i \in 1 .. n |-> trail[(n - i) + 1]]
    BY DEF Reverse
  <2>2. \A i \in 1 .. n : (n - i) + 1 \in 1 .. n
    BY <1>0
  <2>3. q \in [1 .. n -> Entries]
    BY <1>0, <2>1, <2>2
  <2> QED
    BY <1>0, <2>1, <2>3
<1> HIDE DEF q, n
<1>7. PICK F : PopsSoFar(F, s, q)
  BY <1>4, <1>6, PopsSteps
<1>8. /\ F[0] = s /\ r = F[n] /\ F \in [0 .. n -> Searches]
      /\ \A i \in 0 .. n - 1 : F[i + 1] = Popped(F[i], q[i + 1])
  BY <1>5, <1>6, <1>7 DEF PopsSoFar
<1> DEFINE Before(x, i) == x.orders \subseteq PassedIn(V, Upto(n - i))
           Ended(x) == \E k \in 1 .. n : trail[k].lit = x.uip /\ x.orders \subseteq PassedIn(V, Upto(k - 1))
           P == {i \in 0 .. n : (F[i].uip = 0 => Before(F[i], i)) /\ (F[i].uip # 0 => Ended(F[i]))}
<1>9. 0 \in P
  <2>1. n - 0 = n /\ 0 \in 0 .. n
    BY <1>0
  <2> QED
    BY <1>4, <1>8, <2>1
<1>10. ASSUME NEW i \in 0 .. n - 1, i \in P PROVE i + 1 \in P
  <2>1. /\ n - i \in 1 .. n /\ i + 1 \in 1 .. n /\ i + 1 \in 0 .. n /\ i \in 0 .. n
        /\ (n - (i + 1)) + 1 = n - i /\ (n - i) - 1 = n - (i + 1)
    BY <1>0
  <2>2. F[i + 1] = Popped(F[i], trail[n - i]) /\ F[i] \in Searches
    BY <1>6, <1>8, <2>1
  <2>3. CASE F[i].uip # 0
    <3>1. F[i + 1] = F[i]
      BY <2>2, <2>3 DEF Popped
    <3> QED
      BY <1>10, <2>1, <2>3, <3>1
  <2>4. CASE F[i].uip = 0
    <3>1. ~ trail[n - i].binary /\ Before(F[i], i)
      BY <1>0, <1>10, <2>1, <2>4
    <3>2. /\ F[i + 1].orders \subseteq PassedIn(V, Upto((n - i) - 1))
          /\ F[i + 1].uip \in {0, trail[n - i].lit}
      BY <2>1, <2>2, <2>4, <3>1, PoppedPassed DEF n
    <3> QED
      BY <2>1, <3>2
  <2> QED
    BY <2>3, <2>4
<1>11. n \in P
  <2> HIDE DEF P
  <2>1. \A i \in 0 .. n : i \in P
    BY <1>0, <1>9, <1>10, InductionUpTo
  <2> QED
    BY <1>0, <2>1
<1> QED
  BY <1>2, <1>8, <1>11 DEF r, n


\* Going back to a level frees what is above it, so that only variables that
\* are left on the trail may have been passed.
LEMMA FreedAbovePassed ==
  ASSUME NEW M, TrailOK(trail, dLevel, M), dLevel \in Nat, NEW k \in 1 .. Len(trail), NEW level \in Nat,
         NEW V, NEW s, s.uip = trail[k].lit, s.orders \subseteq PassedIn(V, Upto(k - 1))
  PROVE  FreedAbove(s, level) \subseteq PassedIn(V, Stacked(Below(level)))
<1> DEFINE n == Len(trail)
           q == StillAbove(level, s.uip)
           S == {trail[i] : i \in {i \in DOMAIN trail :
                   trail[i].dLevel > level /\ \E j \in DOMAIN trail : i < j /\ trail[j].lit = s.uip}}
           Left(i) == Upto(k - 1) \ {VAR(q[h].lit) : h \in 1 .. i}
<1>1. /\ n \in Nat /\ DOMAIN trail = 1 .. n /\ trail \in Seq(Entries)
      /\ \A i \in 1 .. n : trail[i].dLevel \in Nat
  <2>1. \A i \in 1 .. n : trail[i].dLevel \in 1 .. dLevel
    BY OnTrail
  <2> QED
    BY <2>1, OnTrail DEF TrailOK
<1>2. q = Only(trail, S)
  BY DEF StillAbove
<1>3. S \subseteq ToSet(trail)
  BY DEF ToSet
<1> HIDE DEF S
<1>5. FreedAbove(s, level) = {Freeing(o, q) : o \in s.orders}
  BY DEF FreedAbove, Freeing
<1> HIDE DEF q
<1>4. q \in Seq(Entries) /\ ToSet(q) = S
  <2>1. q \in Seq(Entries) /\ ToSet(q) = ToSet(trail) \cap S
    BY <1>1, <1>2, OnlyFacts
  <2> QED
    BY <1>3, <2>1
<1>6. Left(Len(q)) \subseteq Stacked(Below(level))
  <2>1. ASSUME NEW i \in 1 .. k - 1, VAR(trail[i].lit) \notin {VAR(q[h].lit) : h \in 1 .. Len(q)}
        PROVE  VAR(trail[i].lit) \in Stacked(Below(level))
    <3>1. i \in 1 .. n /\ i < k /\ k \in 1 .. n
      BY <1>1
    <3>2. trail[i] \notin S
      <4>1. ASSUME trail[i] \in S PROVE FALSE
        <5>1. PICK h \in DOMAIN q : q[h] = trail[i]
          BY <1>4, <4>1 DEF ToSet
        <5>2. h \in 1 .. Len(q)
          BY <1>4, <5>1
        <5> QED
          BY <2>1, <5>1, <5>2
      <4> QED
        BY <4>1
    <3>3. ~(trail[i].dLevel > level)
      BY <1>1, <3>1, <3>2 DEF S
    <3>4. trail[i].dLevel <= level
      BY <1>1, <3>1, <3>3
    <3>5. PICK h \in DOMAIN Below(level) : Below(level)[h] = trail[i]
      BY <1>1, <3>1, <3>4, BelowFacts
    <3> QED
      BY <3>5 DEF Stacked
  <2> QED
    BY <2>1 DEF Upto
<1>7. ASSUME NEW o \in s.orders PROVE Freeing(o, q) \in PassedIn(V, Stacked(Below(level)))
  <2> DEFINE m == Len(q)
  <2>1. o \in PassedIn(V, Upto(k - 1)) /\ o \in Orders /\ m \in Nat
    BY <1>4, <1>7 DEF PassedIn
  <2>2. PICK F : FreeingSoFar(F, o, q)
    BY <1>4, <2>1, FreeingSteps
  <2>3. /\ F[0] = o /\ Freeing(o, q) = F[m]
        /\ \A i \in 0 .. m - 1 : F[i + 1] = Freed(F[i], VAR(q[i + 1].lit))
    BY <2>2 DEF FreeingSoFar
  <2> DEFINE P == {i \in 0 .. m : F[i] \in PassedIn(V, Left(i))}
  <2> HIDE DEF m
  <2>4. 0 \in P
    <3>1. {VAR(q[h].lit) : h \in 1 .. 0} = {} /\ 0 \in 0 .. m
      BY <2>1
    <3> HIDE DEF P
    <3>2. Left(0) = Upto(k - 1)
      BY <3>1
    <3> HIDE DEF Left
    <3> QED
      BY <2>1, <2>3, <3>1, <3>2 DEF P
  <2>5. ASSUME NEW i \in 0 .. m - 1, i \in P PROVE i + 1 \in P
    <3> DEFINE v == VAR(q[i + 1].lit)
    <3>1. F[i + 1] = Freed(F[i], v) /\ F[i] \in PassedIn(V, Left(i)) /\ i + 1 \in 0 .. m /\ i \in Nat
      BY <2>1, <2>3, <2>5
    <3>2. Left(i) \ {v} \subseteq Left(i + 1)
      <4>1. \A h \in 1 .. i + 1 : h = i + 1 \/ h \in 1 .. i
        BY <3>1
      <4> QED
        BY <4>1
    <3> HIDE DEF v, Left
    <3>3. F[i + 1] \in PassedIn(V, Left(i) \ {v})
      BY <3>1, FreedPassed
    <3>4. F[i + 1] \in PassedIn(V, Left(i + 1))
      BY <3>2, <3>3, PassedMore
    <3> QED
      BY <3>1, <3>4
  <2>6. m \in P
    <3> HIDE DEF P
    <3>1. \A i \in 0 .. m : i \in P
      BY <2>1, <2>4, <2>5, InductionUpTo
    <3> QED
      BY <2>1, <3>1
  <2> HIDE DEF Left
  <2>7. F[m] \in PassedIn(V, Left(m))
    BY <2>6
  <2>8. F[m] \in PassedIn(V, Stacked(Below(level)))
    BY <1>6, <2>7, PassedMore DEF m
  <2> QED
    BY <2>3, <2>8
<1> QED
  BY <1>5, <1>7

\* The variables of the problem, and what units and propagation alone set.
Variables(c) == {VAR(x) : x \in ToSet(c)}
CnfVars == UNION {Variables(c) : c \in ToSet(cnf)}
Closed(A) ==
  /\ \A x \in A : NEG(x) \notin A
  /\ ToSet(CnfUnits) \subseteq A
  /\ \A c \in ToSet(Others) : \A x \in ToSet(c) : (\A y \in ToSet(c) \ {x} : NEG(y) \in A) => x \in A
Forced(v) == \A A \in SUBSET Literals : Closed(A) => v \in A \/ NEG(v) \in A

\* The literals at level 1.
AtFirst(t) == {t[i].lit : i \in {i \in DOMAIN t : t[i].dLevel = 1}}

\* There is no implication list and no variable but those of the problem; the
\* units are set; what the order has passed is assigned, and what is not in it
\* is assigned at level 1, where propagation alone puts it.
Live == pc \notin {"finished", "thrown"} /\ dLevel # 0
KnownOK ==
  /\ \A i \in DOMAIN trail : ~ trail[i].binary /\ VAR(trail[i].lit) \in CnfVars
  /\ \A c \in ToSet(clauses) : Variables(c) \subseteq CnfVars
  /\ Variables(unit_conflicts) \subseteq CnfVars
  /\ ToSet(order.varOrder) \subseteq CnfVars
StartOK ==
  /\ pc # "finished" => << >> \notin ToSet(cnf)
  /\ Live => ToSet(CnfUnits) \subseteq AtFirst(trail)
  /\ pc = "construct" =>
       /\ clauses = << >> /\ order.nextVar = 1
       /\ order.activity = [l \in Literals |-> Occurrences(Others, l)]
       /\ \A A \in SUBSET Literals : Closed(A) => Assigned(trail) \subseteq A
OrderOK ==
  Live /\ pc # "construct" => order \in PassedIn(ToSet(order.varOrder), Stacked(trail))
FirstLevelOK ==
  Live /\ pc # "construct" =>
    \A v \in CnfVars \ ToSet(order.varOrder) :
      Forced(v) /\ (pc # "reset" => v \in AtFirst(trail) \/ NEG(v) \in AtFirst(trail))
Complete == KnownOK /\ StartOK /\ OrderOK /\ FirstLevelOK /\ pc # "thrown"

\* What depends on the problem only.
LEMMA ProblemStays ==
  ASSUME UNCHANGED problem
  PROVE  /\ cnf' = cnf /\ Others' = Others /\ CnfUnits' = CnfUnits /\ CnfVars' = CnfVars
         /\ \A v : Forced(v)' <=> Forced(v)
<1>1. cnf' = cnf
  BY DEF problem
<1>2. Others' = Others /\ CnfUnits' = CnfUnits /\ CnfVars' = CnfVars
  BY <1>1 DEF Others, CnfUnits, Units, CnfVars
<1>3. \A A : Closed(A)' <=> Closed(A)
  BY <1>2 DEF Closed
<1> QED
  BY <1>1, <1>2, <1>3 DEF Forced

\* A variable that is not free is on the trail.
LEMMA NotFree ==
  ASSUME NEW d, NEW M, TrailOK(trail, d, M), NEW v \in Vars
  PROVE  ~FREE(v) <=> v \in Stacked(trail)
<1>1. VAR(v) = v /\ VAR(NEG(v)) = v /\ v \in Literals
  BY LiteralFacts DEF Vars, VAR
<1>2. ASSUME ~FREE(v) PROVE v \in Stacked(trail)
  BY <1>1, <1>2 DEF FREE, SET, RESOLVED, Assigned, Stacked
<1>3. ASSUME v \in Stacked(trail) PROVE ~FREE(v)
  <2>1. PICK i \in DOMAIN trail : VAR(trail[i].lit) = v
    BY <1>3 DEF Stacked
  <2>2. trail[i].lit \in Literals
    BY OnTrail
  <2>3. trail[i].lit = v \/ trail[i].lit = NEG(v)
    BY <1>1, <2>1, <2>2, LiteralFacts
  <2> QED
    BY <2>3 DEF FREE, SET, RESOLVED, Assigned
<1> QED
  BY <1>2, <1>3

\* Without clauses of two literals there is no implication list.
LEMMA PoolLong ==
  ASSUME Inv, LongClauses
  PROVE  /\ \A k \in Pool : ~k[2]
         /\ \A c \in Conflicts : c.order = order /\ \E k \in Pool : c.clause = k[1] /\ False(k[1])
<1>1. cnf \in Cnfs /\ cnf \in Seq(Seq(Literals))
  BY CnfFacts DEF Inv, TypeOK
<1>2. \A c \in ToSet(cnf) : Len(c) # 2
  BY DEF LongClauses, ToSet
<1>3. \A c \in ToSet(Others) : c \in ToSet(cnf)
  BY <1>1, CnfFacts
<1>4. ASSUME NEW k \in Pool PROVE ~k[2]
  <2>1. CASE k \in {<<Others[i], Len(Others[i]) = 2>> : i \in DOMAIN Others}
    <3>1. PICK i \in DOMAIN Others : k = <<Others[i], Len(Others[i]) = 2>>
      BY <2>1
    <3>2. Others[i] \in ToSet(Others)
      BY DEF ToSet
    <3>3. k[2] = (Len(Others[i]) = 2)
      BY <3>1
    <3> QED
      BY <3>2, <3>3, <1>2, <1>3
  <2>2. CASE k \in {<<clauses[i], FALSE>> : i \in DOMAIN clauses}
    <3>1. PICK i \in DOMAIN clauses : k = <<clauses[i], FALSE>>
      BY <2>2
    <3>2. k[2] = FALSE
      BY <3>1
    <3> QED
      BY <3>2
  <2> QED
    BY <2>1, <2>2 DEF Pool
<1>5. ASSUME NEW c \in Conflicts
      PROVE  c.order = order /\ \E k \in Pool : c.clause = k[1] /\ False(k[1])
  <2>1. {k \in Pool : False(k[1]) /\ k[2]} = {}
    BY <1>4
  <2>2. c \in {[clause |-> k[1], order |-> order] : k \in {k \in Pool : False(k[1]) /\ ~k[2]}}
    BY <2>1 DEF Conflicts
  <2>3. PICK k \in Pool : False(k[1]) /\ c = [clause |-> k[1], order |-> order]
    BY <2>2
  <2> QED
    BY <2>3
<1> QED
  BY <1>4, <1>5

\* The clauses that the search works with have variables of the problem.
LEMMA PoolKnown ==
  ASSUME Inv, KnownOK
  PROVE  \A c \in ToSet(cnf) \cup ToSet(Others) \cup ToSet(clauses) : Variables(c) \subseteq CnfVars
<1>1. cnf \in Cnfs
  BY DEF Inv, TypeOK
<1>2. \A c \in ToSet(Others) : c \in ToSet(cnf)
  BY <1>1, CnfFacts
<1> QED
  BY <1>2 DEF CnfVars, KnownOK

\* A step of the search after the solver has been made or reset.
LEMMA SearchComplete ==
  ASSUME Complete, UNCHANGED problem, pc \notin {"construct", "reset", "finished", "thrown"},
         pc' \in {"stopped", "selecting", "asserting", "finished"},
         dLevel = 0 => dLevel' = 0 \/ pc' = "finished", KnownOK', ToSet(order'.varOrder) = ToSet(order.varOrder),
         Live' => /\ AtFirst(trail) \subseteq AtFirst(trail')
                  /\ order' \in PassedIn(ToSet(order.varOrder), Stacked(trail'))
  PROVE  Complete'
<1>1. /\ cnf' = cnf /\ CnfUnits' = CnfUnits /\ CnfVars' = CnfVars
      /\ \A v : Forced(v)' <=> Forced(v)
  BY ProblemStays
<1>2. Live' => Live
  BY DEF Live
<1>3. StartOK'
  BY <1>1, <1>2 DEF Complete, StartOK
<1>4. OrderOK'
  BY DEF OrderOK
<1>5. FirstLevelOK'
  BY <1>1, <1>2 DEF Complete, FirstLevelOK
<1> QED
  BY <1>3, <1>4, <1>5 DEF Complete

LEMMA QuietComplete ==
  ASSUME Inv, Complete, Run \/ Propagated \/ (ConflictAtLevel1 /\ pc = "asserting")
  PROVE  Complete'
<1>1. /\ pc \in {"stopped", "asserting"} /\ pc' \in {"selecting", "finished"}
      /\ UNCHANGED <<problem, dLevel, trail, added, order>> /\ (dLevel = 0 => pc' = "finished")
  BY DEF Run, Propagated, ConflictAtLevel1, Inv, TypeOK
<1>2. cnf' = cnf /\ CnfVars' = CnfVars
  BY <1>1, ProblemStays
<1>3. KnownOK'
  BY <1>1, <1>2 DEF Complete, KnownOK, added
<1>4. Live' => Live /\ pc # "construct"
  BY <1>1 DEF Live
<1> QED
  BY <1>1, <1>3, <1>4, SearchComplete DEF Complete, OrderOK, added

\* A conflict at level 1 before the search: there is no stack any more.
LEMMA StoppedComplete ==
  ASSUME Inv, Complete, ConflictAtLevel1, pc # "asserting"
  PROVE  Complete'
<1>1. /\ pc \in {"construct", "reset"} /\ pc' = "stopped" /\ dLevel' = 0 /\ trail' = << >>
      /\ UNCHANGED <<problem, added, order>>
  BY DEF ConflictAtLevel1
<1>2. cnf' = cnf /\ CnfVars' = CnfVars /\ ~Live'
  BY <1>1, ProblemStays DEF Live
<1>3. KnownOK'
  BY <1>1, <1>2 DEF Complete, KnownOK, added
<1>4. StartOK' /\ OrderOK' /\ FirstLevelOK'
  BY <1>1, <1>2 DEF Complete, StartOK, OrderOK, FirstLevelOK
<1> QED
  BY <1>1, <1>3, <1>4 DEF Complete

LEMMA StutterComplete ==
  ASSUME Complete, UNCHANGED vars
  PROVE  Complete'
<1>1. /\ UNCHANGED <<problem, pc, dLevel, trail, clauses, unit_conflicts, order>>
  BY DEF vars, added
<1>2. /\ cnf' = cnf /\ CnfUnits' = CnfUnits /\ CnfVars' = CnfVars /\ Others' = Others
      /\ \A v : Forced(v)' <=> Forced(v)
  BY <1>1, ProblemStays
<1>3. Live' <=> Live
  BY <1>1 DEF Live
<1>4. KnownOK'
  BY <1>1, <1>2 DEF Complete, KnownOK
<1>5. StartOK'
  <2>1. \A A : Closed(A)' <=> Closed(A)
    BY <1>2 DEF Closed
  <2> QED
    BY <1>1, <1>2, <1>3, <2>1 DEF Complete, StartOK, Occurrences
<1>6. OrderOK' /\ FirstLevelOK'
  BY <1>1, <1>2, <1>3 DEF Complete, OrderOK, FirstLevelOK
<1> QED
  BY <1>1, <1>4, <1>5, <1>6 DEF Complete

\* What is added to a trail, and what it had.
LEMMA AppendedStays ==
  ASSUME NEW t \in Seq(Entries), NEW e \in Entries
  PROVE  /\ AtFirst(t) \subseteq AtFirst(Append(t, e)) /\ Stacked(t) \subseteq Stacked(Append(t, e))
         /\ VAR(e.lit) \in Stacked(Append(t, e))
         /\ \A i \in DOMAIN Append(t, e) : Append(t, e)[i] = e \/ \E j \in DOMAIN t : Append(t, e)[i] = t[j]
<1> DEFINE u == Append(t, e)
<1>1. /\ Len(t) \in Nat /\ DOMAIN t = 1 .. Len(t) /\ DOMAIN u = 1 .. Len(t) + 1 /\ u[Len(t) + 1] = e
      /\ \A i \in 1 .. Len(t) : u[i] = t[i]
  BY AppendProperties
<1> HIDE DEF u
<1>2. Len(t) + 1 \in DOMAIN u /\ \A i \in DOMAIN t : i \in DOMAIN u /\ u[i] = t[i]
  BY <1>1
<1>3. \A i \in DOMAIN u : i = Len(t) + 1 \/ i \in DOMAIN t
  BY <1>1
<1>4. AtFirst(t) \subseteq AtFirst(u)
  BY <1>2 DEF AtFirst
<1>5. Stacked(t) \subseteq Stacked(u) /\ VAR(e.lit) \in Stacked(u)
  BY <1>1, <1>2 DEF Stacked
<1> QED
  BY <1>1, <1>2, <1>3, <1>4, <1>5 DEF u

\* What is implied is in every closed set that the trail is in.
LEMMA PropagateComplete ==
  ASSUME Inv, Complete, LongClauses, Propagate
  PROVE  Complete'
<1>1. /\ pc \in {"construct", "reset", "asserting"} /\ pc' = pc /\ dLevel' = dLevel
      /\ UNCHANGED <<problem, added, order>>
  BY DEF Propagate
<1>2. /\ cnf' = cnf /\ CnfUnits' = CnfUnits /\ CnfVars' = CnfVars /\ Others' = Others
      /\ (\A v : Forced(v)' <=> Forced(v)) /\ clauses' = clauses /\ unit_conflicts' = unit_conflicts
  BY <1>1, ProblemStays DEF added
<1>3. PICK k \in Pool : \E l \in Implied(k[1]) : trail' = Append(trail, Entry(l, dLevel, First(k[1], l), k[2]))
  BY DEF Propagate
<1> DEFINE c == k[1]
<1>4. PICK l \in Implied(c) : trail' = Append(trail, Entry(l, dLevel, First(c, l), k[2]))
  BY <1>3
<1>5. /\ ~k[2] /\ k[2] \in BOOLEAN /\ c \in ToSet(Others) \cup ToSet(clauses) /\ ClauseOK(c, Remaining)
      /\ Variables(c) \subseteq CnfVars
  BY PoolLong, PoolFacts, PoolKnown DEF Complete
<1> HIDE DEF c
<1>6. c \in Seq(Literals) /\ IsInjective(c)
  BY <1>5 DEF ClauseOK
<1>7. /\ l \in ToSet(c) /\ l \in Literals /\ VAR(l) \in CnfVars
      /\ \A x \in ToSet(c) \ {l} : RESOLVED(x)
  BY <1>5, <1>6 DEF Implied, ToSet, Variables
<1>8. First(c, l) \in Seq(Literals)
  BY <1>6, <1>7, FirstFacts
<1>9. TypeOK /\ TrailOK(trail, dLevel, Remaining)
  BY DEF Inv
<1>10. trail \in Seq(Entries) /\ dLevel \in Nat /\ dLevel # 0
  BY <1>1, <1>9 DEF TypeOK, TrailOK
<1> DEFINE e == Entry(l, dLevel, First(c, l), k[2])
<1>11. e \in Entries /\ e.lit = l /\ ~e.binary
  BY <1>5, <1>7, <1>8, <1>10 DEF Entry, Entries
<1>12. trail' = Append(trail, e)
  BY <1>4
<1> HIDE DEF e
<1>13. /\ AtFirst(trail) \subseteq AtFirst(trail') /\ Stacked(trail) \subseteq Stacked(trail')
       /\ \A i \in DOMAIN trail' : trail'[i] = e \/ \E j \in DOMAIN trail : trail'[i] = trail[j]
       /\ Assigned(trail') = Assigned(trail) \cup {l}
  BY <1>10, <1>11, <1>12, AppendedStays, AppendedFacts
<1>14. KnownOK'
  BY <1>1, <1>2, <1>7, <1>11, <1>13 DEF Complete, KnownOK
<1>15. Live' <=> Live
  BY <1>1 DEF Live
<1>16. StartOK'
  <2>1. \A A : Closed(A)' <=> Closed(A)
    BY <1>2 DEF Closed
  <2>2. ASSUME pc = "construct", NEW A \in SUBSET Literals, Closed(A) PROVE l \in A
    <3>1. Assigned(trail) \subseteq A /\ c \in ToSet(Others)
      BY <1>5, <2>2 DEF Complete, StartOK, ToSet
    <3>2. \A x \in ToSet(c) \ {l} : NEG(x) \in A
      BY <1>7, <3>1 DEF RESOLVED
    <3> QED
      BY <1>7, <2>2, <3>1, <3>2 DEF Closed
  <2>3. pc = "construct" => \A A \in SUBSET Literals : Closed(A) => Assigned(trail') \subseteq A
    BY <1>13, <2>2 DEF Complete, StartOK
  <2> QED
    BY <1>1, <1>2, <1>13, <1>15, <2>1, <2>3 DEF Complete, StartOK, Occurrences
<1>17. OrderOK'
  BY <1>1, <1>13, <1>15, PassedMore DEF Complete, OrderOK
<1>18. FirstLevelOK'
  BY <1>1, <1>2, <1>13, <1>15 DEF Complete, FirstLevelOK
<1> QED
  BY <1>1, <1>14, <1>16, <1>17, <1>18 DEF Complete

\* When propagation is over without a conflict, what is set is closed.
LEMMA ClosedNow ==
  ASSUME Inv, NoneLeft, ToSet(CnfUnits) \subseteq AtFirst(trail)
  PROVE  Closed(Assigned(trail)) /\ Assigned(trail) \in SUBSET Literals
<1>1. TrailOK(trail, dLevel, Remaining)
  BY DEF Inv
<1>2. Assigned(trail) \subseteq Literals
  BY <1>1, OnTrail DEF Assigned
<1>3. \A x \in Assigned(trail) : NEG(x) \notin Assigned(trail)
  BY <1>1, <1>2, OnTrail DEF SET, RESOLVED
<1>4. ToSet(CnfUnits) \subseteq Assigned(trail)
  BY DEF AtFirst, Assigned
<1>5. ASSUME NEW c \in ToSet(Others), NEW x \in ToSet(c), \A y \in ToSet(c) \ {x} : NEG(y) \in Assigned(trail)
      PROVE  x \in Assigned(trail)
  <2>1. PICK k \in Pool : k[1] = c
    BY PoolFacts
  <2>2. Implied(c) = {} /\ ~False(c)
    BY <2>1 DEF NoneLeft
  <2>3. \A y \in ToSet(c) \ {x} : RESOLVED(y)
    BY <1>5 DEF RESOLVED
  <2>4. ~FREE(x)
    BY <2>2, <2>3, <1>5 DEF Implied
  <2>5. ~RESOLVED(x)
    BY <2>2, <2>3 DEF False, ToSet
  <2> QED
    BY <2>4, <2>5 DEF FREE, SET
<1> QED
  BY <1>2, <1>3, <1>4, <1>5 DEF Closed

LEMMA ReadyComplete ==
  ASSUME Inv, Complete, Ready
  PROVE  Complete'
<1>1. /\ pc = "reset" /\ NoneLeft /\ pc' = "stopped" /\ dLevel = 1
      /\ UNCHANGED <<problem, dLevel, trail, clauses, unit_conflicts, order>>
  BY DEF Ready, added, Inv, TypeOK
<1>2. /\ cnf' = cnf /\ CnfUnits' = CnfUnits /\ CnfVars' = CnfVars
      /\ \A v : Forced(v)' <=> Forced(v)
  BY <1>1, ProblemStays
<1>3. Live /\ Live' /\ pc # "construct"
  BY <1>1 DEF Live
<1>4. KnownOK'
  BY <1>1, <1>2 DEF Complete, KnownOK
<1>5. StartOK'
  BY <1>1, <1>2, <1>3 DEF Complete, StartOK
<1>6. OrderOK'
  BY <1>1, <1>3 DEF Complete, OrderOK
<1>7. FirstLevelOK'
  <2>1. Closed(Assigned(trail)) /\ Assigned(trail) \in SUBSET Literals
    BY <1>1, <1>3, ClosedNow DEF Complete, StartOK
  <2>2. \A i \in DOMAIN trail : trail[i].dLevel = 1
    BY <1>1 DEF Inv, TrailOK, Leveled
  <2>3. Assigned(trail) \subseteq AtFirst(trail)
    BY <2>2 DEF Assigned, AtFirst
  <2>4. \A v \in CnfVars \ ToSet(order.varOrder) : Forced(v) /\ (v \in AtFirst(trail) \/ NEG(v) \in AtFirst(trail))
    BY <1>3, <2>1, <2>3 DEF Complete, FirstLevelOK, Forced
  <2> QED
    BY <1>1, <1>2, <2>4 DEF FirstLevelOK
<1> QED
  BY <1>1, <1>4, <1>5, <1>6, <1>7 DEF Complete

\* What is selected is a variable of the problem, and no variable that is free
\* is passed but the one selected.
LEMMA SelectedKnown ==
  ASSUME Inv, KnownOK, NEW v \in Selected, Advance,
         NEW T, Stacked(trail) \subseteq T, v \in T, order \in PassedIn(ToSet(order.varOrder), Stacked(trail))
  PROVE  /\ v \in CnfVars /\ ToSet(order'.varOrder) = ToSet(order.varOrder)
         /\ order' \in PassedIn(ToSet(order.varOrder), T)
<1> DEFINE V == ToSet(order.varOrder)
           m == Min(FreeInOrder)
<1>1. /\ TypeOK /\ TrailOK(trail, dLevel, Remaining) /\ clauses \in Seq(Seq(Literals)) /\ order \in Orders
      /\ nextClause \in 0 .. Len(clauses)
  BY DEF Inv, TypeOK
<1>2. order.varOrder \in Seq(Vars) /\ order.nextVar \in Nat \ {0} /\ order' \in Orders
  BY <1>1, SelectedFacts DEF Orders
<1>3. CASE OpenClauses # {}
  <2>1. order' = order
    BY <1>3 DEF Advance
  <2>2. Max(OpenClauses) \in DOMAIN clauses
    <3>1. OpenClauses \in SUBSET (0 .. nextClause) /\ nextClause \in Nat /\ OpenClauses \subseteq 1 .. nextClause
      BY <1>1 DEF OpenClauses
    <3>2. Max(OpenClauses) \in OpenClauses
      BY <1>3, <3>1, GreatestIn
    <3>3. Max(OpenClauses) \in 1 .. nextClause
      BY <3>1, <3>2
    <3>4. Len(clauses) \in Nat /\ DOMAIN clauses = 1 .. Len(clauses)
      BY <1>1
    <3> QED
      BY <1>1, <3>3, <3>4
  <2> DEFINE c == clauses[Max(OpenClauses)]
  <2>3. c \in ToSet(clauses) /\ v \in BestOf(c)
    BY <1>3, <2>2 DEF ToSet, Selected
  <2> HIDE DEF c
  <2>4. v \in Variables(c)
    BY <2>3 DEF BestOf, Variables
  <2> QED
    BY <2>1, <2>3, <2>4, PassedMore DEF KnownOK
<1>4. CASE OpenClauses = {}
  <2>1. FreeInOrder # {} /\ v = order.varOrder[m] /\ order' = [order EXCEPT !.nextVar = m + 1]
    BY <1>4 DEF Selected, Advance
  <2>2. FreeInOrder \in SUBSET Nat
    BY <1>2 DEF FreeInOrder
  <2>3. PICK k \in FreeInOrder : \A j \in FreeInOrder : k <= j
    BY <2>1, <2>2, LeastNatural
  <2>4. m \in FreeInOrder /\ \A j \in FreeInOrder : m <= j
    BY <2>3 DEF Min
  <2> HIDE DEF m
  <2>5. m \in DOMAIN order.varOrder /\ m \in Nat /\ v \in V
    <3>1. m \in DOMAIN order.varOrder /\ m \in Nat
      BY <1>2, <2>4 DEF FreeInOrder
    <3> QED
      BY <2>1, <3>1 DEF ToSet
  <2>6. order'.varOrder = order.varOrder /\ order'.nextVar = m + 1
    BY <1>1, <2>1 DEF Orders
  <2>7. ASSUME NEW i \in DOMAIN order.varOrder, i < m + 1 PROVE order.varOrder[i] \in T
    <3>1. i \in Nat /\ i <= Len(order.varOrder) /\ Len(order.varOrder) \in Nat /\ order.varOrder[i] \in Vars
      BY <1>2
    <3>2. CASE i = m
      BY <2>1, <3>2
    <3>3. CASE i < order.nextVar
      BY <3>3 DEF PassedIn
    <3>4. CASE i # m /\ ~(i < order.nextVar)
      <4>1. i < m
        BY <2>5, <2>7, <3>1, <3>4
      <4>2. i \notin FreeInOrder
        BY <2>4, <2>5, <3>1, <4>1
      <4>3. ~FREE(order.varOrder[i])
        BY <1>2, <3>1, <3>4, <4>2 DEF FreeInOrder
      <4> QED
        BY <1>1, <3>1, <4>3, NotFree
    <3> QED
      BY <3>2, <3>3, <3>4
  <2> QED
    BY <1>2, <2>5, <2>6, <2>7 DEF PassedIn, KnownOK
<1> QED
  BY <1>3, <1>4

LEMMA DecideComplete ==
  ASSUME Inv, Complete, Decide
  PROVE  Complete'
<1>1. /\ pc = "selecting" /\ pc' = "asserting" /\ dLevel' = dLevel + 1 /\ Advance
      /\ UNCHANGED <<problem, clauses, unit_conflicts>>
  BY DEF Decide, added
<1>2. PICK v \in Selected : trail' = Append(trail, Decision(IF phase[v] THEN v ELSE -v, dLevel + 1))
  BY DEF Decide
<1> DEFINE l == IF phase[v] THEN v ELSE -v
           e == Decision(l, dLevel + 1)
<1>3. /\ TypeOK /\ TrailOK(trail, dLevel, Remaining) /\ dLevel \in Nat \ {0} /\ trail \in Seq(Entries)
  BY <1>1 DEF Inv, TypeOK, TrailOK
<1>4. l \in Literals /\ VAR(l) = v
  <2>1. v \in Vars /\ v \in Literals
    BY SelectedFacts, LiteralFacts
  <2>2. VAR(v) = v /\ VAR(-v) = v /\ -v \in Literals
    BY <2>1, LiteralFacts DEF VAR, Vars
  <2> QED
    BY <2>1, <2>2
<1> HIDE DEF l
<1>5. e \in Entries /\ VAR(e.lit) = v /\ ~e.binary
  BY <1>3, <1>4 DEF Decision, Entry, Entries
<1>6. trail' = Append(trail, e)
  BY <1>2 DEF l
<1> HIDE DEF e
<1>7. /\ AtFirst(trail) \subseteq AtFirst(trail') /\ Stacked(trail) \subseteq Stacked(trail') /\ v \in Stacked(trail')
      /\ \A i \in DOMAIN trail' : trail'[i] = e \/ \E j \in DOMAIN trail : trail'[i] = trail[j]
  BY <1>3, <1>5, <1>6, AppendedStays
<1>8. Live /\ pc # "construct"
  BY <1>1, <1>3 DEF Live
<1>9. /\ v \in CnfVars /\ ToSet(order'.varOrder) = ToSet(order.varOrder)
      /\ order' \in PassedIn(ToSet(order.varOrder), Stacked(trail'))
  BY <1>1, <1>7, <1>8, SelectedKnown DEF Complete, OrderOK
<1>10. CnfVars' = CnfVars
  BY <1>1, ProblemStays
<1>11. KnownOK'
  BY <1>1, <1>5, <1>7, <1>9, <1>10 DEF Complete, KnownOK
<1> QED
  BY <1>1, <1>3, <1>7, <1>9, <1>11, SearchComplete

LEMMA LearnComplete ==
  ASSUME Inv, Complete, LongClauses, LearnAndBacktrack
  PROVE  Complete'
<1>1. PICK c \in Conflicts, restart \in BOOLEAN :
        LET s == Resolved(c.clause, c.order)
            learnt == LearntClause(s)
            aLevel == aLevelOf(Kept(s))
            level == IF restart THEN 1 ELSE aLevel
        IN  /\ clauses' = IF Len(learnt) > 1 THEN Append(clauses, learnt) ELSE clauses
            /\ order' \in FreedAbove(s, level)
            /\ dLevel' = level
            /\ IF level = aLevel
               THEN pc' = "asserting" /\ trail' = Append(Below(level), Entry(learnt[1], level, learnt, FALSE))
               ELSE pc' = "selecting" /\ trail' = Below(level)
  BY DEF LearnAndBacktrack
<1> DEFINE s == Resolved(c.clause, c.order)
           learnt == LearntClause(s)
           aLevel == aLevelOf(Kept(s))
           level == IF restart THEN 1 ELSE aLevel
           e == Entry(learnt[1], level, learnt, FALSE)
           u == Below(level)
           V == ToSet(order.varOrder)
<1>2. /\ clauses' = IF Len(learnt) > 1 THEN Append(clauses, learnt) ELSE clauses
      /\ order' \in FreedAbove(s, level)
      /\ dLevel' = level
      /\ IF level = aLevel THEN pc' = "asserting" /\ trail' = Append(u, e) ELSE pc' = "selecting" /\ trail' = u
  BY <1>1
<1>3. pc = "asserting" /\ dLevel > 1 /\ UNCHANGED <<problem, unit_conflicts>>
  BY DEF LearnAndBacktrack
<1>4. /\ TypeOK /\ TrailOK(trail, dLevel, Remaining) /\ dLevel \in Nat /\ clauses \in Seq(Seq(Literals))
      /\ DOMAIN trail = 1 .. Len(trail)
  BY OnTrail DEF Inv, TypeOK
<1>5. Remaining \subseteq Assignments
  BY <1>4, RemainingFacts DEF TypeOK
<1>6. /\ ClauseOK(c.clause, Remaining) /\ c.order = order /\ (\A x \in ToSet(c.clause) : RESOLVED(x))
      /\ \E x \in ToSet(c.clause) : LevelOf(x) = dLevel
  BY ConflictFacts, PoolLong
<1>7. Learning(s, 0, Remaining) /\ s.uip # 0
  BY <1>3, <1>4, <1>5, ConflictFacts, ResolvedFacts
<1>8. order \in PassedIn(V, Stacked(trail))
  BY <1>3, <1>4 DEF Complete, OrderOK, Live
<1>9. PICK k \in 1 .. Len(trail) : trail[k].lit = s.uip /\ s.orders \subseteq PassedIn(V, Upto(k - 1))
  <2>1. \A i \in DOMAIN trail : ~ trail[i].binary
    BY DEF Complete, KnownOK
  <2> HIDE DEF V
  <2> QED
    BY <1>3, <1>4, <1>5, <1>6, <1>8, <2>1, ResolvedPassed
<1> HIDE DEF s
<1>10. LearntOK(learnt, aLevel, Remaining)
  BY <1>3, <1>4, <1>5, <1>7, LearntFacts
<1> HIDE DEF learnt, aLevel
<1>11. /\ aLevel \in 1 .. dLevel - 1 /\ learnt \in Seq(Literals) /\ 1 \in DOMAIN learnt
  <2>1. aLevel \in 1 .. dLevel - 1 /\ learnt \in Seq(Literals) /\ learnt # << >>
    BY <1>10 DEF LearntOK
  <2>2. 1 \in DOMAIN learnt
    BY <2>1
  <2> QED
    BY <2>1, <2>2
<1>12. level \in Nat \ {0}
  BY <1>3, <1>4, <1>11
<1>13. level = aLevel => e \in Entries /\ NewEntry(u, e, Remaining)
  BY <1>4, <1>5, <1>10, AssertedFacts
<1>14. e.lit = learnt[1] /\ ~e.binary
  BY DEF Entry
<1> HIDE DEF e, u, level, V
<1>15. order' \in PassedIn(V, Stacked(u))
  BY <1>2, <1>4, <1>9, <1>12, FreedAbovePassed DEF u
<1>16. /\ u \in Seq(Entries)
       /\ \A i \in DOMAIN u : \E j \in DOMAIN trail : u[i] = trail[j]
       /\ \A j \in DOMAIN trail : trail[j].dLevel <= level => \E i \in DOMAIN u : u[i] = trail[j]
  BY <1>4, <1>12, BelowFacts DEF u
<1>17. AtFirst(trail) \subseteq AtFirst(u)
  <2>1. ASSUME NEW j \in DOMAIN trail, trail[j].dLevel = 1 PROVE \E i \in DOMAIN u : u[i] = trail[j]
    BY <1>12, <1>16, <2>1
  <2> QED
    BY <2>1 DEF AtFirst
<1>18. Variables(learnt) \subseteq CnfVars
  <2>1. ASSUME NEW x \in ToSet(learnt) PROVE VAR(x) \in CnfVars
    <3>1. PICK i \in DOMAIN learnt : x = learnt[i]
      BY <2>1 DEF ToSet
    <3>2. i \in 1 .. Len(learnt) /\ x \in Literals
      BY <1>11, <3>1
    <3>3. \E j \in DOMAIN trail : trail[j].lit = NEG(x)
      <4>1. i = 1 \/ i \in 2 .. Len(learnt)
        BY <3>2
      <4> QED
        BY <1>4, <1>10, <3>1, <4>1 DEF LearntOK
    <3> QED
      BY <3>2, <3>3, LiteralFacts DEF Complete, KnownOK
  <2> QED
    BY <2>1 DEF Variables
<1>19. CnfVars' = CnfVars
  BY <1>3, ProblemStays
<1>20. /\ AtFirst(trail) \subseteq AtFirst(trail') /\ order' \in PassedIn(V, Stacked(trail'))
       /\ \A i \in DOMAIN trail' : trail'[i] = e \/ \E j \in DOMAIN trail : trail'[i] = trail[j]
  <2>1. CASE level = aLevel
    <3>1. trail' = Append(u, e) /\ e \in Entries
      BY <1>2, <1>13, <2>1
    <3> QED
      BY <1>15, <1>16, <1>17, <3>1, AppendedStays, PassedMore
  <2>2. CASE level # aLevel
    BY <1>2, <1>15, <1>16, <1>17, <2>2
  <2> QED
    BY <2>1, <2>2
<1>21. KnownOK'
  <2>1. VAR(e.lit) \in CnfVars
    BY <1>11, <1>14, <1>18 DEF Variables, ToSet
  <2>2. ToSet(clauses') \subseteq ToSet(clauses) \cup {learnt}
    BY <1>2, <1>4, <1>11 DEF ToSet
  <2>3. ToSet(order'.varOrder) = V
    BY <1>15 DEF PassedIn
  <2>4. \A i \in DOMAIN trail' : ~ trail'[i].binary /\ VAR(trail'[i].lit) \in CnfVars
    BY <1>14, <1>20, <2>1 DEF Complete, KnownOK
  <2> QED
    BY <1>3, <1>18, <1>19, <2>2, <2>3, <2>4 DEF Complete, KnownOK, V
<1>22. ToSet(order'.varOrder) = V
  BY <1>15 DEF PassedIn
<1> QED
  BY <1>2, <1>3, <1>4, <1>20, <1>21, <1>22, SearchComplete DEF V

\* The clauses of one literal are the units.
LEMMA CnfUnitsFacts ==
  ASSUME cnf \in Cnfs
  PROVE  /\ \A c \in ToSet(cnf) : Len(c) = 1 => c[1] \in ToSet(CnfUnits) /\ ToSet(c) = {c[1]}
         /\ Variables(CnfUnits) \subseteq CnfVars
<1>1. /\ cnf \in Seq(Seq(Literals)) /\ \A c \in ToSet(cnf) : c \in Seq(Literals)
      /\ \A l \in ToSet(CnfUnits) : \E c \in ToSet(cnf) : Len(c) = 1 /\ c[1] = l
  BY CnfFacts
<1>2. Units \in Seq(Seq(Literals)) /\ ToSet(Units) = ToSet(cnf) \cap {c \in ToSet(cnf) : Len(c) = 1}
  BY <1>1, OnlyFacts DEF Units
<1>3. ASSUME NEW c \in ToSet(cnf), Len(c) = 1 PROVE c[1] \in ToSet(CnfUnits) /\ ToSet(c) = {c[1]}
  <2>1. PICK i \in DOMAIN Units : Units[i] = c
    BY <1>2, <1>3 DEF ToSet
  <2>2. i \in DOMAIN CnfUnits /\ CnfUnits[i] = c[1]
    BY <2>1 DEF CnfUnits
  <2>3. DOMAIN c = {1}
    BY <1>1, <1>3
  <2> QED
    BY <2>2, <2>3 DEF ToSet
<1>4. ASSUME NEW l \in ToSet(CnfUnits) PROVE VAR(l) \in CnfVars
  <2>1. PICK c \in ToSet(cnf) : Len(c) = 1 /\ c[1] = l
    BY <1>1
  <2>2. l \in ToSet(c)
    BY <1>3, <2>1
  <2> QED
    BY <2>1, <2>2 DEF CnfVars, Variables
<1> QED
  BY <1>3, <1>4 DEF Variables

\* Among some variables there is one with the highest score.
LEMMA BestOfSome ==
  ASSUME NEW o \in Orders, NEW S \in SUBSET Vars, S # {}
  PROVE  \E v \in S : \A w \in S : SCORE(o, w) <= SCORE(o, v)
<1> DEFINE P == {i \in 0 .. vc : (\E v \in S : v <= i) =>
                   \E v \in S : v <= i /\ \A w \in S : w <= i => SCORE(o, w) <= SCORE(o, v)}
<1>1. vc \in Nat /\ Vars = 1 .. vc
  BY LiteralFacts DEF Vars
<1>2. \A v \in S : v \in Nat /\ v >= 1 /\ v <= vc /\ SCORE(o, v) \in Nat
  <2>1. ASSUME NEW v \in S PROVE SCORE(o, v) \in Nat
    <3>1. v \in Literals /\ -v \in Literals
      BY LiteralFacts DEF Literals
    <3>2. o.activity[v] \in Nat /\ o.activity[-v] \in Nat
      BY <3>1 DEF Orders
    <3> QED
      BY <3>2 DEF SCORE
  <2>2. \A v \in S : v \in Nat /\ v >= 1 /\ v <= vc
    BY <1>1
  <2> QED
    BY <2>1, <2>2
<1>3. 0 \in P
  BY <1>1, <1>2
<1>4. ASSUME NEW i \in 0 .. vc - 1, i \in P PROVE i + 1 \in P
  <2>0. i \in Nat /\ i + 1 \in 0 .. vc /\ \A w \in S : w <= i + 1 <=> w <= i \/ w = i + 1
    BY <1>1, <1>2
  <2>1. CASE i + 1 \notin S
    <3>1. \A w \in S : w <= i + 1 <=> w <= i
      BY <2>0, <2>1
    <3> QED
      BY <1>4, <2>0, <3>1
  <2>2. CASE i + 1 \in S /\ ~ \E v \in S : v <= i
    <3>1. \A w \in S : w <= i + 1 => w = i + 1
      BY <2>0, <2>2
    <3>2. i + 1 <= i + 1 /\ SCORE(o, i + 1) <= SCORE(o, i + 1)
      BY <1>2, <2>0, <2>2
    <3> QED
      BY <2>0, <2>2, <3>1, <3>2
  <2>3. CASE i + 1 \in S /\ \E v \in S : v <= i
    <3>1. PICK v \in S : v <= i /\ \A w \in S : w <= i => SCORE(o, w) <= SCORE(o, v)
      BY <1>4, <2>3
    <3>2. v <= i + 1 /\ i + 1 <= i + 1
      BY <2>0, <3>1
    <3>3. CASE SCORE(o, i + 1) <= SCORE(o, v)
      <4>1. \A w \in S : w <= i + 1 => SCORE(o, w) <= SCORE(o, v)
        BY <2>0, <3>1, <3>3
      <4> QED
        BY <2>0, <3>2, <4>1
    <3>4. CASE ~(SCORE(o, i + 1) <= SCORE(o, v))
      <4>1. \A w \in S : w <= i + 1 => SCORE(o, w) <= SCORE(o, i + 1)
        <5>1. SCORE(o, i + 1) \in Nat /\ SCORE(o, v) \in Nat /\ \A w \in S : SCORE(o, w) \in Nat
          BY <1>2, <2>3
        <5> QED
          BY <2>0, <3>1, <3>4, <5>1
      <4> QED
        BY <2>0, <2>3, <3>2, <4>1
    <3> QED
      BY <3>3, <3>4
  <2> QED
    BY <2>1, <2>2, <2>3
<1>5. vc \in P
  <2> HIDE DEF P
  <2>1. \A i \in 0 .. vc : i \in P
    BY <1>1, <1>3, <1>4, InductionUpTo
  <2> QED
    BY <1>1, <2>1
<1>6. PICK v \in S : \A w \in S : w <= vc => SCORE(o, w) <= SCORE(o, v)
  BY <1>2, <1>5
<1> QED
  BY <1>2, <1>6

\* When there is nothing to select, every variable of the problem is assigned.
LEMMA NothingFree ==
  ASSUME Inv, Complete, pc = "selecting", Selected = {}
  PROVE  CnfVars \subseteq Stacked(trail)
<1>1. /\ TypeOK /\ TrailOK(trail, dLevel, Remaining) /\ order \in Orders /\ order.varOrder \in Seq(Vars)
      /\ order.nextVar \in Nat /\ nextClause \in 0 .. Len(clauses) /\ dLevel # 0 /\ clauses \in Seq(Seq(Literals))
  BY DEF Inv, TypeOK, Orders
<1>2. order \in PassedIn(ToSet(order.varOrder), Stacked(trail))
  BY <1>1 DEF Complete, OrderOK, Live
<1>3. OpenClauses = {}
  <2> SUFFICES ASSUME OpenClauses # {} PROVE FALSE
    OBVIOUS
  <2> DEFINE c == clauses[Max(OpenClauses)]
  <2>1. OpenClauses \in SUBSET (0 .. nextClause) /\ nextClause \in Nat /\ OpenClauses \subseteq 1 .. nextClause
    BY <1>1 DEF OpenClauses
  <2>2. Max(OpenClauses) \in OpenClauses
    BY <2>1, GreatestIn
  <2>3. Max(OpenClauses) \in 1 .. nextClause
    BY <2>1, <2>2
  <2>4. Len(clauses) \in Nat /\ DOMAIN clauses = 1 .. Len(clauses)
    BY <1>1
  <2>5. Max(OpenClauses) \in DOMAIN clauses
    BY <1>1, <2>3, <2>4
  <2>6. c \in ToSet(clauses) /\ ~Satisfied(c) /\ BestOf(c) = {} /\ c \in Seq(Literals)
    <3>1. c \in Seq(Literals)
      BY <1>1, <2>5
    <3>2. c \in ToSet(clauses)
      BY <2>5 DEF ToSet
    <3>3. ~Satisfied(c)
      BY <2>2 DEF OpenClauses
    <3>4. BestOf(c) = {}
      BY DEF Selected
    <3> QED
      BY <3>1, <3>2, <3>3, <3>4
  <2> HIDE DEF c
  <2>7. ~FalseIn(trail, c)
    BY <2>6, NoneFalse
  <2>8. PICK i \in DOMAIN c : ~RESOLVED(c[i])
    BY <2>7 DEF FalseIn, RESOLVED
  <2>9. FREE(c[i]) /\ c[i] \in ToSet(c)
    BY <2>6, <2>8 DEF Satisfied, FREE, ToSet
  <2> DEFINE free == {VAR(l) : l \in {l \in ToSet(c) : FREE(l)}}
  <2>10. free \in SUBSET Vars /\ free # {}
    <3>1. \A l \in ToSet(c) : VAR(l) \in Vars
      BY <2>6, LiteralFacts DEF ToSet
    <3> QED
      BY <2>9, <3>1
  <2>11. BestOf(c) = {v \in free : \A w \in free : SCORE(order, w) <= SCORE(order, v)}
    BY DEF BestOf
  <2> HIDE DEF free
  <2> QED
    BY <1>1, <2>6, <2>10, <2>11, BestOfSome
<1>4. FreeInOrder = {}
  BY <1>3 DEF Selected
<1>5. ASSUME NEW i \in DOMAIN order.varOrder PROVE order.varOrder[i] \in Stacked(trail)
  <2>1. i \in 1 .. Len(order.varOrder) /\ Len(order.varOrder) \in Nat /\ order.varOrder[i] \in Vars
    BY <1>1
  <2>2. CASE i < order.nextVar
    BY <1>2, <2>2 DEF PassedIn
  <2>3. CASE ~(i < order.nextVar)
    <3>1. i \in order.nextVar .. Len(order.varOrder)
      BY <1>1, <2>1, <2>3
    <3>2. ~FREE(order.varOrder[i])
      BY <1>4, <3>1 DEF FreeInOrder
    <3> QED
      BY <1>1, <2>1, <3>2, NotFree
  <2> QED
    BY <2>2, <2>3
<1>6. ASSUME NEW v \in CnfVars, v \notin ToSet(order.varOrder) PROVE v \in Stacked(trail)
  <2>1. v \in AtFirst(trail) \/ NEG(v) \in AtFirst(trail)
    BY <1>1, <1>6 DEF Complete, FirstLevelOK, Live
  <2>2. v \in Vars
    <3>1. PICK c \in ToSet(cnf) : v \in Variables(c)
      BY DEF CnfVars
    <3>2. c \in Seq(Literals)
      BY <1>1, CnfFacts DEF TypeOK
    <3> QED
      BY <3>1, <3>2, LiteralFacts DEF Variables, ToSet
  <2>3. ~FREE(v)
    BY <2>1 DEF AtFirst, FREE, SET, RESOLVED, Assigned
  <2> QED
    BY <1>1, <2>2, <2>3, NotFree
<1> QED
  BY <1>5, <1>6 DEF ToSet

\* What is found is then a model, and satisfies what excludes the answers.
LEMMA ModelFound ==
  ASSUME Inv, Complete, pc = "selecting", Selected = {}
  PROVE  \A i \in DOMAIN Verified : Satisfied(Verified[i])
<1>1. /\ TypeOK /\ TrailOK(trail, dLevel, Remaining) /\ cnf \in Cnfs /\ clauses \in Seq(Seq(Literals)) /\ dLevel # 0
      /\ blocking \in Seq(Nat) /\ \A k \in DOMAIN blocking : blocking[k] \in DOMAIN clauses
  BY DEF Inv, TypeOK
<1>2. CnfVars \subseteq Stacked(trail)
  BY NothingFree
<1>3. ASSUME NEW c \in ToSet(Others) \cup ToSet(clauses) PROVE Satisfied(c)
  <2>1. c \in Seq(Literals) /\ ~FalseIn(trail, c) /\ Variables(c) \subseteq CnfVars
    BY NoneFalse, PoolFacts, PoolKnown DEF ClauseOK, Complete
  <2>2. PICK i \in DOMAIN c : ~RESOLVED(c[i])
    BY <2>1 DEF FalseIn, RESOLVED
  <2>3. c[i] \in Literals /\ VAR(c[i]) \in CnfVars
    BY <2>1 DEF Variables, ToSet
  <2>4. PICK j \in DOMAIN trail : VAR(trail[j].lit) = VAR(c[i])
    BY <1>2, <2>3 DEF Stacked
  <2>5. trail[j].lit \in Literals
    BY <1>1, OnTrail
  <2>6. trail[j].lit = c[i] \/ trail[j].lit = NEG(c[i])
    BY <2>3, <2>4, <2>5, LiteralFacts
  <2>7. SET(c[i])
    BY <2>2, <2>6 DEF SET, RESOLVED, Assigned
  <2> QED
    BY <2>7 DEF Satisfied
<1>4. ASSUME NEW c \in ToSet(cnf) PROVE Satisfied(c)
  <2>1. c \in Seq(Literals) /\ Len(c) \in Nat \ {0}
    <3>1. c \in Seq(Literals)
      BY <1>1, CnfFacts
    <3>2. c # << >>
      BY DEF Complete, StartOK
    <3> QED
      BY <3>1, <3>2
  <2>2. CASE Len(c) > 1
    <3>1. c \in ToSet(Others)
      BY <1>1, <2>2, CnfFacts
    <3> QED
      BY <1>3, <3>1
  <2>3. CASE Len(c) = 1
    <3>1. c[1] \in ToSet(CnfUnits) /\ 1 \in DOMAIN c
      <4>1. 1 \in DOMAIN c
        BY <2>1, <2>3
      <4> QED
        BY <1>1, <2>3, <4>1, CnfUnitsFacts
    <3>2. c[1] \in AtFirst(trail)
      BY <1>1, <3>1 DEF Complete, StartOK, Live
    <3> QED
      BY <3>1, <3>2 DEF AtFirst, Satisfied, SET, Assigned
  <2>4. Len(c) > 1 \/ Len(c) = 1
    <3>1. \A n \in Nat \ {0} : n > 1 \/ n = 1
      OBVIOUS
    <3> QED
      BY <2>1, <3>1
  <2> QED
    BY <2>2, <2>3, <2>4
<1>5. ASSUME NEW i \in DOMAIN Verified PROVE Verified[i] \in ToSet(cnf) \/ Verified[i] \in ToSet(clauses)
  <2> DEFINE bs == [k \in DOMAIN blocking |-> clauses[blocking[k]]]
  <2>1. PICK S : S = Seq(Literals)
    OBVIOUS
  <2>2. bs \in Seq(S) /\ \A x \in ToSet(bs) : x \in ToSet(clauses)
    <3>1. DOMAIN blocking = 1 .. Len(blocking) /\ Len(blocking) \in Nat
      BY <1>1
    <3>2. \A k \in DOMAIN blocking : clauses[blocking[k]] \in S /\ clauses[blocking[k]] \in ToSet(clauses)
      BY <1>1, <2>1 DEF ToSet
    <3>3. bs \in [1 .. Len(blocking) -> S]
      BY <3>1, <3>2
    <3>4. \A x \in ToSet(bs) : x \in ToSet(clauses)
      BY <3>2 DEF ToSet
    <3> QED
      BY <3>1, <3>3, <3>4
  <2>3. cnf \in Seq(S)
    BY <1>1, <2>1, CnfFacts
  <2>4. Verified = cnf \o bs
    BY DEF Verified
  <2> HIDE DEF bs
  <2>5. ToSet(Verified) = ToSet(cnf) \cup ToSet(bs)
    BY <2>2, <2>3, <2>4, JoinedFacts
  <2>6. Verified[i] \in ToSet(Verified)
    BY DEF ToSet
  <2> QED
    BY <2>2, <2>5, <2>6
<1> QED
  BY <1>3, <1>4, <1>5

\* An answer is reported and the solver is reset: what propagation sets from
\* the units is set again.
LEMMA FoundModelComplete ==
  ASSUME Inv, Complete, FoundModel
  PROVE  Complete'
<1>1. pc = "selecting" /\ Selected = {} /\ UNCHANGED problem
  BY DEF FoundModel
<1>2. \A i \in DOMAIN Verified : Satisfied(Verified[i])
  BY <1>1, ModelFound
<1>3. PICK kept \in Trimmed :
        LET a == AnswerOf(kept)
        IN  IF a = << >>
            THEN pc' = "finished" /\ UNCHANGED <<dLevel, trail, added, order, nextClause>>
            ELSE /\ clauses' = IF Len(a) > 1 THEN Append(clauses, Excluding(a)) ELSE clauses
                 /\ unit_conflicts' = IF Len(a) > 1 THEN unit_conflicts ELSE Append(unit_conflicts, -a[1])
                 /\ ResetTo(unit_conflicts' \o CnfUnits)
  BY <1>2 DEF FoundModel
<1> DEFINE a == AnswerOf(kept)
           V == ToSet(order.varOrder)
<1>4. /\ TypeOK /\ TrailOK(trail, dLevel, Remaining) /\ dLevel # 0 /\ clauses \in Seq(Seq(Literals))
      /\ unit_conflicts \in Seq(Literals) /\ order \in Orders /\ cnf \in Cnfs
  BY <1>1 DEF Inv, TypeOK
<1>5. kept \in SUBSET Vars
  BY <1>2, TrimmedFacts
<1>6. /\ a \in Seq(Literals) /\ IsInjective(a)
      /\ ToSet(a) = {l \in Literals : VAR(l) \in Reported \cap kept /\ SET(l)}
  BY <1>4, <1>5, AnswerFacts
<1> HIDE DEF a
<1>7. /\ cnf' = cnf /\ CnfUnits' = CnfUnits /\ CnfVars' = CnfVars
      /\ \A v : Forced(v)' <=> Forced(v)
  BY <1>1, ProblemStays
<1>8. Live /\ pc # "construct"
  BY <1>1, <1>4 DEF Live
<1>9. CASE a = << >>
  <2>1. pc' = "finished" /\ UNCHANGED <<dLevel, trail, added, order>>
    BY <1>3, <1>9 DEF a
  <2>2. KnownOK'
    BY <1>7, <2>1 DEF Complete, KnownOK, added
  <2>3. ~Live'
    BY <2>1 DEF Live
  <2> QED
    BY <1>1, <2>1, <2>2, <2>3, SearchComplete
<1>10. CASE a # << >>
  <2> DEFINE units == unit_conflicts' \o CnfUnits
  <2>1. /\ clauses' = IF Len(a) > 1 THEN Append(clauses, Excluding(a)) ELSE clauses
        /\ unit_conflicts' = IF Len(a) > 1 THEN unit_conflicts ELSE Append(unit_conflicts, -a[1])
        /\ dLevel' = 1 /\ order' = [order EXCEPT !.nextVar = 1]
        /\ IF Contradictory(units) THEN pc' = "finished" /\ trail' = << >> ELSE pc' = "reset" /\ trail' = UnitTrail(units)
    BY <1>3, <1>10 DEF a, ResetTo
  <2>2. Len(a) \in Nat /\ 1 \in DOMAIN a /\ a[1] \in ToSet(a)
    <3>1. Len(a) \in Nat \ {0} /\ DOMAIN a = 1 .. Len(a)
      BY <1>6, <1>10
    <3>2. 1 \in DOMAIN a
      BY <3>1
    <3> QED
      BY <3>1, <3>2 DEF ToSet
  <2>3. ASSUME NEW x \in ToSet(a) PROVE x \in Literals /\ NEG(x) \in Literals /\ VAR(NEG(x)) \in CnfVars
    <3>1. x \in Literals /\ SET(x)
      BY <1>6
    <3>2. VAR(x) \in CnfVars
      BY <3>1 DEF Complete, KnownOK, SET, Assigned
    <3> QED
      BY <3>1, <3>2, LiteralFacts
  <2>4. Variables(unit_conflicts') \subseteq CnfVars /\ unit_conflicts' \in Seq(Literals)
    <3>1. CASE Len(a) > 1
      BY <1>4, <2>1, <3>1 DEF Complete, KnownOK
    <3>2. CASE ~(Len(a) > 1)
      <4> DEFINE x == NEG(a[1])
      <4>1. unit_conflicts' = Append(unit_conflicts, x)
        BY <2>1, <3>2 DEF NEG
      <4>2. x \in Literals /\ VAR(x) \in CnfVars
        BY <2>2, <2>3
      <4> HIDE DEF x
      <4>3. /\ unit_conflicts' \in Seq(Literals)
            /\ ToSet(unit_conflicts') \subseteq ToSet(unit_conflicts) \cup {x}
        BY <1>4, <4>1, <4>2 DEF ToSet
      <4> QED
        BY <4>2, <4>3 DEF Complete, KnownOK, Variables
    <3> QED
      BY <3>1, <3>2
  <2>5. \A c \in ToSet(clauses') : Variables(c) \subseteq CnfVars
    <3>1. CASE Len(a) > 1
      <4>1. Excluding(a) \in Seq(Literals) /\ ToSet(Excluding(a)) = {NEG(x) : x \in ToSet(a)}
        BY <1>6, <3>1, ExcludingFacts
      <4>2. Variables(Excluding(a)) \subseteq CnfVars
        BY <2>3, <4>1 DEF Variables
      <4>3. PICK x : x = Excluding(a)
        OBVIOUS
      <4>4. PICK S : S = Seq(Literals)
        OBVIOUS
      <4>5. clauses' = Append(clauses, x) /\ clauses \in Seq(S) /\ x \in S
        BY <1>4, <2>1, <3>1, <4>1, <4>3, <4>4
      <4>6. ToSet(clauses') \subseteq ToSet(clauses) \cup {x}
        BY ONLY <4>5 DEF ToSet
      <4> QED
        BY <4>2, <4>3, <4>6 DEF Complete, KnownOK
    <3>2. CASE ~(Len(a) > 1)
      BY <2>1, <3>2 DEF Complete, KnownOK
    <3> QED
      BY <3>1, <3>2
  <2>6. CnfUnits \in Seq(Literals) /\ Variables(CnfUnits) \subseteq CnfVars
    BY <1>4, CnfFacts, CnfUnitsFacts
  <2>7. units \in Seq(Literals) /\ ToSet(units) = ToSet(unit_conflicts') \cup ToSet(CnfUnits)
    BY <2>4, <2>6, JoinedFacts
  <2> HIDE DEF units
  <2>8. ~Contradictory(units) =>
          /\ ToSet(units) \subseteq AtFirst(UnitTrail(units))
          /\ \A i \in DOMAIN UnitTrail(units) : ~ UnitTrail(units)[i].binary /\ UnitTrail(units)[i].lit \in ToSet(units)
    <3> SUFFICES ASSUME ~Contradictory(units)
                 PROVE  /\ ToSet(units) \subseteq AtFirst(UnitTrail(units))
                        /\ \A i \in DOMAIN UnitTrail(units) :
                             ~ UnitTrail(units)[i].binary /\ UnitTrail(units)[i].lit \in ToSet(units)
      OBVIOUS
    <3>1. PICK M : M = {}
      OBVIOUS
    <3>2. \A m \in M, l \in ToSet(units) : l \in m
      BY <3>1
    <3>3. /\ \A i \in DOMAIN UnitTrail(units) :
               /\ UnitTrail(units)[i].dLevel = 1 /\ ~ UnitTrail(units)[i].binary
               /\ UnitTrail(units)[i].lit \in ToSet(units)
          /\ \A l \in ToSet(units) : l \in Assigned(UnitTrail(units))
      BY <2>7, <3>2, UnitTrailFacts
    <3> QED
      BY <3>3 DEF AtFirst, Assigned
  <2>9. order'.varOrder = order.varOrder /\ order'.nextVar = 1 /\ order' \in Orders
    <3>1. 1 \in Nat \ {0}
      OBVIOUS
    <3>2. order' = [order EXCEPT !.nextVar = 1]
      BY <2>1
    <3> QED
      BY <1>4, <3>1, <3>2 DEF Orders
  <2>10. KnownOK'
    <3>1. \A i \in DOMAIN trail' : ~ trail'[i].binary /\ VAR(trail'[i].lit) \in CnfVars
      <4>1. \A x \in ToSet(units) : VAR(x) \in CnfVars
        BY <2>4, <2>6, <2>7 DEF Variables
      <4> QED
        BY <2>1, <2>8, <4>1
    <3> QED
      BY <1>7, <2>4, <2>5, <2>9, <3>1 DEF Complete, KnownOK
  <2>11. StartOK'
    <3>1. << >> \notin ToSet(cnf)
      BY <1>1 DEF Complete, StartOK
    <3>2. Live' => ToSet(CnfUnits) \subseteq AtFirst(trail')
      BY <2>1, <2>7, <2>8 DEF Live
    <3> QED
      BY <1>7, <2>1, <3>1, <3>2 DEF StartOK
  <2>12. OrderOK'
    <3>1. \A i \in DOMAIN order.varOrder : ~(i < 1)
      BY <1>4 DEF Orders
    <3>2. IsInjective(order.varOrder)
      BY <1>8 DEF Complete, OrderOK, PassedIn
    <3> QED
      BY <2>9, <3>1, <3>2 DEF OrderOK, PassedIn
  <2>13. FirstLevelOK'
    BY <1>7, <1>8, <2>1, <2>9 DEF Complete, FirstLevelOK, Live
  <2> QED
    BY <2>1, <2>10, <2>11, <2>12, <2>13 DEF Complete
<1> QED
  BY <1>9, <1>10

\* The order of the variables at first.
LEMMA ConstructedComplete ==
  ASSUME Inv, Complete, Constructed
  PROVE  Complete'
<1> DEFINE vs == {v \in Vars : FREE(v) /\ SCORE(order, v) > 0}
           n == Cardinality(vs)
<1>1. /\ pc = "construct" /\ NoneLeft /\ pc' = "stopped" /\ dLevel = 1
      /\ UNCHANGED <<problem, dLevel, trail, clauses, unit_conflicts>>
  BY DEF Constructed, added, Inv, TypeOK
<1>2. PICK s \in [1 .. n -> vs] : /\ \A i, j \in 1 .. n : i # j => s[i] # s[j]
                                 /\ order' = [order EXCEPT !.varOrder = s]
  BY DEF Constructed, SetToSeqs
<1>3. /\ cnf' = cnf /\ CnfUnits' = CnfUnits /\ CnfVars' = CnfVars
      /\ \A v : Forced(v)' <=> Forced(v)
  BY <1>1, ProblemStays
<1>4. /\ order \in Orders /\ cnf \in Cnfs /\ TrailOK(trail, dLevel, Remaining)
      /\ order.nextVar = 1 /\ order.activity = [l \in Literals |-> Occurrences(Others, l)]
      /\ Live /\ Live'
  BY <1>1 DEF Inv, TypeOK, Complete, StartOK, Live
<1>5. IsFiniteSet(vs) /\ n \in Nat /\ vs \subseteq Vars
  <2>1. IsFiniteSet(Vars)
    BY LiteralFacts, FS_Interval DEF Vars
  <2>2. vs \subseteq Vars
    OBVIOUS
  <2> QED
    BY <2>1, <2>2, FS_Subset, FS_CardinalityType
<1>6. \A v \in CnfVars : v \in Vars
  <2>1. ASSUME NEW v \in CnfVars PROVE v \in Vars
    <3>1. PICK c \in ToSet(cnf) : v \in Variables(c)
      BY DEF CnfVars
    <3>2. c \in Seq(Literals)
      BY <1>4, CnfFacts
    <3> QED
      <4>1. PICK i \in DOMAIN c : v = VAR(c[i])
        BY <3>1 DEF Variables, ToSet
      <4>2. c[i] \in Literals
        BY <3>2, <4>1
      <4> QED
        BY <4>1, <4>2, LiteralFacts
  <2> QED
    BY <2>1
\* The score of a variable counts the clauses of two literals or more it is in.
<1>7. ASSUME NEW v \in Vars
      PROVE  SCORE(order, v) > 0 <=> \E c \in ToSet(Others) : v \in Variables(c)
  <2> DEFINE In(l) == {i \in DOMAIN Others : l \in ToSet(Others[i])}
  <2>1. Others \in Seq(Seq(Literals)) /\ IsFiniteSet(DOMAIN Others)
    <3>1. Others \in Seq(Seq(Literals))
      BY <1>4, CnfFacts
    <3>2. DOMAIN Others = 1 .. Len(Others) /\ Len(Others) \in Nat
      BY <3>1
    <3> QED
      BY <3>1, <3>2, FS_Interval
  <2>2. ASSUME NEW l PROVE Occurrences(Others, l) \in Nat /\ (Occurrences(Others, l) = 0 <=> In(l) = {})
    <3>1. In(l) \subseteq DOMAIN Others
      OBVIOUS
    <3>2. IsFiniteSet(In(l))
      BY <2>1, <3>1, FS_Subset
    <3> QED
      BY <3>2, FS_CardinalityType, FS_EmptySet DEF Occurrences
  <2>3. v \in Literals /\ -v \in Literals /\ VAR(v) = v /\ VAR(-v) = v /\ NEG(v) = -v
    BY LiteralFacts DEF VAR, NEG, Vars
  <2>4. SCORE(order, v) = Occurrences(Others, v) + Occurrences(Others, -v)
    BY <1>4, <2>3 DEF SCORE
  <2>5. SCORE(order, v) > 0 <=> In(v) # {} \/ In(-v) # {}
    BY <2>2, <2>4
  <2>6. ASSUME In(v) # {} \/ In(-v) # {} PROVE \E c \in ToSet(Others) : v \in Variables(c)
    <3>1. PICK i \in DOMAIN Others : v \in ToSet(Others[i]) \/ -v \in ToSet(Others[i])
      BY <2>6
    <3>2. Others[i] \in ToSet(Others) /\ v \in Variables(Others[i])
      BY <2>3, <3>1 DEF ToSet, Variables
    <3> QED
      BY <3>2
  <2>7. ASSUME NEW c \in ToSet(Others), v \in Variables(c) PROVE In(v) # {} \/ In(-v) # {}
    <3>1. PICK x \in ToSet(c) : v = VAR(x)
      BY <2>7 DEF Variables
    <3>2. c \in Seq(Literals)
      BY <1>4, CnfFacts
    <3>3. x = v \/ x = -v
      BY <2>3, <3>1, <3>2, LiteralFacts DEF ToSet
    <3>4. PICK i \in DOMAIN Others : c = Others[i]
      BY DEF ToSet
    <3> QED
      BY <3>1, <3>3, <3>4
  <2> QED
    BY <2>5, <2>6, <2>7
<1> HIDE DEF vs, n
<1>8. order'.varOrder = s /\ order'.nextVar = 1 /\ order' \in Orders /\ DOMAIN s = 1 .. n
  <2>1. s \in [1 .. n -> Vars]
    BY <1>5
  <2>2. s \in Seq(Vars)
    BY <1>5, <2>1
  <2> QED
    BY <1>2, <1>4, <2>2 DEF Orders
<1>9. ToSet(s) = vs
  <2>1. s \in Injection(1 .. n, vs)
    BY <1>2 DEF Injection, IsInjective
  <2>2. Cardinality(1 .. n) = n
    BY <1>5, FS_Interval
  <2>3. s \in Surjection(1 .. n, vs)
    BY <1>5, <2>1, <2>2, FS_Injection DEF n
  <2> QED
    BY <1>8, <2>3 DEF Surjection, ToSet
<1>10. KnownOK'
  <2>1. vs \subseteq CnfVars
    <3>1. \A c \in ToSet(Others) : c \in ToSet(cnf)
      BY <1>4, CnfFacts
    <3> QED
      BY <1>7, <3>1 DEF vs, CnfVars
  <2> QED
    BY <1>1, <1>3, <1>8, <1>9, <2>1 DEF Complete, KnownOK
<1>11. StartOK'
  BY <1>1, <1>3, <1>4 DEF Complete, StartOK
<1>12. OrderOK'
  <2>1. \A i \in 1 .. n : ~(i < 1)
    BY <1>5
  <2>2. IsInjective(s)
    BY <1>2, <1>8 DEF IsInjective
  <2> QED
    BY <1>8, <2>1, <2>2 DEF OrderOK, PassedIn
<1>13. FirstLevelOK'
  <2>1. Closed(Assigned(trail)) /\ Assigned(trail) \in SUBSET Literals
    BY <1>1, <1>4, ClosedNow DEF Complete, StartOK
  <2>2. \A i \in DOMAIN trail : trail[i].dLevel = 1
    BY <1>1, <1>4 DEF TrailOK, Leveled
  <2>3. Assigned(trail) \subseteq AtFirst(trail)
    BY <2>2 DEF Assigned, AtFirst
  <2>4. ASSUME NEW v \in CnfVars, v \notin vs PROVE Forced(v)
    <3>1. v \in Vars /\ VAR(v) = v
      BY <1>6, <2>4 DEF VAR, Vars
    <3>2. CASE FREE(v)
      <4>1. ~(SCORE(order, v) > 0)
        BY <2>4, <3>1, <3>2 DEF vs
      <4>2. PICK c \in ToSet(cnf) : v \in Variables(c)
        BY <2>4 DEF CnfVars
      <4>3. c \in Seq(Literals) /\ c \notin ToSet(Others)
        BY <1>4, <1>7, <3>1, <4>1, <4>2, CnfFacts
      <4>4. Len(c) \in Nat /\ ~(Len(c) > 1) /\ Len(c) # 0
        <5>1. ~(Len(c) > 1)
          BY <1>4, <4>3, CnfFacts
        <5>2. Len(c) # 0
          BY <4>2, <4>3 DEF Variables, ToSet
        <5> QED
          BY <4>3, <5>1, <5>2
      <4>5. Len(c) = 1
        <5>1. \A k \in Nat : ~(k > 1) /\ k # 0 => k = 1
          OBVIOUS
        <5> QED
          BY <4>4, <5>1
      <4>6. c[1] \in ToSet(CnfUnits) /\ ToSet(c) = {c[1]}
        BY <1>4, <4>5, CnfUnitsFacts
      <4>7. v = VAR(c[1]) /\ c[1] \in Literals
        BY <4>2, <4>3, <4>6 DEF Variables, ToSet
      <4>8. c[1] = v \/ c[1] = NEG(v)
        BY <3>1, <4>7, LiteralFacts
      <4> QED
        BY <4>6, <4>8 DEF Forced, Closed
    <3>3. CASE ~FREE(v)
      <4>1. v \in Assigned(trail) \/ NEG(v) \in Assigned(trail)
        BY <3>3 DEF FREE, SET, RESOLVED
      <4> QED
        BY <1>1, <4>1 DEF Complete, StartOK, Forced
    <3> QED
      BY <3>2, <3>3
  <2> QED
    BY <1>1, <1>3, <1>8, <1>9, <2>1, <2>3, <2>4 DEF FirstLevelOK, Forced
<1> QED
  BY <1>1, <1>10, <1>11, <1>12, <1>13 DEF Complete

LEMMA InitComplete ==
  ASSUME Init
  PROVE  Complete
<1>1. /\ cnf \in Cnfs /\ dLevel = 1 /\ clauses = << >> /\ unit_conflicts = << >>
      /\ order = [activity |-> [l \in Literals |-> Occurrences(Others, l)], varOrder |-> << >>,
                  nextVar |-> 1, front |-> [l \in Literals |-> 0]]
      /\ IF solver_unit_contradiction THEN pc = "finished" /\ trail = << >>
         ELSE pc = "construct" /\ trail = UnitTrail(CnfUnits)
  BY DEF Init
<1>2. CnfUnits \in Seq(Literals) /\ Variables(CnfUnits) \subseteq CnfVars
  BY <1>1, CnfFacts, CnfUnitsFacts
<1>3. ~Contradictory(CnfUnits) =>
        /\ ToSet(CnfUnits) \subseteq AtFirst(UnitTrail(CnfUnits))
        /\ \A i \in DOMAIN UnitTrail(CnfUnits) :
             ~ UnitTrail(CnfUnits)[i].binary /\ UnitTrail(CnfUnits)[i].lit \in ToSet(CnfUnits)
  <2> SUFFICES ASSUME ~Contradictory(CnfUnits)
               PROVE  /\ ToSet(CnfUnits) \subseteq AtFirst(UnitTrail(CnfUnits))
                      /\ \A i \in DOMAIN UnitTrail(CnfUnits) :
                           ~ UnitTrail(CnfUnits)[i].binary /\ UnitTrail(CnfUnits)[i].lit \in ToSet(CnfUnits)
    OBVIOUS
  <2>1. PICK M : M = {}
    OBVIOUS
  <2>2. \A m \in M, l \in ToSet(CnfUnits) : l \in m
    BY <2>1
  <2>3. /\ \A i \in DOMAIN UnitTrail(CnfUnits) :
             /\ UnitTrail(CnfUnits)[i].dLevel = 1 /\ ~ UnitTrail(CnfUnits)[i].binary
             /\ UnitTrail(CnfUnits)[i].lit \in ToSet(CnfUnits)
        /\ \A l \in ToSet(CnfUnits) : l \in Assigned(UnitTrail(CnfUnits))
    BY <1>2, <2>2, UnitTrailFacts
  <2> QED
    BY <2>3 DEF AtFirst, Assigned
<1>4. pc # "finished" => ~solver_unit_contradiction /\ pc = "construct" /\ trail = UnitTrail(CnfUnits)
  BY <1>1
<1>5. KnownOK
  <2>1. \A i \in DOMAIN trail : ~ trail[i].binary /\ VAR(trail[i].lit) \in CnfVars
    BY <1>1, <1>2, <1>3 DEF Variables, solver_unit_contradiction
  <2> QED
    BY <1>1, <2>1 DEF KnownOK, Variables, ToSet
<1>6. StartOK
  <2>1. pc = "construct" => Assigned(trail) \subseteq ToSet(CnfUnits)
    BY <1>1, <1>3 DEF Assigned, solver_unit_contradiction
  <2>2. Live => ToSet(CnfUnits) \subseteq AtFirst(trail)
    BY <1>1, <1>3 DEF Live, solver_unit_contradiction
  <2>3. pc # "finished" => << >> \notin ToSet(cnf)
    BY <1>1 DEF solver_unit_contradiction
  <2> QED
    BY <1>1, <2>1, <2>2, <2>3 DEF StartOK, Closed
<1> QED
  BY <1>1, <1>4, <1>5, <1>6 DEF Complete, OrderOK, FirstLevelOK, Live

LEMMA StepComplete ==
  ASSUME Inv, Complete, LongClauses, [Next]_vars, ~Pause
  PROVE  Complete'
<1>1. CASE Propagate
  BY <1>1, PropagateComplete
<1>2. CASE Constructed
  BY <1>2, ConstructedComplete
<1>3. CASE ConflictAtLevel1
  BY <1>3, QuietComplete, StoppedComplete
<1>4. CASE LearnAndBacktrack
  BY <1>4, LearnComplete
<1>5. CASE Run \/ Propagated
  BY <1>5, QuietComplete
<1>6. CASE Decide
  BY <1>6, DecideComplete
<1>7. CASE FoundModel
  BY <1>7, FoundModelComplete
<1>8. CASE Ready
  BY <1>8, ReadyComplete
<1>9. CASE UNCHANGED vars
  BY <1>9, StutterComplete
<1> QED
  BY <1>1, <1>2, <1>3, <1>4, <1>5, <1>6, <1>7, <1>8, <1>9 DEF Next, Search, Rest

\* While no run has been interrupted.
UninterruptedOK == pauses \in Nat /\ (pauses = 0 /\ LongClauses => Complete)

-----------------------------------------------------------------------------
(* The theorems.                                                           *)

LEMMA StutterInv ==
  ASSUME Inv, UNCHANGED vars
  PROVE  Inv'
<1>1. UNCHANGED <<cnf, pc, dLevel, trail, clauses, blocking, unit_conflicts, order, phase, nextClause, answers>>
  BY DEF vars, problem, added
<1>2. Remaining' = Remaining /\ Others' = Others
  BY <1>1 DEF Remaining, Exclusions, Others
<1>3. TypeOK' /\ ClausesOK' /\ ConflictsOK' /\ UnitsOK'
  BY <1>1, <1>2 DEF Inv, TypeOK, ClausesOK, ConflictsOK, UnitsOK
<1>4. \A a : AnswerOK(a) => AnswerOK(a)'
  BY <1>1 DEF AnswerOK, CubeOK
<1>5. AnswersOK' /\ DisjointOK'
  BY <1>1, <1>4 DEF Inv, AnswersOK, DisjointOK
<1> QED
  BY <1>1, <1>2, <1>3, <1>5 DEF Inv

\* The solver's state is well typed, what is on its stack follows from the
\* decisions before it, no learnt clause, no clause excluding an answer and no
\* unit rules out a model that no answer covers, and every false clause has a
\* literal of the present level, where run() finds it (SatSolver.cpp,
\* CnfManager.cpp).
THEOREM SolverInvariant == Spec => []Inv
<1>1. Init => Inv
  BY InitInv
<1>2. Inv /\ [Next]_vars => Inv'
  <2> SUFFICES ASSUME Inv, [Next]_vars PROVE Inv'
    OBVIOUS
  <2>1. CASE Propagate
    BY <2>1, PropagateInv
  <2>2. CASE Constructed
    BY <2>2, ConstructedInv
  <2>3. CASE ConflictAtLevel1
    BY <2>3, ConflictAtLevel1Inv
  <2>4. CASE LearnAndBacktrack
    BY <2>4, LearnAndBacktrackInv
  <2>5. CASE Run \/ Propagated \/ Ready
    BY <2>5, RunInv
  <2>6. CASE Pause
    BY <2>6, PauseInv
  <2>7. CASE Decide
    BY <2>7, DecideInv
  <2>8. CASE FoundModel
    BY <2>8, FoundModelInv
  <2>9. CASE UNCHANGED vars
    BY <2>9, StutterInv
  <2> QED
    BY <2>1, <2>2, <2>3, <2>4, <2>5, <2>6, <2>7, <2>8, <2>9 DEF Next, Search, Rest
<1> QED
  BY <1>1, <1>2, PTL DEF Spec

\* A clause that conflict analysis has learnt, without the literals dropped as
\* redundant, follows from the problem and the answers excluded so far, also
\* after the resets that keep it for later searches (CnfManager.cpp:
\* learnClause; SatSolver.cpp: reset).
THEOREM LearntClausesFollow == Spec => []LearntFollows
<1>1. Inv => LearntFollows
  <2> SUFFICES ASSUME Inv, NEW i \in DOMAIN clauses, NEW m \in Remaining
               PROVE  \E l \in ToSet(clauses[i]) : l \in m
    BY DEF LearntFollows, Remaining
  <2>1. Holds(clauses[i], m)
    BY DEF Inv, ClausesOK, ClauseOK
  <2> QED
    BY <2>1 DEF Holds, ToSet
<1> QED
  BY <1>1, SolverInvariant, PTL

\* When the solver has no further answer to give, its answers cover every
\* model of the problem: nothing is lost by trimming, excluding, restarting or
\* being interrupted (Worker.cpp:101-112, 147-162).
THEOREM FinishedSearchesAreComplete == Spec => []FinishedIsComplete
<1>1. Inv => FinishedIsComplete
  BY DEF Inv, FinishedIsComplete, Remaining
<1> QED
  BY <1>1, SolverInvariant, PTL

\* A trimmed answer stands for all its extensions to the reported variables:
\* each belongs to a model, and no two answers have an extension in common
\* (SatSolver.cpp: verify_and_trim_Solution; Worker.cpp:147-162).
THEOREM AnswersAreCubes == Spec => []AnswersAreDisjointCubes
<1>1. Inv => AnswersAreDisjointCubes
  <2> SUFFICES ASSUME Inv PROVE AnswersAreDisjointCubes
    OBVIOUS
  <2>1. \A i \in DOMAIN answers : CubeOK(answers[i])
    BY DEF Inv, AnswersOK, AnswerOK
  <2>2. \A i, j \in DOMAIN answers : i < j => \E l \in ToSet(answers[i]) : -l \in ToSet(answers[j])
    BY DEF Inv, DisjointOK
  <2> QED
    BY <2>1, <2>2 DEF AnswersAreDisjointCubes, CubeOK
<1> QED
  BY <1>1, SolverInvariant, PTL

\* A problem without clauses of two literals is searched, as long as no run is
\* interrupted, without losing a variable: whatever the order in which literals
\* are scored and variables swapped, what the search passes is assigned, and
\* what it takes for a model is one (CnfManager.cpp: updateScores, backtrack,
\* selectLiteral; the exception of SatSolver.cpp:210 is not thrown).
THEOREM LongClausesAreSearched == Spec => []LongClausesFindModels
<1>1. Init => UninterruptedOK
  BY InitComplete DEF Init, UninterruptedOK
<1>2. Inv /\ UninterruptedOK /\ [Next]_vars => UninterruptedOK'
  <2> SUFFICES ASSUME Inv, pauses \in Nat, pauses = 0 /\ LongClauses => Complete, [Next]_vars
               PROVE  UninterruptedOK'
    BY DEF UninterruptedOK
  <2>1. cnf' = cnf /\ (LongClauses' <=> LongClauses)
    <3>1. cnf' = cnf
      BY DEF vars, problem, Next, Search, Rest, Propagate, Constructed, ConflictAtLevel1, LearnAndBacktrack, Run,
             Pause, Decide, Propagated, FoundModel, Ready
    <3> QED
      BY <3>1 DEF LongClauses
  <2>2. CASE Pause
    <3>1. pauses' = pauses + 1
      BY <2>2 DEF Pause
    <3> QED
      BY <3>1 DEF UninterruptedOK
  <2>3. CASE ~Pause
    <3>1. pauses' = pauses
      BY <2>3 DEF vars, Next, Search, Rest, Propagate, Constructed, ConflictAtLevel1, LearnAndBacktrack, Run,
                  Decide, Propagated, FoundModel, Ready
    <3> QED
      BY <2>1, <2>3, <3>1, StepComplete DEF UninterruptedOK
  <2> QED
    BY <2>2, <2>3
<1>3. UninterruptedOK => LongClausesFindModels
  BY DEF UninterruptedOK, Complete, LongClausesFindModels, NeverThrows
<1> QED
  BY <1>1, <1>2, <1>3, SolverInvariant, PTL DEF Spec
=============================================================================
