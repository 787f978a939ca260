------------------------------ MODULE DataLemmas ------------------------------
(***************************************************************************)
(* Facts about numbers, loops, sums and sequences that the proofs about    *)
(* several components need.  The library states some of them with          *)
(* operators as parameters; here sets and functions take their place.      *)
(***************************************************************************)
EXTENDS Integers, Sequences, FiniteSets, FiniteSetsExt, SequencesExt, Functions, Selection,
        FiniteSetTheorems, WellFoundedInduction, SequenceTheorems, TLAPS

\* Induction over the natural numbers, for the set of those of which a fact
\* holds.
LEMMA Induction ==
    ASSUME NEW S \in SUBSET Nat, 0 \in S, \A n \in S : n + 1 \in S
    PROVE  S = Nat
<1> DEFINE R == OpToRel(<, Nat)
           T == Nat \ S
<1>1. SUFFICES ASSUME T # {} PROVE FALSE
  OBVIOUS
<1>2. PICK j \in T : \A k \in T : <<k, j>> \notin R
  <2>1. IsWellFoundedOn(R, Nat)
    BY NatLessThanWellFounded
  <2>2. T \subseteq Nat
    OBVIOUS
  <2> HIDE DEF T, R
  <2> QED BY <1>1, <2>1, <2>2, WFMin
<1>3. \A k \in T : ~ (k < j)
  BY <1>2 DEF OpToRel
<1>4. j \in Nat /\ j # 0 /\ j \notin S
  OBVIOUS
<1>5. j - 1 \in Nat /\ j - 1 \in S
  BY <1>3, <1>4
<1> QED BY <1>4, <1>5

\* g has the values of a loop that makes N steps by F from s.
IsIteration(g, V, s, F, N) ==
    /\ g \in [0 .. N -> V]
    /\ g[0] = s
    /\ \A i \in 1 .. N : g[i] = F[<<g[i - 1], i>>]

\* N rounds of a function of the state and the round exist.
LEMMA Iteration ==
    ASSUME NEW V, NEW s \in V, NEW F \in [V \X Nat -> V], NEW N \in Nat
    PROVE  \E g : IsIteration(g, V, s, F, N)
<1> DEFINE Iterates(g, n) == g[0] = s /\ \A i \in 1 .. n : g[i] = F[<<g[i - 1], i>>]
           S == {n \in Nat : \E g \in [0 .. n -> V] : Iterates(g, n)}
<1>1. 0 \in S
  <2>1. [i \in 0 .. 0 |-> s] \in [0 .. 0 -> V] /\ Iterates([i \in 0 .. 0 |-> s], 0)
    OBVIOUS
  <2> HIDE DEF Iterates
  <2> QED BY <2>1
<1>2. ASSUME NEW n \in S PROVE n + 1 \in S
  <2>1. PICK g \in [0 .. n -> V] : Iterates(g, n)
    OBVIOUS
  <2> DEFINE h == [i \in 0 .. n + 1 |-> IF i = n + 1 THEN F[<<g[n], n + 1>>] ELSE g[i]]
  <2>2. F[<<g[n], n + 1>>] \in V
    OBVIOUS
  <2>3. h \in [0 .. n + 1 -> V]
    BY <2>2
  <2>4. ASSUME NEW i \in 1 .. n + 1 PROVE h[i] = F[<<h[i - 1], i>>]
    <3>1. CASE i = n + 1
      <4>1. n \in 0 .. n + 1 /\ n + 1 \in 0 .. n + 1 /\ n # n + 1 /\ i - 1 = n
        BY <3>1
      <4>2. h[n] = g[n] /\ h[n + 1] = F[<<g[n], n + 1>>]
        BY <4>1
      <4> HIDE DEF h
      <4> QED BY <3>1, <4>1, <4>2
    <3>2. CASE i # n + 1
      <4>1. /\ i \in 1 .. n /\ i \in 0 .. n + 1 /\ i - 1 \in 0 .. n + 1
            /\ i # n + 1 /\ i - 1 # n + 1
        BY <3>2
      <4>2. h[i] = g[i] /\ h[i - 1] = g[i - 1]
        BY <4>1
      <4> HIDE DEF h
      <4> QED BY <2>1, <4>1, <4>2
    <3> QED BY <3>1, <3>2
  <2>5. h[0] = s
    BY <2>1
  <2>6. Iterates(h, n + 1)
    BY <2>4, <2>5
  <2> HIDE DEF Iterates, h
  <2> QED BY <2>3, <2>6
<1>3. S \subseteq Nat
  OBVIOUS
<1>4. S = Nat
  <2> HIDE DEF S
  <2> QED BY <1>1, <1>2, <1>3, Induction
<1> QED BY <1>4 DEF IsIteration

-----------------------------------------------------------------------------
\* The smaller of two numbers (FiniteSetsExt).
LEMMA MinOfTwo ==
    ASSUME NEW a \in Int, NEW b \in Int
    PROVE  /\ Min({a, b}) \in {a, b}
           /\ Min({a, b}) <= a /\ Min({a, b}) <= b
<1>1. \E x \in {a, b} : \A y \in {a, b} : x <= y
  <2>1. CASE a <= b
    BY <2>1
  <2>2. CASE b <= a
    BY <2>2
  <2>3. QED
    BY <2>1, <2>2
<1>2. QED
  BY <1>1 DEF Min

\* The larger of two numbers.
LEMMA MaxOfTwo ==
    ASSUME NEW a \in Int, NEW b \in Int
    PROVE  /\ Max({a, b}) \in {a, b}
           /\ Max({a, b}) >= a /\ Max({a, b}) >= b
<1>1. \E x \in {a, b} : \A y \in {a, b} : x >= y
  <2>1. CASE a <= b
    BY <2>1
  <2>2. CASE b <= a
    BY <2>2
  <2>3. QED
    BY <2>1, <2>2
<1>2. QED
  BY <1>1 DEF Max

\* A set of natural numbers that is not empty has a least one.
LEMMA LeastElement ==
    ASSUME NEW S \in SUBSET Nat, S # {}
    PROVE  Min(S) \in S /\ \A y \in S : Min(S) <= y
<1> DEFINE R == OpToRel(<, Nat)
<1>1. PICK j \in S : \A k \in S : <<k, j>> \notin R
  <2>1. IsWellFoundedOn(R, Nat)
    BY NatLessThanWellFounded
  <2> HIDE DEF R
  <2> QED BY <2>1, WFMin
<1>2. \A k \in S : ~ (k < j)
  BY <1>1 DEF OpToRel
<1>3. \E x \in S : \A y \in S : x <= y
  BY <1>2
<1> QED BY <1>3 DEF Min

-----------------------------------------------------------------------------
\* RemoveAt closes the gap.
LEMMA RemoveAtElements ==
    ASSUME NEW S, NEW s \in Seq(S), NEW i \in 1 .. Len(s)
    PROVE  /\ RemoveAt(s, i) \in Seq(S)
           /\ Len(RemoveAt(s, i)) = Len(s) - 1
           /\ \A j \in 1 .. Len(s) - 1 :
                 RemoveAt(s, i)[j] = IF j < i THEN s[j] ELSE s[j + 1]
<1> DEFINE front == SubSeq(s, 1, i - 1)
           back  == SubSeq(s, i + 1, Len(s))
<1>1. /\ front \in Seq(S)
      /\ Len(front) = i - 1
      /\ \A j \in 1 .. i - 1 : front[j] = s[j]
  OBVIOUS
<1>2. /\ back \in Seq(S)
      /\ Len(back) = Len(s) - i
      /\ \A j \in 1 .. Len(s) - i : back[j] = s[i + j]
  OBVIOUS
<1>3. RemoveAt(s, i) = front \o back
  BY DEF RemoveAt
<1> HIDE DEF front, back
<1>4. /\ front \o back \in Seq(S)
      /\ Len(front \o back) = Len(front) + Len(back)
      /\ \A j \in 1 .. Len(front) + Len(back) :
            (front \o back)[j] = IF j <= Len(front) THEN front[j] ELSE back[j - Len(front)]
  BY <1>1, <1>2, ConcatProperties
<1>5. Len(s) \in Nat /\ i \in 1 .. Len(s)
  OBVIOUS
<1>6. ASSUME NEW j \in 1 .. Len(s) - 1
      PROVE  (front \o back)[j] = IF j < i THEN s[j] ELSE s[j + 1]
  <2>1. CASE j < i
    BY <1>1, <1>2, <1>4, <1>5, <2>1
  <2>2. CASE ~ (j < i)
    <3>1. j - (i - 1) \in 1 .. Len(s) - i
      BY <1>5, <2>2
    <3>2. back[j - (i - 1)] = s[i + (j - (i - 1))]
      BY <1>2, <3>1
    <3>3. i + (j - (i - 1)) = j + 1
      BY <1>5
    <3>4. (front \o back)[j] = back[j - (i - 1)]
      <4>1. j \in 1 .. Len(front) + Len(back) /\ ~ (j <= Len(front))
        BY <1>1, <1>2, <1>5, <2>2
      <4>2. j - Len(front) = j - (i - 1)
        BY <1>1
      <4> QED BY <1>4, <4>1, <4>2
    <3> QED BY <2>2, <3>2, <3>3, <3>4
  <2> QED BY <2>1, <2>2
<1> QED BY <1>1, <1>2, <1>3, <1>4, <1>5, <1>6

-----------------------------------------------------------------------------
\* r are the elements of s up to the n-th that are in keep; g says which.
Selects(g, s, n, keep, r) ==
    /\ g \in [1 .. Len(r) -> 1 .. n]
    /\ \A i \in 1 .. Len(r) : r[i] = s[g[i]] /\ r[i] \in keep
    /\ \A i, j \in 1 .. Len(r) : i < j => g[i] < g[j]
    /\ \A k \in 1 .. n : s[k] \in keep => \E i \in 1 .. Len(r) : g[i] = k

\* One more element that is kept, or is not.
LEMMA SelectsMore ==
    ASSUME NEW S, NEW s \in Seq(S), NEW keep, NEW n \in Nat, n + 1 \in 1 .. Len(s),
           NEW r \in Seq(S), NEW g, Selects(g, s, n, keep, r), s[n + 1] \in keep
    PROVE  \E h : Selects(h, s, n + 1, keep, Append(r, s[n + 1]))
<1> DEFINE m == Len(r)
           q == Append(r, s[n + 1])
           h == [i \in 1 .. m + 1 |-> IF i = m + 1 THEN n + 1 ELSE g[i]]
<1>1. /\ m \in Nat /\ q \in Seq(S) /\ Len(q) = m + 1 /\ q[m + 1] = s[n + 1]
      /\ \A i \in 1 .. m : q[i] = r[i]
  OBVIOUS
<1>2. /\ g \in [1 .. m -> 1 .. n] /\ \A i \in 1 .. m : r[i] = s[g[i]] /\ r[i] \in keep
      /\ \A i, j \in 1 .. m : i < j => g[i] < g[j]
      /\ \A k \in 1 .. n : s[k] \in keep => \E i \in 1 .. m : g[i] = k
  BY DEF Selects
<1> HIDE DEF m, q
<1>3. \A i \in 1 .. m : i \in 1 .. m + 1 /\ i # m + 1 /\ h[i] = g[i] /\ g[i] \in 1 .. n
  BY <1>1, <1>2
<1>4. m + 1 \in 1 .. m + 1 /\ h[m + 1] = n + 1
  BY <1>1
<1>5. h \in [1 .. m + 1 -> 1 .. n + 1]
  BY <1>1, <1>2
<1> HIDE DEF h
<1>6. \A i \in 1 .. m + 1 : i = m + 1 \/ i \in 1 .. m
  BY <1>1
<1>7. \A i \in 1 .. m + 1 : q[i] = s[h[i]] /\ q[i] \in keep
  BY <1>1, <1>2, <1>3, <1>4, <1>6
<1>8. ASSUME NEW i \in 1 .. m + 1, NEW j \in 1 .. m + 1, i < j PROVE h[i] < h[j]
  <2>1. i \in 1 .. m
    BY <1>1, <1>8
  <2>2. CASE j = m + 1
    BY <1>3, <1>4, <2>1, <2>2
  <2>3. CASE j # m + 1
    BY <1>2, <1>3, <1>6, <1>8, <2>1, <2>3
  <2> QED BY <2>2, <2>3
<1>9. ASSUME NEW k \in 1 .. n + 1, s[k] \in keep PROVE \E i \in 1 .. m + 1 : h[i] = k
  <2>1. CASE k = n + 1
    BY <1>4, <2>1
  <2>2. CASE k # n + 1
    <3>1. k \in 1 .. n
      BY <2>2
    <3> QED BY <1>2, <1>3, <1>9, <3>1
  <2> QED BY <2>1, <2>2
<1>10. Selects(h, s, n + 1, keep, q)
  BY <1>1, <1>5, <1>7, <1>8, <1>9 DEF Selects
<1> QED BY <1>10 DEF q

\* An element that is not kept leaves the selection as it is.
LEMMA SelectsNoMore ==
    ASSUME NEW s, NEW keep, NEW n \in Nat, NEW r, Len(r) \in Nat,
           NEW g, Selects(g, s, n, keep, r), s[n + 1] \notin keep
    PROVE  Selects(g, s, n + 1, keep, r)
<1>1. \A k \in 1 .. n + 1 : k = n + 1 \/ k \in 1 .. n
  OBVIOUS
<1>2. g \in [1 .. Len(r) -> 1 .. n + 1]
  BY DEF Selects
<1> QED BY <1>1, <1>2 DEF Selects

\* Kept keeps what it should, in order.
LEMMA KeptElements ==
    ASSUME NEW S, NEW s \in Seq(S), NEW keep
    PROVE  /\ Kept(s, keep) \in Seq(S)
           /\ \E g : Selects(g, s, Len(s), keep, Kept(s, keep))
<1> DEFINE N == Len(s)
           V == Seq(S)
           F == [v \in V \X Nat |->
                   IF v[2] \in 1 .. N /\ s[v[2]] \in keep THEN Append(v[1], s[v[2]]) ELSE v[1]]
           More(v, n) == IF s[n] \in keep THEN Append(v, s[n]) ELSE v
           K(f) == [n \in 0 .. N |-> IF n = 0 THEN << >> ELSE More(f[n - 1], n)]
           kept == CHOOSE f : f = K(f)
<1>1. Kept(s, keep) = kept[N]
  BY DEF Kept
<1>2. N \in Nat /\ << >> \in V
  OBVIOUS
<1>3. F \in [V \X Nat -> V]
  <2>1. ASSUME NEW v \in V \X Nat PROVE F[v] \in V
    <3>1. v[1] \in V /\ v[2] \in Nat
      OBVIOUS
    <3>2. v[2] \in 1 .. N => s[v[2]] \in S
      OBVIOUS
    <3>3. v[2] \in 1 .. N => Append(v[1], s[v[2]]) \in V
      BY <3>1, <3>2
    <3> QED BY <3>1, <3>3
  <2> QED BY <2>1
<1>4. PICK f : IsIteration(f, V, << >>, F, N)
  <2>1. \E f : IsIteration(f, V, << >>, F, N)
    <3> HIDE DEF V, N, F
    <3> QED BY <1>2, <1>3, Iteration
  <2> QED BY <2>1
<1>5. /\ f \in [0 .. N -> V] /\ f[0] = << >>
      /\ \A i \in 1 .. N : f[i] = IF s[i] \in keep THEN Append(f[i - 1], s[i]) ELSE f[i - 1]
  <2>1. f \in [0 .. N -> V] /\ f[0] = << >> /\ \A i \in 1 .. N : f[i] = F[<<f[i - 1], i>>]
    BY <1>4 DEF IsIteration
  <2>2. ASSUME NEW i \in 1 .. N
        PROVE  F[<<f[i - 1], i>>] = IF s[i] \in keep THEN Append(f[i - 1], s[i]) ELSE f[i - 1]
    <3>1. i - 1 \in 0 .. N /\ i \in Nat
      BY <1>2
    <3>2. <<f[i - 1], i>> \in V \X Nat
      BY <2>1, <3>1
    <3> QED BY <3>2
  <2> QED BY <2>1, <2>2
<1>6. f = K(f)
  <2>1. \A i \in 1 .. N : f[i] = More(f[i - 1], i)
    BY <1>5
  <2>2. f \in [0 .. N -> V] /\ f[0] = << >>
    BY <1>5
  <2> HIDE DEF More, V
  <2>3. ASSUME NEW i \in 0 .. N PROVE f[i] = IF i = 0 THEN << >> ELSE More(f[i - 1], i)
    <3>1. i = 0 \/ i \in 1 .. N
      BY <1>2
    <3> QED BY <2>1, <2>2, <3>1
  <2> QED BY <2>2, <2>3
<1>7. kept = K(kept)
  BY <1>6
<1> HIDE DEF kept, F
<1>8a. /\ DOMAIN kept = 0 .. N /\ kept[0] = << >>
       /\ \A i \in 1 .. N : kept[i] = More(kept[i - 1], i)
  <2> HIDE DEF More
  <2>1. DOMAIN kept = 0 .. N /\ \A i \in 0 .. N : kept[i] = IF i = 0 THEN << >> ELSE More(kept[i - 1], i)
    BY <1>7
  <2>2. 0 \in 0 .. N /\ \A i \in 1 .. N : i \in 0 .. N /\ i # 0
    BY <1>2
  <2> QED BY <2>1, <2>2
<1>8. /\ DOMAIN kept = 0 .. N /\ kept[0] = << >>
      /\ \A i \in 1 .. N : kept[i] = IF s[i] \in keep THEN Append(kept[i - 1], s[i])
                                     ELSE kept[i - 1]
  BY <1>8a
<1> DEFINE Good(n) == kept[n] \in V /\ \E g : Selects(g, s, n, keep, kept[n])
           T == {n \in Nat : n \in 0 .. N => Good(n)}
<1>9. 0 \in T
  <2>1. Selects([i \in 1 .. 0 |-> 0], s, 0, keep, << >>)
    BY DEF Selects
  <2> QED BY <1>2, <1>8, <2>1
<1>10. ASSUME NEW n \in T PROVE n + 1 \in T
  <2> SUFFICES ASSUME n + 1 \in 0 .. N PROVE Good(n + 1)
    OBVIOUS
  <2>1. n \in Nat /\ n \in 0 .. N /\ n + 1 \in 1 .. N /\ n + 1 - 1 = n
    BY <1>2
  <2>2. kept[n] \in V
    BY <2>1
  <2>3. PICK g : Selects(g, s, n, keep, kept[n])
    BY <2>1
  <2>4. kept[n + 1] = IF s[n + 1] \in keep THEN Append(kept[n], s[n + 1]) ELSE kept[n]
    <3>1. kept[n + 1] = IF s[n + 1] \in keep THEN Append(kept[n + 1 - 1], s[n + 1])
                        ELSE kept[n + 1 - 1]
      BY <1>8, <2>1
    <3> QED BY <2>1, <3>1
  <2>5. s[n + 1] \in S
    BY <2>1
  <2>6. CASE s[n + 1] \in keep
    <3>1. \E h : Selects(h, s, n + 1, keep, Append(kept[n], s[n + 1]))
      BY <2>1, <2>2, <2>3, <2>6, SelectsMore
    <3> QED BY <2>2, <2>4, <2>5, <2>6, <3>1
  <2>7. CASE s[n + 1] \notin keep
    <3>1. Len(kept[n]) \in Nat
      BY <2>2
    <3>2. Selects(g, s, n + 1, keep, kept[n])
      BY <2>1, <2>3, <2>7, <3>1, SelectsNoMore
    <3> QED BY <2>2, <2>4, <2>7, <3>2
  <2> QED BY <2>6, <2>7
<1>11. T \subseteq Nat
  OBVIOUS
<1>12. T = Nat
  <2> HIDE DEF T
  <2> QED BY <1>9, <1>10, <1>11, Induction
<1>13. N \in T /\ N \in 0 .. N
  BY <1>2, <1>12
<1> QED BY <1>1, <1>13

\* As a set.
LEMMA KeptRange ==
    ASSUME NEW S, NEW s \in Seq(S), NEW keep
    PROVE  Kept(s, keep) \in Seq(S) /\ Range(Kept(s, keep)) = Range(s) \cap keep
<1> DEFINE r == Kept(s, keep)
<1>1. r \in Seq(S) /\ \E g : Selects(g, s, Len(s), keep, r)
  BY KeptElements
<1> HIDE DEF r
<1>2. PICK g : Selects(g, s, Len(s), keep, r)
  BY <1>1
<1>3. /\ g \in [1 .. Len(r) -> 1 .. Len(s)]
      /\ \A i \in 1 .. Len(r) : r[i] = s[g[i]] /\ r[i] \in keep
      /\ \A k \in 1 .. Len(s) : s[k] \in keep => \E i \in 1 .. Len(r) : g[i] = k
  BY <1>2 DEF Selects
<1>4. DOMAIN s = 1 .. Len(s) /\ DOMAIN r = 1 .. Len(r)
  BY <1>1
<1>5. Range(r) \subseteq Range(s) \cap keep
  BY <1>3, <1>4 DEF Range
<1>6. Range(s) \cap keep \subseteq Range(r)
  <2> SUFFICES ASSUME NEW k \in 1 .. Len(s), s[k] \in keep PROVE s[k] \in Range(r)
    BY <1>4 DEF Range
  <2>1. PICK i \in 1 .. Len(r) : g[i] = k
    BY <1>3
  <2>2. r[i] = s[k]
    BY <1>3, <2>1
  <2> QED BY <1>4, <2>2 DEF Range
<1> QED BY <1>1, <1>5, <1>6 DEF r

-----------------------------------------------------------------------------
\* The sum of f over S, as the folds of the community modules compute it.
Total(f, S) == FoldFunctionOnSet(+, 0, f, S)

Picked(s) == CHOOSE x \in s : TRUE

IsSum(sum, f, S) ==
    sum = [s \in SUBSET S |-> IF s = {} THEN 0 ELSE f[Picked(s)] + sum[s \ {Picked(s)}]]

\* Induction over the subsets of a finite set: P holds of all if it holds of
\* the empty one and of each that it holds of without the element picked.
LEMMA SetInduction ==
    ASSUME NEW S, IsFiniteSet(S), NEW P \in SUBSET (SUBSET S), {} \in P,
           \A s \in SUBSET S : (s # {} /\ s \ {Picked(s)} \in P) => s \in P
    PROVE  \A s \in SUBSET S : s \in P
<1> DEFINE N == {n \in Nat : \A s \in SUBSET S : Cardinality(s) = n => s \in P}
<1>1. \A s \in SUBSET S : /\ IsFiniteSet(s)
                          /\ Cardinality(s) \in Nat
                          /\ Cardinality(s) = 0 <=> s = {}
  BY FS_Subset, FS_EmptySet, FS_CardinalityType
<1>2. 0 \in N
  BY <1>1
<1>3. ASSUME NEW n \in N PROVE n + 1 \in N
  <2> SUFFICES ASSUME NEW s \in SUBSET S, Cardinality(s) = n + 1 PROVE s \in P
    OBVIOUS
  <2>1. s # {} /\ IsFiniteSet(s)
    BY <1>1
  <2>2. Picked(s) \in s
    BY <2>1 DEF Picked
  <2>3. Cardinality(s \ {Picked(s)}) = n /\ s \ {Picked(s)} \in SUBSET S
    <3>1. Cardinality(s \ {Picked(s)}) = Cardinality(s) - 1
      BY <2>1, <2>2, FS_RemoveElement
    <3> QED BY <3>1
  <2>4. s \ {Picked(s)} \in P
    BY <2>3
  <2> QED BY <2>1, <2>4
<1>4. N = Nat
  <2>1. N \in SUBSET Nat
    OBVIOUS
  <2> HIDE DEF N
  <2> QED BY <1>2, <1>3, <2>1, Induction
<1> QED BY <1>1, <1>4

\* The sum is there: a function that is right for the subsets of at most n
\* elements is extended to those of n + 1.
LEMMA SumExists ==
    ASSUME NEW S, IsFiniteSet(S), NEW f, \A x \in S : f[x] \in Int
    PROVE  \E sum \in [SUBSET S -> Int] : IsSum(sum, f, S)
<1> DEFINE Right(sum, n) ==
             \A s \in SUBSET S : Cardinality(s) <= n =>
                sum[s] = IF s = {} THEN 0 ELSE f[Picked(s)] + sum[s \ {Picked(s)}]
           N == {n \in Nat : \E sum \in [SUBSET S -> Int] : Right(sum, n)}
<1>1. \A s \in SUBSET S : /\ IsFiniteSet(s)
                          /\ Cardinality(s) \in Nat
                          /\ Cardinality(s) = 0 <=> s = {}
                          /\ Cardinality(s) <= Cardinality(S)
  BY FS_Subset, FS_EmptySet, FS_CardinalityType
<1>2. \A s \in SUBSET S : s # {} => /\ Picked(s) \in s
                                    /\ s \ {Picked(s)} \in SUBSET S
                                    /\ Cardinality(s \ {Picked(s)}) = Cardinality(s) - 1
  <2> SUFFICES ASSUME NEW s \in SUBSET S, s # {}
               PROVE  /\ Picked(s) \in s
                      /\ s \ {Picked(s)} \in SUBSET S
                      /\ Cardinality(s \ {Picked(s)}) = Cardinality(s) - 1
    OBVIOUS
  <2>1. Picked(s) \in s
    BY DEF Picked
  <2> QED BY <1>1, <2>1, FS_RemoveElement
<1>3. 0 \in N
  <2> DEFINE zero == [s \in SUBSET S |-> 0]
  <2>1. Right(zero, 0) /\ zero \in [SUBSET S -> Int]
    BY <1>1
  <2> HIDE DEF Right, zero
  <2> QED BY <2>1
<1>4. ASSUME NEW n \in N PROVE n + 1 \in N
  <2>1. PICK sum \in [SUBSET S -> Int] : Right(sum, n)
    OBVIOUS
  <2> DEFINE more == [s \in SUBSET S |-> IF Cardinality(s) <= n THEN sum[s]
                                         ELSE f[Picked(s)] + sum[s \ {Picked(s)}]]
  <2>2. more \in [SUBSET S -> Int]
    <3>1. ASSUME NEW s \in SUBSET S, ~ Cardinality(s) <= n
          PROVE  f[Picked(s)] + sum[s \ {Picked(s)}] \in Int
      <4>1. s # {}
        BY <1>1, <3>1
      <4>2. Picked(s) \in S /\ s \ {Picked(s)} \in SUBSET S
        BY <1>2, <4>1
      <4>3. f[Picked(s)] \in Int /\ sum[s \ {Picked(s)}] \in Int
        BY <4>2
      <4> QED BY <4>3
    <3> QED BY <3>1
  <2>3. Right(more, n + 1)
    <3> SUFFICES ASSUME NEW s \in SUBSET S, Cardinality(s) <= n + 1
                 PROVE  more[s] = IF s = {} THEN 0 ELSE f[Picked(s)] + more[s \ {Picked(s)}]
      OBVIOUS
    <3>1. CASE s = {}
      <4>1. Cardinality(s) = 0 /\ 0 <= n
        BY <1>1, <3>1
      <4>2. more[s] = sum[s]
        BY <4>1
      <4> QED BY <2>1, <3>1, <4>1, <4>2
    <3>2. CASE s # {}
      <4> DEFINE r == s \ {Picked(s)}
      <4>1. r \in SUBSET S /\ Cardinality(r) <= n
        BY <1>1, <1>2, <3>2
      <4>2. more[r] = sum[r]
        BY <4>1
      <4>3. more[s] = f[Picked(s)] + sum[r]
        BY <2>1, <3>2
      <4> HIDE DEF r, more
      <4> QED BY <3>2, <4>2, <4>3 DEF r
    <3> QED BY <3>1, <3>2
  <2>4. n + 1 \in Nat
    OBVIOUS
  <2> HIDE DEF Right, more
  <2> QED BY <2>2, <2>3, <2>4
<1>5. N = Nat
  <2>1. N \in SUBSET Nat
    OBVIOUS
  <2> HIDE DEF N
  <2> QED BY <1>3, <1>4, <2>1, Induction
<1>6. Cardinality(S) \in Nat
  BY FS_CardinalityType
<1>7. PICK sum \in [SUBSET S -> Int] : Right(sum, Cardinality(S))
  BY <1>5, <1>6
<1>8. \A s \in SUBSET S :
         sum[s] = IF s = {} THEN 0 ELSE f[Picked(s)] + sum[s \ {Picked(s)}]
  BY <1>1, <1>7
<1>9. IsSum(sum, f, S)
  <2>1. sum = [s \in SUBSET S |-> sum[s]]
    OBVIOUS
  <2> QED BY <1>8, <2>1 DEF IsSum
<1> QED BY <1>9

\* g is f but for d more at t.
Differ(f, g, t, d, S) == \A x \in S : f[x] \in Int /\ g[x] = f[x] + (IF x = t THEN d ELSE 0)

\* Where g is f but for d more at t, the sums of g are those of f but for d
\* more where t is summed.
LEMMA SumsDiffer ==
    ASSUME NEW S, IsFiniteSet(S), NEW f, NEW g, NEW t, NEW d \in Int,
           Differ(f, g, t, d, S),
           NEW a, IsSum(a, f, S), NEW b, IsSum(b, g, S)
    PROVE  \A s \in SUBSET S : a[s] \in Int /\ b[s] = a[s] + (IF t \in s THEN d ELSE 0)
<1> DEFINE P == {s \in SUBSET S : a[s] \in Int /\ b[s] = a[s] + (IF t \in s THEN d ELSE 0)}
<1>1. \A s \in SUBSET S :
         /\ a[s] = IF s = {} THEN 0 ELSE f[Picked(s)] + a[s \ {Picked(s)}]
         /\ b[s] = IF s = {} THEN 0 ELSE g[Picked(s)] + b[s \ {Picked(s)}]
  <2>1. a = [s \in SUBSET S |-> IF s = {} THEN 0 ELSE f[Picked(s)] + a[s \ {Picked(s)}]]
    BY DEF IsSum
  <2>2. b = [s \in SUBSET S |-> IF s = {} THEN 0 ELSE g[Picked(s)] + b[s \ {Picked(s)}]]
    BY DEF IsSum
  <2> SUFFICES ASSUME NEW s \in SUBSET S
               PROVE  /\ a[s] = IF s = {} THEN 0 ELSE f[Picked(s)] + a[s \ {Picked(s)}]
                      /\ b[s] = IF s = {} THEN 0 ELSE g[Picked(s)] + b[s \ {Picked(s)}]
    OBVIOUS
  <2>3. a[s] = IF s = {} THEN 0 ELSE f[Picked(s)] + a[s \ {Picked(s)}]
    BY <2>1
  <2>4. b[s] = IF s = {} THEN 0 ELSE g[Picked(s)] + b[s \ {Picked(s)}]
    BY <2>2
  <2> QED BY <2>3, <2>4
<1>2. {} \in P
  <2>1. {} \in SUBSET S
    OBVIOUS
  <2>2. a[{}] = 0 /\ b[{}] = 0
    BY <1>1, <2>1
  <2> QED BY <2>1, <2>2
<1>3. ASSUME NEW s \in SUBSET S, s # {}, s \ {Picked(s)} \in P
      PROVE  s \in P
  <2> DEFINE x == Picked(s)
             r == s \ {x}
  <2>1. x \in s /\ x \in S
    BY <1>3 DEF Picked
  <2>2. a[r] \in Int /\ b[r] = a[r] + (IF t \in r THEN d ELSE 0)
    BY <1>3
  <2>3. a[s] = f[x] + a[r] /\ b[s] = g[x] + b[r]
    BY <1>1, <1>3
  <2>4. f[x] \in Int /\ g[x] = f[x] + (IF x = t THEN d ELSE 0)
    BY <2>1 DEF Differ
  <2>5. t \in s <=> (t = x \/ t \in r)
    BY <2>1
  <2>6. t = x => t \notin r
    OBVIOUS
  <2> HIDE DEF x, r
  <2>7. a[s] \in Int /\ b[s] = a[s] + (IF t \in s THEN d ELSE 0)
    BY <2>2, <2>3, <2>4, <2>5, <2>6
  <2> QED BY <2>7
<1>4. P \in SUBSET (SUBSET S)
  OBVIOUS
<1>5. \A s \in SUBSET S : s \in P
  <2> HIDE DEF P
  <2> QED BY <1>2, <1>3, <1>4, SetInduction
<1> QED BY <1>5

\* So the fold is it.
LEMMA FoldIsSum ==
    ASSUME NEW S, IsFiniteSet(S), NEW f, \A x \in S : f[x] \in Int
    PROVE  \E sum \in [SUBSET S -> Int] :
              IsSum(sum, f, S) /\ Total(f, S) = sum[S]
<1> DEFINE sum == CHOOSE it : IsSum(it, f, S)
<1>1. PICK it \in [SUBSET S -> Int] : IsSum(it, f, S)
  BY SumExists
<1>2. IsSum(sum, f, S)
  BY <1>1
<1>3. Total(f, S) = sum[S]
  BY DEF Total, FoldFunctionOnSet, MapThenFoldSet, IsSum, Picked
<1> HIDE DEF sum
<1>4. sum = [s \in SUBSET S |-> IF s = {} THEN 0 ELSE f[Picked(s)] + sum[s \ {Picked(s)}]]
  BY <1>2 DEF IsSum
<1>5. sum \in [SUBSET S -> Int]
  <2>1. \A s \in SUBSET S : sum[s] \in Int
    <3>1. Differ(f, f, S, 0, S)
      BY DEF Differ
    <3> QED BY <1>2, <3>1, SumsDiffer
  <2> QED BY <1>4, <2>1, Zenon
<1> QED BY <1>2, <1>3, <1>5

\* What changes a summand changes the sum.
LEMMA SumChanges ==
    ASSUME NEW S, IsFiniteSet(S), NEW f, NEW g, NEW t \in S, NEW d \in Int,
           Differ(f, g, t, d, S)
    PROVE  /\ Total(f, S) \in Int
           /\ Total(g, S) = Total(f, S) + d
<1>1. \A x \in S : f[x] \in Int /\ g[x] \in Int
  BY DEF Differ
<1>2. PICK a \in [SUBSET S -> Int] : IsSum(a, f, S) /\ Total(f, S) = a[S]
  BY <1>1, FoldIsSum
<1>3. PICK b \in [SUBSET S -> Int] : IsSum(b, g, S) /\ Total(g, S) = b[S]
  BY <1>1, FoldIsSum
<1>4. \A s \in SUBSET S : a[s] \in Int /\ b[s] = a[s] + (IF t \in s THEN d ELSE 0)
  BY <1>2, <1>3, SumsDiffer
<1>5. a[S] \in Int /\ b[S] = a[S] + (IF t \in S THEN d ELSE 0)
  BY <1>4, Zenon
<1> QED BY <1>2, <1>3, <1>5

\* The same summands, the same sum.
LEMMA SumStays ==
    ASSUME NEW S, IsFiniteSet(S), NEW f, NEW g, \A x \in S : f[x] \in Int /\ g[x] = f[x]
    PROVE  Total(g, S) = Total(f, S)
<1>1. Differ(f, g, S, 0, S) /\ \A x \in S : g[x] \in Int
  BY DEF Differ
<1>2. PICK a \in [SUBSET S -> Int] : IsSum(a, f, S) /\ Total(f, S) = a[S]
  BY FoldIsSum
<1>3. PICK b \in [SUBSET S -> Int] : IsSum(b, g, S) /\ Total(g, S) = b[S]
  BY <1>1, FoldIsSum
<1>4. \A s \in SUBSET S : a[s] \in Int /\ b[s] = a[s] + (IF S \in s THEN 0 ELSE 0)
  <2>1. 0 \in Int
    OBVIOUS
  <2> QED BY <1>1, <1>2, <1>3, <2>1, SumsDiffer
<1>5. a[S] \in Int /\ b[S] = a[S]
  BY <1>4
<1> QED BY <1>2, <1>3, <1>5

\* Nothing adds up to nothing.
LEMMA SumOfZeros ==
    ASSUME NEW S, IsFiniteSet(S), NEW f, \A x \in S : f[x] = 0
    PROVE  Total(f, S) = 0
<1>0. \A x \in S : f[x] \in Int
  OBVIOUS
<1>1. PICK a \in [SUBSET S -> Int] : IsSum(a, f, S) /\ Total(f, S) = a[S]
  BY <1>0, FoldIsSum
<1> DEFINE P == {s \in SUBSET S : a[s] = 0}
<1>2. a = [s \in SUBSET S |-> IF s = {} THEN 0 ELSE f[Picked(s)] + a[s \ {Picked(s)}]]
  BY <1>1 DEF IsSum
<1>3. {} \in P
  BY <1>2
<1>4. ASSUME NEW s \in SUBSET S, s # {}, s \ {Picked(s)} \in P PROVE s \in P
  <2>1. Picked(s) \in S
    BY <1>4 DEF Picked
  <2>2. a[s] = f[Picked(s)] + a[s \ {Picked(s)}]
    BY <1>2, <1>4
  <2> QED BY <1>4, <2>1, <2>2
<1>5. P \in SUBSET (SUBSET S)
  OBVIOUS
<1>6. \A s \in SUBSET S : s \in P
  <2> HIDE DEF P
  <2> QED BY <1>3, <1>4, <1>5, SetInduction
<1> QED BY <1>1, <1>6

-----------------------------------------------------------------------------
(***************************************************************************)
(* FoldLeft is a recursion over sets of indices that takes the largest     *)
(* first.                                                                  *)
(***************************************************************************)

\* The values of that recursion: G adds what is at an index.
FoldsBy(it, V, b, G, N) ==
    /\ it \in [SUBSET (1 .. N) -> V]
    /\ \A T \in SUBSET (1 .. N) :
          it[T] = IF T = {} THEN b ELSE G[<<it[T \ {Max(T)}], Max(T)>>]

\* The largest of a set is the one that is.
LEMMA LargestIsMax ==
    ASSUME NEW T \in SUBSET Int, NEW n \in T, \A x \in T : x <= n
    PROVE  Max(T) = n
<1>1. \A y \in T : n >= y
  OBVIOUS
<1> DEFINE m == Max(T)
<1>2. m \in T /\ \A y \in T : m >= y
  BY <1>1 DEF Max
<1> HIDE DEF m
<1>3. m \in Int /\ n \in Int /\ m >= n /\ m <= n
  BY <1>2
<1>4. m = n
  BY <1>3
<1> QED BY <1>4 DEF m

\* A set of indices that is not empty has a largest.
LEMMA LargestOf ==
    ASSUME NEW N \in Nat, NEW T \in SUBSET (1 .. N), T # {}
    PROVE  Max(T) \in T
<1> DEFINE S == {y \in Nat : \E x \in T : y = N - x}
<1>0. \A x \in T : x \in Int /\ N - x \in S
  OBVIOUS
<1>1. S \in SUBSET Nat /\ S # {}
  BY <1>0
<1>a. Min(S) \in S
  <2> HIDE DEF S
  <2> QED BY <1>1, LeastElement
<1>2. PICK n \in T : N - n = Min(S)
  BY <1>a
<1>3. \A x \in T : Min(S) <= N - x
  <2> HIDE DEF S
  <2> QED BY <1>0, <1>1, LeastElement
<1> HIDE DEF S
<1>4. \A x \in T : x <= n
  BY <1>0, <1>2, <1>3
<1>5. T \in SUBSET Int
  OBVIOUS
<1> QED BY <1>4, <1>5, LargestIsMax

\* The recursion over the indices of any list exists.
LEMMA FoldExists ==
    ASSUME NEW V, NEW b \in V, NEW G \in [V \X Nat -> V], NEW N \in Nat
    PROVE  \E it : FoldsBy(it, V, b, G, N)
<1> DEFINE S == {n \in Nat : \E it : FoldsBy(it, V, b, G, n)}
<1>1. 0 \in S
  <2> DEFINE it == [T \in SUBSET (1 .. 0) |-> b]
  <2>1. FoldsBy(it, V, b, G, 0)
    <3>1. 1 .. 0 = {}
      OBVIOUS
    <3> QED BY <3>1 DEF FoldsBy
  <2> QED BY <2>1
<1>2. ASSUME NEW n \in S PROVE n + 1 \in S
  <2>1. PICK it : FoldsBy(it, V, b, G, n)
    OBVIOUS
  <2> DEFINE more == [T \in SUBSET (1 .. n + 1) |->
                        IF n + 1 \in T THEN G[<<it[T \ {n + 1}], n + 1>>] ELSE it[T]]
  <2>2. \A T \in SUBSET (1 .. n + 1) :
           /\ T \ {n + 1} \in SUBSET (1 .. n)
           /\ n + 1 \notin T => T \in SUBSET (1 .. n)
           /\ T \ {n + 1} \in SUBSET (1 .. n + 1) /\ n + 1 \notin (T \ {n + 1})
    OBVIOUS
  <2>3. it \in [SUBSET (1 .. n) -> V]
    BY <2>1 DEF FoldsBy
  <2>4. more \in [SUBSET (1 .. n + 1) -> V]
    <3>1. ASSUME NEW T \in SUBSET (1 .. n + 1)
          PROVE  (IF n + 1 \in T THEN G[<<it[T \ {n + 1}], n + 1>>] ELSE it[T]) \in V
      <4>1. it[T \ {n + 1}] \in V /\ (n + 1 \notin T => it[T] \in V)
        BY <2>2, <2>3
      <4>2. <<it[T \ {n + 1}], n + 1>> \in V \X Nat
        BY <4>1
      <4>3. G[<<it[T \ {n + 1}], n + 1>>] \in V
        BY <4>2
      <4> QED BY <4>1, <4>3
    <3> QED BY <3>1
  <2>5. ASSUME NEW T \in SUBSET (1 .. n + 1)
        PROVE  more[T] = IF T = {} THEN b ELSE G[<<more[T \ {Max(T)}], Max(T)>>]
    <3>1. CASE n + 1 \in T
      <4>1. Max(T) = n + 1
        <5>1. T \in SUBSET Int /\ \A x \in T : x <= n + 1
          OBVIOUS
        <5> QED BY <3>1, <5>1, LargestIsMax
      <4>2. more[T \ {n + 1}] = it[T \ {n + 1}] /\ more[T] = G[<<it[T \ {n + 1}], n + 1>>]
        BY <2>2, <3>1
      <4> HIDE DEF more
      <4> QED BY <3>1, <4>1, <4>2
    <3>2. CASE n + 1 \notin T
      <4>1. T \in SUBSET (1 .. n)
        BY <2>2, <3>2
      <4>2. it[T] = IF T = {} THEN b ELSE G[<<it[T \ {Max(T)}], Max(T)>>]
        BY <2>1, <4>1 DEF FoldsBy
      <4>3. T \ {Max(T)} \in SUBSET (1 .. n + 1) /\ n + 1 \notin (T \ {Max(T)})
        BY <3>2
      <4>4. more[T] = it[T] /\ more[T \ {Max(T)}] = it[T \ {Max(T)}]
        BY <3>2, <4>3
      <4> HIDE DEF more
      <4> QED BY <4>2, <4>4
    <3> QED BY <3>1, <3>2
  <2> HIDE DEF more
  <2>6. FoldsBy(more, V, b, G, n + 1)
    BY <2>4, <2>5 DEF FoldsBy
  <2> QED BY <2>6
<1>3. S = Nat
  <2>1. S \in SUBSET Nat
    OBVIOUS
  <2> HIDE DEF S
  <2> QED BY <1>1, <1>2, <2>1, Induction
<1> QED BY <1>3
=============================================================================
