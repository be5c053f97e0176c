------------------------------ MODULE PlanProofs ------------------------------
(***************************************************************************)
(* Proofs about the plan of RecordParts, for any tasks, commitments,       *)
(* classes, hours and moments.  Scheduling goes from one task to the next  *)
(* and within a task from one session to the next; what every step leaves  *)
(* laid out (Laid, Accounted) is what the plan is told to be at the end.   *)
(***************************************************************************)
EXTENDS RecordProofs

LEMMA Division ==
  ASSUME NEW a \in Int, NEW d \in Nat \ {0}
  PROVE  /\ a \div d \in Int /\ a % d \in Int
         /\ a = d * (a \div d) + (a % d) /\ 0 <= a % d /\ a % d < d
  OBVIOUS

LEMMA RoundUpIs ==
  ASSUME NEW t \in Nat
  PROVE  Plan!RoundUp(t) \in Nat /\ t <= Plan!RoundUp(t) /\ Plan!RoundUp(t) <= t + Granule - 1
<1> DEFINE n == t + Granule - 1
<1>1. n \in Nat /\ Granule \in Nat \ {0}
  BY PlanAssumption
<1> HIDE DEF n
<1>2. /\ n \div Granule \in Int /\ n % Granule \in Int
      /\ n = Granule * (n \div Granule) + (n % Granule) /\ 0 <= n % Granule /\ n % Granule < Granule
  BY <1>1, Division
<1>3. Plan!RoundUp(t) = Granule * (n \div Granule)
  BY DEF Plan!RoundUp, n
<1>4. Granule * (n \div Granule) \in Int
  BY <1>1, <1>2
<1> QED
  BY <1>1, <1>2, <1>3, <1>4 DEF n

\* Of finitely many things that have numbers, one has the least.
LEMMA Least ==
  ASSUME NEW S, IsFiniteSet(S), S # {}, NEW f, \A x \in S : f[x] \in Int
  PROVE  \E m \in S : \A x \in S : f[m] <= f[x]
<1> DEFINE Has(T) == \E m \in T : \A x \in T : f[m] <= f[x]
           K == {k \in 0 .. Cardinality(S) : \A T \in SUBSET S : T # {} /\ Cardinality(T) = k => Has(T)}
<1>1. Cardinality(S) \in Nat
  BY FS_CardinalityType
<1>2. \A T \in SUBSET S : IsFiniteSet(T) /\ Cardinality(T) \in Nat
  BY FS_Subset, FS_CardinalityType
<1>3. 0 \in K
  BY <1>1, <1>2, FS_EmptySet
<1>4. ASSUME NEW k \in 1 .. Cardinality(S), k - 1 \in K PROVE k \in K
  <2> SUFFICES ASSUME NEW T \in SUBSET S, T # {}, Cardinality(T) = k PROVE Has(T)
    BY <1>1
  <2>1. PICK y \in T : TRUE
    OBVIOUS
  <2>2. T \ {y} \in SUBSET S /\ Cardinality(T \ {y}) = k - 1
    BY <1>1, <1>2, FS_RemoveElement
  <2>3. CASE T \ {y} = {}
    <3>1. \A x \in T : x = y
      BY <2>3
    <3> QED
      BY <2>1, <3>1
  <2>4. CASE T \ {y} # {}
    <3>1. PICK m \in T \ {y} : \A x \in T \ {y} : f[m] <= f[x]
      BY <1>4, <2>2, <2>4
    <3>2. CASE f[m] <= f[y]
      BY <3>1, <3>2
    <3>3. CASE ~(f[m] <= f[y])
      <4>1. \A x \in T \ {y} : f[y] <= f[x]
        BY <3>1, <3>3
      <4> QED
        BY <2>1, <4>1
    <3> QED
      BY <3>2, <3>3
  <2> QED
    BY <2>3, <2>4
<1> HIDE DEF K
<1>5. Cardinality(S) \in K
  BY <1>1, <1>3, <1>4, CountUp
<1> QED
  BY <1>5 DEF K

LEMMA MinIs ==
  ASSUME NEW S \in SUBSET Int, IsFiniteSet(S), S # {}
  PROVE  Plan!Min(S) \in S /\ \A x \in S : Plan!Min(S) <= x
<1> DEFINE f == [x \in S |-> x]
<1>1. \E m \in S : \A x \in S : f[m] <= f[x]
  <2>1. \A x \in S : f[x] \in Int
    OBVIOUS
  <2> HIDE DEF f
  <2> QED
    BY <2>1, Least
<1>2. \E m \in S : \A x \in S : m <= x
  BY <1>1
<1> QED
  BY <1>2 DEF Plan!Min

LEMMA MaxIs ==
  ASSUME NEW S \in SUBSET Int, IsFiniteSet(S), S # {}
  PROVE  Plan!Max(S) \in S /\ \A x \in S : Plan!Max(S) >= x
<1> DEFINE f == [x \in S |-> -x]
<1>1. \E m \in S : \A x \in S : f[m] <= f[x]
  <2>1. \A x \in S : f[x] \in Int
    OBVIOUS
  <2> HIDE DEF f
  <2> QED
    BY <2>1, Least
<1>2. \E m \in S : \A x \in S : m >= x
  <2>1. PICK m \in S : \A x \in S : f[m] <= f[x]
    BY <1>1
  <2>2. \A x \in S : f[x] = -x
    OBVIOUS
  <2> HIDE DEF f
  <2> QED
    BY <2>1, <2>2
<1> QED
  BY <1>2 DEF Plan!Max

LEMMA MinOfTwo ==
  ASSUME NEW a \in Int, NEW b \in Int
  PROVE  Plan!Min({a, b}) = IF a <= b THEN a ELSE b
<1>1. \E m \in {a, b} : \A x \in {a, b} : m <= x
  OBVIOUS
<1>2. Plan!Min({a, b}) \in {a, b} /\ \A x \in {a, b} : Plan!Min({a, b}) <= x
  BY <1>1 DEF Plan!Min
<1> QED
  BY <1>2

-----------------------------------------------------------------------------
(* Sums over finite sets *)

\* g sums w over every subset of S, taking one element after the other.
IsSum(g, w, S) ==
  g = [s \in SUBSET S |-> IF s = {} THEN 0
                          ELSE w[CHOOSE x \in s : TRUE] + g[s \ {CHOOSE x \in s : TRUE}]]

Total(w, S) == (CHOOSE g : IsSum(g, w, S))[S]

LEMMA SumExists ==
  ASSUME NEW S, IsFiniteSet(S), NEW w
  PROVE  \E g : IsSum(g, w, S)
<1> DEFINE L(k) == {s \in SUBSET S : Cardinality(s) <= k}
           One(g, s) == IF s = {} THEN 0 ELSE w[CHOOSE x \in s : TRUE] + g[s \ {CHOOSE x \in s : TRUE}]
           K == {k \in 0 .. Cardinality(S) : \E g : \A s \in L(k) : g[s] = One(g, s)}
<1>1. Cardinality(S) \in Nat
  BY FS_CardinalityType
<1>2. \A T \in SUBSET S : IsFiniteSet(T) /\ Cardinality(T) \in Nat
  BY FS_Subset, FS_CardinalityType
<1>3. 0 \in K
  <2> DEFINE g == [s \in SUBSET S |-> 0]
  <2>1. \A s \in L(0) : s = {}
    BY <1>2, FS_EmptySet
  <2>2. \A s \in L(0) : g[s] = One(g, s)
    BY <2>1
  <2> HIDE DEF g, One, L
  <2> QED
    BY <1>1, <2>2
<1>4. ASSUME NEW k \in 1 .. Cardinality(S), k - 1 \in K PROVE k \in K
  <2>1. PICK g : \A s \in L(k - 1) : g[s] = One(g, s)
    BY <1>4
  <2> DEFINE h == [s \in SUBSET S |-> IF Cardinality(s) = k THEN One(g, s) ELSE g[s]]
  <2>2. ASSUME NEW s \in L(k) PROVE h[s] = One(h, s)
    <3>1. CASE s = {}
      <4>1. Cardinality(s) = 0 /\ s \in L(k - 1)
        BY <3>1, FS_EmptySet
      <4>2. g[s] = 0
        BY <2>1, <3>1, <4>1
      <4>3. h[s] = g[s]
        BY <4>1
      <4> HIDE DEF h
      <4> QED
        BY <3>1, <4>2, <4>3
    <3>2. CASE s # {}
      <4> DEFINE y == CHOOSE x \in s : TRUE
      <4>1. y \in s
        BY <3>2
      <4>2. s \ {y} \in SUBSET S /\ Cardinality(s \ {y}) = Cardinality(s) - 1
        BY <1>2, <4>1, FS_RemoveElement
      <4>3. Cardinality(s \ {y}) # k /\ Cardinality(s) \in Nat /\ Cardinality(s) <= k
        BY <1>2, <4>2
      <4>4. h[s \ {y}] = g[s \ {y}]
        BY <4>2, <4>3
      <4>5. CASE Cardinality(s) = k
        <5>1. h[s] = w[y] + g[s \ {y}]
          BY <3>2, <4>5
        <5> HIDE DEF h, y
        <5> QED
          BY <3>2, <4>4, <5>1 DEF y
      <4>6. CASE Cardinality(s) # k
        <5>1. s \in L(k - 1)
          BY <1>1, <4>3, <4>6
        <5>2. h[s] = g[s]
          BY <4>6
        <5>3. g[s] = w[y] + g[s \ {y}]
          BY <2>1, <3>2, <5>1
        <5> HIDE DEF h, y
        <5> QED
          BY <3>2, <4>4, <5>2, <5>3 DEF y
      <4> QED
        BY <4>5, <4>6
    <3> QED
      BY <3>1, <3>2
  <2> HIDE DEF h, One, L
  <2> QED
    BY <1>1, <2>2
<1> HIDE DEF K
<1>5. Cardinality(S) \in K
  BY <1>1, <1>3, <1>4, CountUp
<1>6. \A s \in SUBSET S : Cardinality(s) <= Cardinality(S)
  BY FS_Subset
<1>7. PICK g : \A s \in SUBSET S : g[s] = One(g, s)
  BY <1>5, <1>6 DEF K
<1> DEFINE h == [s \in SUBSET S |-> g[s]]
<1>8. \A s \in SUBSET S : h[s] = One(h, s)
  BY <1>7
<1>9. h = [s \in SUBSET S |-> One(h, s)]
  <2>1. h = [s \in SUBSET S |-> h[s]]
    OBVIOUS
  <2> HIDE DEF h, One
  <2> QED
    BY <1>8, <2>1
<1>10. IsSum(h, w, S)
  BY <1>9 DEF IsSum
<1> QED
  BY <1>10

\* Any element may be taken first.
LEMMA SumTakes ==
  ASSUME NEW S, IsFiniteSet(S), NEW w, \A x \in S : w[x] \in Int, NEW g, IsSum(g, w, S)
  PROVE  /\ g[{}] = 0
         /\ \A s \in SUBSET S : g[s] \in Int /\ \A x \in s : g[s] = w[x] + g[s \ {x}]
<1> DEFINE Right(s) == g[s] \in Int /\ \A x \in s : g[s] = w[x] + g[s \ {x}]
           K == {k \in 0 .. Cardinality(S) : \A s \in SUBSET S : Cardinality(s) <= k => Right(s)}
<1>0. \A s \in SUBSET S : g[s] = IF s = {} THEN 0 ELSE w[CHOOSE x \in s : TRUE] + g[s \ {CHOOSE x \in s : TRUE}]
  BY DEF IsSum
<1>1. g[{}] = 0
  BY <1>0
<1>2. Cardinality(S) \in Nat
  BY FS_CardinalityType
<1>3. \A T \in SUBSET S : IsFiniteSet(T) /\ Cardinality(T) \in Nat /\ Cardinality(T) <= Cardinality(S)
  BY FS_Subset, FS_CardinalityType
<1>4. 0 \in K
  BY <1>1, <1>2, <1>3, FS_EmptySet
<1>5. ASSUME NEW k \in 1 .. Cardinality(S), k - 1 \in K PROVE k \in K
  <2>0. Right({})
    BY <1>1
  <2> HIDE DEF Right
  <2> SUFFICES ASSUME NEW s \in SUBSET S, Cardinality(s) <= k, s # {} PROVE Right(s)
    BY <1>2, <2>0
  <2> USE DEF Right
  <2> DEFINE y == CHOOSE x \in s : TRUE
  <2>1. y \in s /\ g[s] = w[y] + g[s \ {y}]
    BY <1>0
  <2> HIDE DEF y
  <2>2. \A x \in s : s \ {x} \in SUBSET S /\ Cardinality(s \ {x}) <= k - 1
    BY <1>2, <1>3, FS_RemoveElement
  <2>3. \A x \in s : Right(s \ {x})
    BY <1>5, <2>2
  <2>4. g[s] \in Int
    <3>1. w[y] \in Int /\ g[s \ {y}] \in Int
      BY <2>1, <2>3
    <3> QED
      BY <2>1, <3>1
  <2>5. ASSUME NEW x \in s, x # y PROVE g[s] = w[x] + g[s \ {x}]
    <3>1. g[s \ {y}] = w[x] + g[(s \ {y}) \ {x}]
      BY <2>1, <2>3, <2>5
    <3>2. g[s \ {x}] = w[y] + g[(s \ {x}) \ {y}]
      BY <2>1, <2>3, <2>5
    <3>3. (s \ {y}) \ {x} = (s \ {x}) \ {y}
      OBVIOUS
    <3>4. g[(s \ {x}) \ {y}] \in Int
      <4>1. (s \ {x}) \ {y} \in SUBSET S /\ Cardinality((s \ {x}) \ {y}) <= k - 1
        <5>1. IsFiniteSet(s \ {x}) /\ (s \ {x}) \ {y} \subseteq s \ {x}
          BY <1>3
        <5>2. Cardinality((s \ {x}) \ {y}) <= Cardinality(s \ {x})
          BY <5>1, FS_Subset
        <5>3. Cardinality((s \ {x}) \ {y}) \in Nat /\ Cardinality(s \ {x}) \in Nat
          BY <1>3
        <5> QED
          BY <1>2, <2>2, <5>2, <5>3
      <4> QED
        BY <1>5, <4>1
    <3>5. w[x] \in Int /\ w[y] \in Int
      BY <2>1
    <3>6. g[s \ {y}] = w[x] + g[(s \ {x}) \ {y}]
      BY <3>1, <3>3
    <3>7. PICK rest : rest = g[(s \ {x}) \ {y}]
      OBVIOUS
    <3>8. g[s] = w[y] + (w[x] + rest) /\ g[s \ {x}] = w[y] + rest /\ rest \in Int
      BY <2>1, <3>2, <3>4, <3>6, <3>7
    <3> QED
      BY <3>5, <3>8
  <2> QED
    BY <2>1, <2>4, <2>5
<1> HIDE DEF K
<1>6. Cardinality(S) \in K
  BY <1>2, <1>4, <1>5, CountUp
<1> QED
  BY <1>1, <1>3, <1>6 DEF K

\* Two functions that sum the same numbers agree.
SameNumbers(w, v, T) == \A x \in T : w[x] = v[x]

LEMMA SumIsOne ==
  ASSUME NEW S, IsFiniteSet(S), NEW T \in SUBSET S, NEW w, NEW v, SameNumbers(w, v, T),
         NEW g, IsSum(g, w, S), NEW h, IsSum(h, v, T)
  PROVE  g[T] = h[T]
<1> DEFINE K == {k \in 0 .. Cardinality(T) : \A s \in SUBSET T : Cardinality(s) <= k => g[s] = h[s]}
<1>0. /\ \A s \in SUBSET T : g[s] = IF s = {} THEN 0 ELSE w[CHOOSE x \in s : TRUE] + g[s \ {CHOOSE x \in s : TRUE}]
      /\ \A s \in SUBSET T : h[s] = IF s = {} THEN 0 ELSE v[CHOOSE x \in s : TRUE] + h[s \ {CHOOSE x \in s : TRUE}]
  BY DEF IsSum
<1>1. IsFiniteSet(T) /\ Cardinality(T) \in Nat
  BY FS_Subset, FS_CardinalityType
<1>2. \A s \in SUBSET T : IsFiniteSet(s) /\ Cardinality(s) \in Nat /\ Cardinality(s) <= Cardinality(T)
  BY <1>1, FS_Subset, FS_CardinalityType
<1>3. 0 \in K
  BY <1>0, <1>1, <1>2, FS_EmptySet
<1>4. ASSUME NEW k \in 1 .. Cardinality(T), k - 1 \in K PROVE k \in K
  <2>0. g[{}] = h[{}]
    BY <1>0
  <2> SUFFICES ASSUME NEW s \in SUBSET T, Cardinality(s) <= k, s # {} PROVE g[s] = h[s]
    BY <1>1, <2>0
  <2> DEFINE y == CHOOSE x \in s : TRUE
  <2>1. y \in s /\ g[s] = w[y] + g[s \ {y}] /\ h[s] = v[y] + h[s \ {y}]
    BY <1>0
  <2> HIDE DEF y
  <2>2. s \ {y} \in SUBSET T /\ Cardinality(s \ {y}) <= k - 1
    <3>1. IsFiniteSet(s) /\ Cardinality(s) \in Nat
      BY <1>2
    <3>2. Cardinality(s \ {y}) = Cardinality(s) - 1
      BY <2>1, <3>1, FS_RemoveElement
    <3> QED
      BY <1>1, <3>1, <3>2
  <2>3. g[s \ {y}] = h[s \ {y}]
    BY <1>4, <2>2
  <2> QED
    BY <2>1, <2>3 DEF SameNumbers
<1> HIDE DEF K
<1>5. Cardinality(T) \in K
  BY <1>1, <1>3, <1>4, CountUp
<1> QED
  BY <1>1, <1>5 DEF K

\* What one more element adds to a sum.
LEMMA TotalTakes ==
  ASSUME NEW S, IsFiniteSet(S), NEW w, \A x \in S : w[x] \in Int
  PROVE  /\ Total(w, S) \in Int
         /\ S = {} => Total(w, S) = 0
         /\ \A x \in S : Total(w, S) = w[x] + Total(w, S \ {x})
<1>1. PICK g : g = CHOOSE q : IsSum(q, w, S)
  OBVIOUS
<1>2. IsSum(g, w, S) /\ Total(w, S) = g[S]
  BY <1>1, SumExists DEF Total
<1>3. /\ g[{}] = 0
      /\ \A s \in SUBSET S : g[s] \in Int /\ \A x \in s : g[s] = w[x] + g[s \ {x}]
  BY <1>2, SumTakes
<1>4. ASSUME NEW x \in S PROVE Total(w, S \ {x}) = g[S \ {x}]
  <2>1. PICK h : h = CHOOSE q : IsSum(q, w, S \ {x})
    OBVIOUS
  <2>2. IsFiniteSet(S \ {x})
    BY FS_Subset
  <2>3. IsSum(h, w, S \ {x}) /\ Total(w, S \ {x}) = h[S \ {x}]
    BY <2>1, <2>2, SumExists DEF Total
  <2>4. S \ {x} \in SUBSET S /\ SameNumbers(w, w, S \ {x})
    BY DEF SameNumbers
  <2>5. g[S \ {x}] = h[S \ {x}]
    BY <1>2, <2>3, <2>4, SumIsOne
  <2> QED
    BY <2>3, <2>5
<1> QED
  BY <1>2, <1>3, <1>4

LEMMA TotalAdds ==
  ASSUME NEW S, IsFiniteSet(S), NEW w, NEW x, x \notin S, \A z \in S \union {x} : w[z] \in Int
  PROVE  Total(w, S \union {x}) = w[x] + Total(w, S)
<1>1. IsFiniteSet(S \union {x}) /\ (S \union {x}) \ {x} = S
  BY FS_AddElement
<1> QED
  BY <1>1, TotalTakes

\* Sums of the same numbers are the same.
LEMMA TotalSame ==
  ASSUME NEW S, IsFiniteSet(S), NEW w, NEW v, \A x \in S : w[x] = v[x]
  PROVE  Total(w, S) = Total(v, S)
<1>1. PICK g : g = CHOOSE q : IsSum(q, w, S)
  OBVIOUS
<1>2. PICK h : h = CHOOSE q : IsSum(q, v, S)
  OBVIOUS
<1>3. IsSum(g, w, S) /\ IsSum(h, v, S) /\ Total(w, S) = g[S] /\ Total(v, S) = h[S]
  BY <1>1, <1>2, SumExists DEF Total
<1>4. S \in SUBSET S /\ SameNumbers(w, v, S)
  BY DEF SameNumbers
<1>5. g[S] = h[S]
  BY ONLY IsFiniteSet(S), <1>3, <1>4, SumIsOne
<1> QED
  BY <1>3, <1>5

\* The sum over two sets that have nothing in common.
LEMMA TotalUnion ==
  ASSUME NEW A, IsFiniteSet(A), NEW B, IsFiniteSet(B), A \intersect B = {},
         NEW w, \A x \in A \union B : w[x] \in Int
  PROVE  Total(w, A \union B) = Total(w, A) + Total(w, B)
<1> DEFINE K == {k \in 0 .. Cardinality(B) : \A T \in SUBSET B : Cardinality(T) = k =>
                                               Total(w, A \union T) = Total(w, A) + Total(w, T)}
<1>1. Cardinality(B) \in Nat
  BY FS_CardinalityType
<1>2. \A T \in SUBSET B : IsFiniteSet(T) /\ Cardinality(T) \in Nat
  BY FS_Subset, FS_CardinalityType
<1>3. Total(w, A) \in Int
  BY TotalTakes
<1>4. 0 \in K
  <2> SUFFICES ASSUME NEW T \in SUBSET B, Cardinality(T) = 0 PROVE Total(w, A \union T) = Total(w, A) + Total(w, T)
    BY <1>1
  <2>1. T = {}
    BY <1>2, FS_EmptySet
  <2>2. Total(w, T) = 0 /\ A \union T = A
    BY <2>1, FS_EmptySet, TotalTakes
  <2> QED
    BY <1>3, <2>2
<1>5. ASSUME NEW k \in 1 .. Cardinality(B), k - 1 \in K PROVE k \in K
  <2> SUFFICES ASSUME NEW T \in SUBSET B, Cardinality(T) = k PROVE Total(w, A \union T) = Total(w, A) + Total(w, T)
    BY <1>1
  <2>1. T # {}
    BY FS_EmptySet
  <2>2. PICK y \in T : TRUE
    BY <2>1
  <2>3. IsFiniteSet(T) /\ IsFiniteSet(T \ {y}) /\ IsFiniteSet(A \union (T \ {y}))
    BY <1>2, FS_Union
  <2>4. Cardinality(T \ {y}) = k - 1
    BY <2>2, <2>3, FS_RemoveElement
  <2>5. Total(w, A \union (T \ {y})) = Total(w, A) + Total(w, T \ {y})
    BY <1>5, <2>4
  <2>6. Total(w, T) = w[y] + Total(w, T \ {y}) /\ Total(w, T \ {y}) \in Int
    BY <2>3, TotalTakes
  <2>7. Total(w, (A \union (T \ {y})) \union {y}) = w[y] + Total(w, A \union (T \ {y}))
    <3>1. y \notin A \union (T \ {y}) /\ \A z \in (A \union (T \ {y})) \union {y} : w[z] \in Int
      BY <2>2
    <3> HIDE DEF K
    <3> QED
      BY <2>3, <3>1, TotalAdds
  <2>8. (A \union (T \ {y})) \union {y} = A \union T
    OBVIOUS
  <2>9. w[y] \in Int
    BY <2>2
  <2>10. PICK rest : rest = Total(w, T \ {y})
    OBVIOUS
  <2>11. Total(w, A \union T) = w[y] + (Total(w, A) + rest)
    BY <2>5, <2>7, <2>8, <2>10
  <2>12. Total(w, T) = w[y] + rest /\ rest \in Int
    BY <2>6, <2>10
  <2> QED
    BY <1>3, <2>9, <2>11, <2>12
<1> HIDE DEF K
<1>6. Cardinality(B) \in K
  BY <1>1, <1>4, <1>5, CountUp
<1> QED
  BY <1>6 DEF K

-----------------------------------------------------------------------------
(* The planner's sums *)

Length(bs) == [b \in bs |-> b.ends - b.starts]

LEMMA MinutesIs ==
  ASSUME NEW bs, IsFiniteSet(bs)
  PROVE  Plan!Minutes(bs) = Total(Length(bs), bs)
<1> DEFINE w == Length(bs)
           Is(g) == g = [s \in SUBSET bs |-> IF s = {} THEN 0
               ELSE ((CHOOSE x \in s : TRUE).ends - (CHOOSE x \in s : TRUE).starts) + g[s \ {CHOOSE x \in s : TRUE}]]
<1>1. PICK g : IsSum(g, w, bs)
  BY SumExists
<1>2. \A x \in bs : w[x] = x.ends - x.starts
  BY DEF Length
<1>3. ASSUME NEW h
      PROVE  [s \in SUBSET bs |-> IF s = {} THEN 0
               ELSE ((CHOOSE x \in s : TRUE).ends - (CHOOSE x \in s : TRUE).starts) + h[s \ {CHOOSE x \in s : TRUE}]]
             = [s \in SUBSET bs |-> IF s = {} THEN 0
               ELSE w[CHOOSE x \in s : TRUE] + h[s \ {CHOOSE x \in s : TRUE}]]
  <2>1. \A s \in SUBSET bs : s # {} =>
          w[CHOOSE x \in s : TRUE] = (CHOOSE x \in s : TRUE).ends - (CHOOSE x \in s : TRUE).starts
    BY <1>2
  <2> HIDE DEF w
  <2> QED
    BY <2>1
<1>4. \A h : Is(h) <=> IsSum(h, w, bs)
  <2> HIDE DEF w
  <2> QED
    BY <1>3 DEF IsSum
<1>5. PICK h : h = CHOOSE q : Is(q)
  OBVIOUS
<1>6. Plan!Minutes(bs) = h[bs]
  BY <1>5 DEF Plan!Minutes, Plan!MapThenSumSet, Plan!MapThenFoldSet
<1>7. Is(h)
  <2> HIDE DEF Is
  <2> QED
    BY <1>1, <1>4, <1>5
<1>8. PICK f : f = CHOOSE q : IsSum(q, w, bs)
  OBVIOUS
<1>9. IsSum(f, w, bs) /\ IsSum(h, w, bs)
  BY <1>1, <1>4, <1>7, <1>8
<1>10. bs \in SUBSET bs /\ SameNumbers(w, w, bs)
  BY DEF SameNumbers
<1> HIDE DEF w
<1>11. h[bs] = f[bs]
  BY ONLY IsFiniteSet(bs), <1>9, <1>10, SumIsOne
<1> QED
  BY <1>6, <1>8, <1>11 DEF Total, w

Missed(cs) == [c \in cs |-> c.minutes]

LEMMA MissingIs ==
  ASSUME NEW cs, IsFiniteSet(cs)
  PROVE  Plan!MissingMinutes(cs) = Total(Missed(cs), cs)
<1> DEFINE w == Missed(cs)
           Is(g) == g = [s \in SUBSET cs |-> IF s = {} THEN 0
               ELSE (CHOOSE x \in s : TRUE).minutes + g[s \ {CHOOSE x \in s : TRUE}]]
<1>1. PICK g : IsSum(g, w, cs)
  BY SumExists
<1>2. \A x \in cs : w[x] = x.minutes
  BY DEF Missed
<1>3. ASSUME NEW h
      PROVE  [s \in SUBSET cs |-> IF s = {} THEN 0
               ELSE (CHOOSE x \in s : TRUE).minutes + h[s \ {CHOOSE x \in s : TRUE}]]
             = [s \in SUBSET cs |-> IF s = {} THEN 0
               ELSE w[CHOOSE x \in s : TRUE] + h[s \ {CHOOSE x \in s : TRUE}]]
  <2>1. \A s \in SUBSET cs : s # {} =>
          w[CHOOSE x \in s : TRUE] = (CHOOSE x \in s : TRUE).minutes
    BY <1>2
  <2> HIDE DEF w
  <2> QED
    BY <2>1
<1>4. \A h : Is(h) <=> IsSum(h, w, cs)
  <2> HIDE DEF w
  <2> QED
    BY <1>3 DEF IsSum
<1>5. PICK h : h = CHOOSE q : Is(q)
  OBVIOUS
<1>6. Plan!MissingMinutes(cs) = h[cs]
  BY <1>5 DEF Plan!MissingMinutes, Plan!MapThenSumSet, Plan!MapThenFoldSet
<1>7. Is(h)
  <2> HIDE DEF Is
  <2> QED
    BY <1>1, <1>4, <1>5
<1>8. PICK f : f = CHOOSE q : IsSum(q, w, cs)
  OBVIOUS
<1>9. IsSum(f, w, cs) /\ IsSum(h, w, cs)
  BY <1>1, <1>4, <1>7, <1>8
<1>10. cs \in SUBSET cs /\ SameNumbers(w, w, cs)
  BY DEF SameNumbers
<1> HIDE DEF w
<1>11. h[cs] = f[cs]
  BY ONLY IsFiniteSet(cs), <1>9, <1>10, SumIsOne
<1> QED
  BY <1>6, <1>8, <1>11 DEF Total, w

Share(rest, ks) == [k \in ks |-> Plan!Min({Granule, rest - k * Granule})]

LEMMA SharesAre ==
  ASSUME NEW rest, NEW ks, IsFiniteSet(ks)
  PROVE  Plan!Shares(rest, ks) = Total(Share(rest, ks), ks)
<1> DEFINE one(k) == Plan!Min({Granule, rest - k * Granule})
           w == Share(rest, ks)
           Is(g) == g = [s \in SUBSET ks |-> IF s = {} THEN 0
               ELSE one(CHOOSE x \in s : TRUE) + g[s \ {CHOOSE x \in s : TRUE}]]
<1>1. PICK g : IsSum(g, w, ks)
  BY SumExists
<1>2. \A x \in ks : w[x] = one(x)
  BY DEF Share
<1>3. ASSUME NEW h
      PROVE  [s \in SUBSET ks |-> IF s = {} THEN 0
               ELSE one(CHOOSE x \in s : TRUE) + h[s \ {CHOOSE x \in s : TRUE}]]
             = [s \in SUBSET ks |-> IF s = {} THEN 0
               ELSE w[CHOOSE x \in s : TRUE] + h[s \ {CHOOSE x \in s : TRUE}]]
  <2>1. \A s \in SUBSET ks : s # {} =>
          w[CHOOSE x \in s : TRUE] = one(CHOOSE x \in s : TRUE)
    BY <1>2
  <2> HIDE DEF w, one
  <2> QED
    BY <2>1
<1>4. ASSUME NEW h PROVE Is(h) <=> IsSum(h, w, ks)
  <2> DEFINE left == [s \in SUBSET ks |-> IF s = {} THEN 0
               ELSE one(CHOOSE x \in s : TRUE) + h[s \ {CHOOSE x \in s : TRUE}]]
             right == [s \in SUBSET ks |-> IF s = {} THEN 0
               ELSE w[CHOOSE x \in s : TRUE] + h[s \ {CHOOSE x \in s : TRUE}]]
  <2> HIDE DEF w, one
  <2>1. left = right
    BY <1>3
  <2>2. IsSum(h, w, ks) <=> h = right
    BY DEF IsSum
  <2>3. Is(h) <=> h = left
    OBVIOUS
  <2> HIDE DEF left, right, Is
  <2> QED
    BY <2>1, <2>2, <2>3
<1>5. PICK h : h = CHOOSE q : Is(q)
  OBVIOUS
<1>6. Plan!Shares(rest, ks) = h[ks]
  BY <1>5 DEF Plan!Shares, Plan!MapThenSumSet, Plan!MapThenFoldSet
<1>7. Is(h)
  <2> HIDE DEF Is
  <2> QED
    BY <1>1, <1>4, <1>5
<1>8. PICK f : f = CHOOSE q : IsSum(q, w, ks)
  OBVIOUS
<1>9. IsSum(f, w, ks) /\ IsSum(h, w, ks)
  BY <1>1, <1>4, <1>7, <1>8
<1>10. ks \in SUBSET ks /\ SameNumbers(w, w, ks)
  BY DEF SameNumbers
<1> HIDE DEF w
<1>11. h[ks] = f[ks]
  BY ONLY IsFiniteSet(ks), <1>9, <1>10, SumIsOne
<1> QED
  BY <1>6, <1>8, <1>11 DEF Total, w

-----------------------------------------------------------------------------
(* The sessions of a task *)

LEMMA LaterIs ==
  ASSUME NEW a \in Int, NEW b \in Int
  PROVE  Plan!Later(a, b) \in {a, b} /\ Plan!Later(a, b) >= a /\ Plan!Later(a, b) >= b
  BY DEF Plan!Later

\* The granules of rest are all of it.
LEMMA SharesAreAll ==
  ASSUME NEW rest \in Nat
  PROVE  Total(Share(rest, 0 .. rest), {k \in 0 .. rest : k * Granule < rest}) = rest
<1> DEFINE w == Share(rest, 0 .. rest)
           Below(m) == {k \in 0 .. rest : k < m /\ k * Granule < rest}
           S == {m \in 0 .. rest + 1 : Total(w, Below(m)) = IF m * Granule <= rest THEN m * Granule ELSE rest}
<1>1. Granule \in Nat /\ Granule >= 1
  BY PlanAssumption
<1>2. IsFiniteSet(0 .. rest)
  BY FS_Interval
<1>3. \A m \in 0 .. rest + 1 : IsFiniteSet(Below(m))
  BY <1>2, FS_Subset
<1>4. ASSUME NEW k \in 0 .. rest
      PROVE  k * Granule \in Int /\ w[k] = IF Granule <= rest - k * Granule THEN Granule ELSE rest - k * Granule
  <2>1. k * Granule \in Int /\ rest - k * Granule \in Int
    BY <1>1
  <2>2. w[k] = Plan!Min({Granule, rest - k * Granule})
    BY DEF Share
  <2> HIDE DEF w
  <2> QED
    BY <1>1, <2>1, <2>2, MinOfTwo
<1>5. \A k \in 0 .. rest : w[k] \in Int
  BY <1>1, <1>4
<1> HIDE DEF w
<1>6. 0 \in S
  <2>1. Below(0) = {}
    OBVIOUS
  <2>2. Total(w, {}) = 0
    BY FS_EmptySet, TotalTakes
  <2>3. 0 * Granule = 0 /\ 0 \in 0 .. rest + 1
    BY <1>1
  <2> HIDE DEF Below
  <2> QED
    BY <2>1, <2>2, <2>3
<1>7. ASSUME NEW m \in 1 .. rest + 1, m - 1 \in S PROVE m \in S
  <2>1. m - 1 \in 0 .. rest /\ m * Granule = (m - 1) * Granule + Granule /\ (m - 1) * Granule \in Int
    BY <1>1
  <2>2. Total(w, Below(m - 1)) = IF (m - 1) * Granule <= rest THEN (m - 1) * Granule ELSE rest
    BY <1>7
  <2>3. CASE (m - 1) * Granule < rest
    <3>1. Below(m) = Below(m - 1) \union {m - 1} /\ m - 1 \notin Below(m - 1)
      BY <2>1, <2>3
    <3>2. \A z \in Below(m - 1) \union {m - 1} : w[z] \in Int
      BY <1>5, <2>1
    <3>3. IsFiniteSet(Below(m - 1))
      BY <1>3, <2>1
    <3> HIDE DEF Below, S
    <3>4. Total(w, Below(m)) = w[m - 1] + Total(w, Below(m - 1))
      BY <3>1, <3>2, <3>3, TotalAdds
    <3>5. w[m - 1] = IF Granule <= rest - (m - 1) * Granule THEN Granule ELSE rest - (m - 1) * Granule
      BY <1>4, <2>1
    <3>6. Total(w, Below(m)) = IF m * Granule <= rest THEN m * Granule ELSE rest
      BY <1>1, <2>1, <2>2, <2>3, <3>4, <3>5
    <3> QED
      BY <3>6 DEF S
  <2>4. CASE ~((m - 1) * Granule < rest)
    <3>1. Below(m) = Below(m - 1)
      BY <2>1, <2>4
    <3> HIDE DEF Below
    <3> QED
      BY <1>1, <2>1, <2>2, <2>4, <3>1
  <2> QED
    BY <2>3, <2>4
<1> HIDE DEF S
<1>8. rest + 1 \in S
  BY <1>6, <1>7, CountUp
<1>9. Below(rest + 1) = {k \in 0 .. rest : k * Granule < rest}
  OBVIOUS
<1>10. ~((rest + 1) * Granule <= rest)
  BY <1>1
<1> QED
  BY <1>8, <1>9, <1>10 DEF S, w

\* Sessions that take up all that remains; left is what each of them leaves.
IsSplit(sessions, remaining, n, left) ==
  /\ n \in Nat \ {0} /\ Len(sessions) = n /\ DOMAIN sessions = 1 .. n
  /\ \A i \in 1 .. n : sessions[i] \in Nat \ {0}
  /\ \A i \in 0 .. n : left[i] \in Int
  /\ left[0] = remaining /\ left[n] = 0
  /\ \A i \in 1 .. n : left[i] = left[i - 1] - sessions[i]

LEMMA LengthIs ==
  ASSUME NEW n \in Nat, NEW f, f = [i \in 1 .. n |-> f[i]], \A i \in 1 .. n : f[i] \in Int
  PROVE  Len(f) = n /\ DOMAIN f = 1 .. n
<1>1. f \in [1 .. n -> Int]
  OBVIOUS
<1>2. f \in Seq(Int)
  BY <1>1, SeqDef
<1> QED
  BY <1>1, <1>2, LenProperties

LEMMA OneSession ==
  ASSUME NEW remaining \in Nat \ {0}
  PROVE  \E left : IsSplit(<<remaining>>, remaining, 1, left)
<1> DEFINE left == [i \in 0 .. 1 |-> IF i = 0 THEN remaining ELSE 0]
<1>1. IsSplit(<<remaining>>, remaining, 1, left)
  BY DEF IsSplit
<1> QED
  BY <1>1

\* What the limits of a task's sessions come to.
LEMMA LimitsAre ==
  ASSUME NEW t, t.max \in Int, t.min \in Int
  PROVE  /\ Plan!Later(Plan!Min({t.max, MaxSession}), Granule) \in Nat \ {0}
         /\ Plan!Max({t.min, MinSession, Granule}) \in Nat \ {0}
<1>1. Granule \in Nat \ {0} /\ MaxSession \in Int /\ MinSession \in Int
  BY PlanAssumption
<1>2. Plan!Min({t.max, MaxSession}) \in Int
  BY <1>1, MinOfTwo
<1>3. Plan!Later(Plan!Min({t.max, MaxSession}), Granule) \in Nat \ {0}
  BY <1>1, <1>2, LaterIs
<1>4. IsFiniteSet({t.min, MinSession, Granule})
  <2>1. IsFiniteSet({t.min})
    BY FS_Singleton
  <2>2. IsFiniteSet({t.min} \union {MinSession})
    BY <2>1, FS_AddElement
  <2>3. IsFiniteSet(({t.min} \union {MinSession}) \union {Granule})
    BY <2>2, FS_AddElement
  <2>4. ({t.min} \union {MinSession}) \union {Granule} = {t.min, MinSession, Granule}
    OBVIOUS
  <2> QED
    BY <2>3, <2>4
<1>5. Plan!Max({t.min, MinSession, Granule}) \in Int /\ Plan!Max({t.min, MinSession, Granule}) >= Granule
  BY <1>1, <1>4, MaxIs
<1> QED
  BY <1>1, <1>3, <1>5

\* Sessions as long as base, to which the granules of the rest are dealt in turn.
LEMMA DealtSessions ==
  ASSUME NEW remaining \in Nat, NEW count \in Nat \ {0}, NEW base \in Nat, NEW rest \in Nat,
         remaining = base * count + rest,
         NEW sessions,
         sessions = [i \in 1 .. count |-> base + Plan!Shares(rest, {k \in 0 .. rest : k % count = i - 1 /\ k * Granule < rest})],
         \A i \in 1 .. count : sessions[i] \in Nat \ {0}
  PROVE  \E left : IsSplit(sessions, remaining, count, left)
<1> DEFINE w == Share(rest, 0 .. rest)
           Turn(n) == {k \in 0 .. rest : k % count = n - 1 /\ k * Granule < rest}
           Before(n) == {k \in 0 .. rest : k % count < n /\ k * Granule < rest}
           left == [n \in 0 .. count |-> remaining - base * n - Total(w, Before(n))]
<1>1. Granule \in Nat /\ Granule >= 1
  BY PlanAssumption
<1>2. IsFiniteSet(0 .. rest)
  BY FS_Interval
<1>3. \A n \in 0 .. count : IsFiniteSet(Before(n)) /\ IsFiniteSet(Turn(n))
  BY <1>2, FS_Subset
<1>4. ASSUME NEW k \in 0 .. rest PROVE w[k] \in Int
  <2>1. rest - k * Granule \in Int
    BY <1>1
  <2>2. w[k] = Plan!Min({Granule, rest - k * Granule})
    BY DEF Share
  <2> HIDE DEF w
  <2> QED
    BY <1>1, <2>1, <2>2, MinOfTwo
<1>5. ASSUME NEW n \in 0 .. count
      PROVE  Total(w, Before(n)) \in Int /\ Total(w, Turn(n)) \in Int
  <2>1. \A k \in Before(n) : w[k] \in Int
    BY <1>4
  <2>2. \A k \in Turn(n) : w[k] \in Int
    BY <1>4
  <2>3. IsFiniteSet(Before(n)) /\ IsFiniteSet(Turn(n))
    BY <1>3
  <2> HIDE DEF w, Before, Turn
  <2> QED
    BY <2>1, <2>2, <2>3, TotalTakes
<1>6. ASSUME NEW k \in Nat PROVE k % count \in Int /\ 0 <= k % count /\ k % count < count
  BY Division
<1>7. ASSUME NEW n \in 1 .. count
      PROVE  Total(w, Before(n)) = Total(w, Before(n - 1)) + Total(w, Turn(n))
  <2>1. Before(n) = Before(n - 1) \union Turn(n)
    BY <1>6
  <2>2. Before(n - 1) \intersect Turn(n) = {}
    BY <1>6
  <2>3. \A k \in Before(n - 1) \union Turn(n) : w[k] \in Int
    BY <1>4
  <2>4. n - 1 \in 0 .. count /\ n \in 0 .. count
    OBVIOUS
  <2>5. IsFiniteSet(Before(n - 1)) /\ IsFiniteSet(Turn(n))
    BY <1>3, <2>4
  <2> HIDE DEF w, Before, Turn
  <2> QED
    BY <2>1, <2>2, <2>3, <2>5, TotalUnion
<1>8. ASSUME NEW n \in 1 .. count
      PROVE  sessions[n] = base + Total(w, Turn(n))
  <2>1. sessions[n] = base + Plan!Shares(rest, Turn(n))
    OBVIOUS
  <2>7. n \in 0 .. count
    OBVIOUS
  <2>2. IsFiniteSet(Turn(n))
    BY <1>3, <2>7
  <2>3. \A k \in Turn(n) : Share(rest, Turn(n))[k] = w[k]
    BY DEF Share
  <2> HIDE DEF w, Turn
  <2>4. Plan!Shares(rest, Turn(n)) = Total(Share(rest, Turn(n)), Turn(n))
    BY <2>2, SharesAre
  <2>5. PICK v : v = Share(rest, Turn(n))
    OBVIOUS
  <2>6. Total(v, Turn(n)) = Total(w, Turn(n))
    BY <2>2, <2>3, <2>5, TotalSame
  <2> QED
    BY <2>1, <2>4, <2>5, <2>6
<1>9. left[0] = remaining
  <2>1. Before(0) = {}
    BY <1>6
  <2>2. Total(w, {}) = 0
    BY FS_EmptySet, TotalTakes
  <2>3. 0 \in 0 .. count /\ base * 0 = 0
    OBVIOUS
  <2>4. left[0] = remaining - base * 0 - Total(w, Before(0))
    BY <2>3
  <2>5. Total(w, Before(0)) = 0
    BY ONLY <2>1, <2>2
  <2> HIDE DEF w, Before, left
  <2> QED
    BY <2>3, <2>4, <2>5
<1>10. left[count] = 0
  <2>1. Before(count) = {k \in 0 .. rest : k * Granule < rest}
    BY <1>6
  <2>2. Total(w, Before(count)) = rest
    BY <2>1, SharesAreAll
  <2> HIDE DEF w, Before
  <2> QED
    BY <2>2
<1>11. \A n \in 0 .. count : left[n] \in Int
  <2> HIDE DEF w, Before, Turn
  <2> QED
    BY <1>5
<1>12. ASSUME NEW n \in 1 .. count PROVE left[n] = left[n - 1] - sessions[n]
  <2>1. n \in 0 .. count /\ n - 1 \in 0 .. count
    OBVIOUS
  <2>2. left[n] = remaining - base * n - Total(w, Before(n)) /\ left[n - 1] = remaining - base * (n - 1) - Total(w, Before(n - 1))
    BY <2>1
  <2>3. Total(w, Before(n - 1)) \in Int /\ Total(w, Turn(n)) \in Int
    BY <1>5, <2>1
  <2>4. PICK was : was = Total(w, Before(n - 1))
    OBVIOUS
  <2>5. PICK adds : adds = Total(w, Turn(n))
    OBVIOUS
  <2>6. Total(w, Before(n)) = was + adds /\ sessions[n] = base + adds
    BY <1>7, <1>8, <2>4, <2>5
  <2> HIDE DEF w, Before, Turn, left
  <2>7. left[n] = remaining - base * n - (was + adds) /\ left[n - 1] = remaining - base * (n - 1) - was
    BY <2>2, <2>4, <2>6
  <2>8. base * (n - 1) = base * n - base /\ base * n \in Int /\ was \in Int /\ adds \in Int
    BY <2>3, <2>4, <2>5
  <2> QED
    BY <2>6, <2>7, <2>8
<1>13. Len(sessions) = count /\ DOMAIN sessions = 1 .. count
  <2>1. sessions = [i \in 1 .. count |-> sessions[i]]
    OBVIOUS
  <2> QED
    BY ONLY count \in Nat \ {0}, \A i \in 1 .. count : sessions[i] \in Nat \ {0}, <2>1, LengthIs
<1> HIDE DEF left
<1>14. IsSplit(sessions, remaining, count, left)
  BY <1>9, <1>10, <1>11, <1>12, <1>13 DEF IsSplit
<1> QED
  BY <1>14

\* Splitting a task's minutes gives no session at all, or sessions that are all of them.
LEMMA SplitIs ==
  ASSUME NEW t, t.max \in Int, t.min \in Int, NEW remaining \in Nat \ {0}
  PROVE  \/ Plan!SplitSessions(t, remaining) = <<>>
         \/ \E n, left : IsSplit(Plan!SplitSessions(t, remaining), remaining, n, left)
<1> DEFINE maximum == Plan!Later(Plan!Min({t.max, MaxSession}), Granule)
           minimum == Plan!Min({Plan!Max({t.min, MinSession, Granule}), maximum})
           most == (remaining + maximum - 1) \div maximum
           counts == {c \in 1 .. most : c = 1 \/ remaining \div c >= minimum}
           count == Plan!Max(counts)
           base == ((remaining \div count) \div Granule) * Granule
           rest == remaining - base * count
           sessions == [i \in 1 .. count |->
                          base + Plan!Shares(rest, {k \in 0 .. rest : k % count = i - 1 /\ k * Granule < rest})]
<1>1. CASE ~t.splittable
  <2>1. Plan!SplitSessions(t, remaining) = <<remaining>>
    BY <1>1 DEF Plan!SplitSessions
  <2> QED
    BY <2>1, OneSession
<1>2. CASE t.splittable
  <2>1. Plan!SplitSessions(t, remaining) = IF \A i \in 1 .. count : sessions[i] \in minimum .. maximum THEN sessions ELSE <<>>
    BY <1>2 DEF Plan!SplitSessions
  <2>2. maximum \in Nat \ {0} /\ minimum \in Nat \ {0}
    <3>1. maximum \in Nat \ {0} /\ Plan!Max({t.min, MinSession, Granule}) \in Nat \ {0}
      BY LimitsAre
    <3> HIDE DEF maximum
    <3> QED
      BY <3>1, MinOfTwo
  <2> HIDE DEF maximum, minimum
  <2>3. most \in Nat \ {0}
    <3>1. PICK sum : sum = remaining + maximum - 1
      OBVIOUS
    <3>2. sum \in Nat /\ sum >= maximum
      BY <2>2, <3>1
    <3>3. /\ sum \div maximum \in Int /\ sum % maximum \in Int
          /\ sum = maximum * (sum \div maximum) + (sum % maximum) /\ 0 <= sum % maximum /\ sum % maximum < maximum
      BY <2>2, <3>2, Division
    <3>4. sum \div maximum >= 1
      BY <2>2, <3>2, <3>3
    <3> QED
      BY <3>1, <3>3, <3>4
  <2> HIDE DEF most
  <2>4. count \in Nat \ {0}
    <3>1. counts \in SUBSET Int /\ 1 \in counts /\ counts \subseteq 1 .. most
      BY <2>3
    <3>2. IsFiniteSet(1 .. most)
      BY <2>3, FS_Interval
    <3>3. IsFiniteSet(counts)
      BY <3>1, <3>2, FS_Subset
    <3> HIDE DEF counts
    <3>4. count \in counts
      BY <3>1, <3>3, MaxIs
    <3>5. count \in 1 .. most
      BY <3>1, <3>4
    <3> HIDE DEF count
    <3> QED
      BY <2>3, <3>5
  <2> HIDE DEF counts, count
  <2>5. base \in Nat /\ rest \in Nat /\ remaining = base * count + rest
    <3>1. Granule \in Nat \ {0}
      BY PlanAssumption
    <3>2. PICK share : share = remaining \div count
      OBVIOUS
    <3>3. share \in Int /\ share * count <= remaining /\ share >= 0
      <4>1. /\ remaining \div count \in Int /\ remaining % count \in Int
            /\ remaining = count * (remaining \div count) + (remaining % count)
            /\ 0 <= remaining % count /\ remaining % count < count
        BY <2>4, Division
      <4>2. remaining \div count >= 0
        BY <2>4, <4>1
      <4> QED
        BY <2>4, <3>2, <4>1, <4>2
    <3>4. PICK whole : whole = share \div Granule
      OBVIOUS
    <3>5. whole \in Int /\ whole * Granule <= share /\ whole >= 0
      <4>1. /\ share \div Granule \in Int /\ share % Granule \in Int
            /\ share = Granule * (share \div Granule) + (share % Granule)
            /\ 0 <= share % Granule /\ share % Granule < Granule
        BY <3>1, <3>3, Division
      <4>2. share \div Granule >= 0
        BY <3>1, <3>3, <4>1
      <4> QED
        BY <3>1, <3>4, <4>1, <4>2
    <3>6. base = whole * Granule
      BY <3>2, <3>4
    <3> HIDE DEF base
    <3>7. base \in Nat /\ base <= share
      BY <3>1, <3>5, <3>6
    <3>8. base * count <= share * count /\ base * count \in Int
      BY <2>4, <3>3, <3>7
    <3> QED
      BY <2>4, <3>3, <3>7, <3>8
  <2> HIDE DEF base, rest
  <2>6. CASE \A i \in 1 .. count : sessions[i] \in minimum .. maximum
    <3>1. Plan!SplitSessions(t, remaining) = sessions
      BY <2>1, <2>6
    <3>2. \A i \in 1 .. count : sessions[i] \in Nat \ {0}
      BY <2>2, <2>6
    <3>3. PICK split : split = sessions
      OBVIOUS
    <3>4. /\ split = [i \in 1 .. count |->
                        base + Plan!Shares(rest, {k \in 0 .. rest : k % count = i - 1 /\ k * Granule < rest})]
          /\ \A i \in 1 .. count : split[i] \in Nat \ {0}
      BY <3>2, <3>3
    <3>5. \E left : IsSplit(split, remaining, count, left)
      BY ONLY <2>4, <2>5, <3>4, DealtSessions, remaining \in Nat \ {0}
    <3> HIDE DEF sessions
    <3> QED
      BY <3>1, <3>3, <3>5
  <2>7. CASE ~\A i \in 1 .. count : sessions[i] \in minimum .. maximum
    BY <2>1, <2>7
  <2> QED
    BY <2>6, <2>7
<1> QED
  BY <1>1, <1>2

-----------------------------------------------------------------------------
(* The best of several *)

\* Two ranks agree in their first k parts, and the first comes before the second there.
Agree(a, b, k) == \A i \in 1 .. k : a[i] = b[i]
Ahead(a, b, k) == \E i \in 1 .. k : a[i] < b[i] /\ Agree(a, b, i - 1)

\* Of finitely many things with ranks that differ in their last part one has the best.
LEMMA BestExists ==
  ASSUME NEW S, IsFiniteSet(S), S # {}, NEW n \in Nat \ {0}, NEW rank,
         \A s \in S : DOMAIN rank[s] = 1 .. n /\ \A i \in 1 .. n : rank[s][i] \in Int,
         \A s, other \in S : rank[s][n] = rank[other][n] => s = other
  PROVE  \E s \in S : \A other \in S \ {s} : Plan!Precedes(rank[s], rank[other])
<1> DEFINE AheadOfAll(s, k) == \A other \in S : Ahead(rank[s], rank[other], k) \/ Agree(rank[s], rank[other], k)
           K == {k \in 0 .. n : \E s \in S : AheadOfAll(s, k)}
<1>1. 0 \in K
  BY DEF Agree
<1>2. ASSUME NEW k \in 1 .. n, k - 1 \in K PROVE k \in K
  <2>1. PICK m \in S : AheadOfAll(m, k - 1)
    BY <1>2
  <2> DEFINE T == {s \in S : Agree(rank[m], rank[s], k - 1)}
             part == [s \in S |-> rank[s][k]]
  <2>2. IsFiniteSet(T) /\ m \in T
    <3>1. T \subseteq S /\ m \in T
      BY DEF Agree
    <3> QED
      BY <3>1, FS_Subset
  <2>3. PICK s \in T : \A x \in T : part[s] <= part[x]
    <3>1. \A x \in T : part[x] \in Int
      OBVIOUS
    <3> HIDE DEF T, part
    <3> QED
      BY <2>2, <3>1, Least
  <2>4. ASSUME NEW other \in S
        PROVE  Ahead(rank[s], rank[other], k) \/ Agree(rank[s], rank[other], k)
    <3>1. Agree(rank[m], rank[s], k - 1)
      BY <2>3
    <3>2. CASE other \in T
      <4>1. rank[s][k] <= rank[other][k] /\ rank[s][k] \in Int /\ rank[other][k] \in Int
        BY <2>3, <3>2
      <4>2. Agree(rank[s], rank[other], k - 1)
        BY <3>1, <3>2 DEF Agree
      <4>3. CASE rank[s][k] = rank[other][k]
        BY <4>2, <4>3 DEF Agree
      <4>4. CASE rank[s][k] < rank[other][k]
        BY <4>2, <4>4 DEF Ahead
      <4> QED
        BY <4>1, <4>3, <4>4
    <3>3. CASE other \notin T
      <4>1. Ahead(rank[m], rank[other], k - 1)
        BY <2>1, <3>3
      <4>2. PICK i \in 1 .. k - 1 : rank[m][i] < rank[other][i] /\ Agree(rank[m], rank[other], i - 1)
        BY <4>1 DEF Ahead
      <4>3. rank[s][i] < rank[other][i] /\ Agree(rank[s], rank[other], i - 1)
        BY <3>1, <4>2 DEF Agree
      <4> QED
        BY <4>2, <4>3 DEF Ahead
    <3> QED
      BY <3>2, <3>3
  <2> QED
    BY <2>3, <2>4
<1> HIDE DEF K
<1>3. n \in K
  <2>1. n \in Nat /\ n \in 0 .. n
    OBVIOUS
  <2>2. 0 .. n \subseteq K
    BY <1>1, <1>2, <2>1, CountUp
  <2> QED
    BY <2>1, <2>2
<1> USE DEF K
<1>4. PICK s \in S : AheadOfAll(s, n)
  BY <1>3
<1>5. ASSUME NEW other \in S \ {s} PROVE Plan!Precedes(rank[s], rank[other])
  <2>1. ~Agree(rank[s], rank[other], n)
    BY DEF Agree
  <2>2. PICK i \in 1 .. n : rank[s][i] < rank[other][i] /\ Agree(rank[s], rank[other], i - 1)
    BY <1>4, <2>1 DEF Ahead
  <2> QED
    BY <2>2 DEF Plan!Precedes, Agree
<1> QED
  BY <1>5

-----------------------------------------------------------------------------
(* Where a session may go *)

\* What the planner reads of a task.
IsTask(t) ==
  /\ t.id \in Int /\ t.duration \in Int /\ t.priority \in Int /\ t.risk \in Int /\ t.energy \in Int
  /\ t.max \in Int /\ t.min \in Int
  /\ t.due # None => t.due \in Int
  /\ t.earliest # None => t.earliest \in Int
  /\ IsFiniteSet(t.dependencies)

\* A window of the horizon that begins no later and ends no earlier.
InWindow(s, e, floor) ==
  \E o \in (floor \div PlanDay .. floor \div PlanDay + HorizonDays) \X Rules :
     /\ o[2].weekday = o[1] % 7
     /\ Plan!LocalTime(o[1], o[2].starts) <= s
     /\ e <= Plan!LocalTime(o[1], o[2].ends)

LEMMA HorizonIs ==
  ASSUME NEW floor \in Nat
  PROVE  Plan!HorizonEnd(floor) \in Nat /\ floor \div PlanDay \in Nat
<1>1. PlanDay \in Nat \ {0} /\ HorizonDays \in Nat
  BY PlanAssumption
<1>2. HorizonDays * PlanDay \in Nat
  BY <1>1
<1>3. /\ floor \div PlanDay \in Int /\ floor % PlanDay \in Int
      /\ floor = PlanDay * (floor \div PlanDay) + (floor % PlanDay) /\ 0 <= floor % PlanDay /\ floor % PlanDay < PlanDay
  BY <1>1, Division
<1>4. floor \div PlanDay >= 0
  BY <1>1, <1>3
<1> QED
  BY <1>2, <1>3, <1>4 DEF Plan!HorizonEnd

\* A feasible start is in a window, late enough, early enough and free.
LEMMA FeasibleIs ==
  ASSUME NEW t, NEW minutes \in Nat \ {0}, NEW from \in Nat, NEW floor \in Nat, NEW occupied,
         NEW s \in Plan!FeasibleStarts(t, minutes, from, floor, occupied)
  PROVE  /\ s \in Int /\ s >= from /\ s >= floor /\ s + minutes <= Plan!HorizonEnd(floor)
         /\ InWindow(s, s + minutes, floor)
         /\ t.due # None => s + minutes <= t.due
         /\ \A item \in occupied : ~Plan!Overlap(s, s + minutes, item)
<1>1. /\ t.due # None => s + minutes <= t.due
      /\ \A item \in occupied : ~Plan!Overlap(s, s + minutes, item)
  BY DEF Plan!FeasibleStarts
<1>2. PICK a \in Plan!AvailabilityIntervals(floor) :
        s \in Plan!RoundUp(Plan!Later(a.start, from)) .. Plan!Min({a.end, Plan!HorizonEnd(floor)}) - minutes
  BY DEF Plan!FeasibleStarts
<1>3. PICK o \in (floor \div PlanDay .. floor \div PlanDay + HorizonDays) \X Rules :
        /\ o[2].weekday = o[1] % 7
        /\ a = [start |-> Plan!Later(Plan!LocalTime(o[1], o[2].starts), floor),
                end |-> Plan!Min({Plan!LocalTime(o[1], o[2].ends), Plan!HorizonEnd(floor)})]
  BY DEF Plan!AvailabilityIntervals
<1>4. Plan!HorizonEnd(floor) \in Nat /\ floor \div PlanDay \in Nat
  BY HorizonIs
<1>5. Plan!LocalTime(o[1], o[2].starts) \in Int /\ Plan!LocalTime(o[1], o[2].ends) \in Int
  <2>1. o[1] \in Int /\ o[2].starts \in Int /\ o[2].ends \in Int /\ PlanDay \in Int
    BY <1>3, <1>4, PlanAssumption
  <2>2. o[1] * PlanDay \in Int
    BY <2>1
  <2> QED
    BY <2>1, <2>2 DEF Plan!LocalTime
<1>6. PICK opens : opens = Plan!LocalTime(o[1], o[2].starts)
  OBVIOUS
<1>7. PICK closes : closes = Plan!LocalTime(o[1], o[2].ends)
  OBVIOUS
<1>8. PICK ends : ends = Plan!HorizonEnd(floor)
  OBVIOUS
<1>9. opens \in Int /\ closes \in Int /\ ends \in Nat
  BY <1>4, <1>5, <1>6, <1>7, <1>8
<1>10. a.start = Plan!Later(opens, floor) /\ a.end = Plan!Min({closes, ends})
  BY <1>3, <1>6, <1>7, <1>8
<1>11. a.start \in Nat /\ a.start >= opens /\ a.start >= floor
  BY <1>9, <1>10, LaterIs
<1>12. a.end \in Int /\ a.end <= closes /\ a.end <= ends
  BY <1>9, <1>10, MinOfTwo
<1>13. PICK late : late = Plan!Later(a.start, from)
  OBVIOUS
<1>14. late \in Nat /\ late >= a.start /\ late >= from
  BY <1>11, <1>13, LaterIs
<1>15. Plan!RoundUp(late) \in Nat /\ late <= Plan!RoundUp(late)
  BY <1>14, RoundUpIs
<1>16. PICK last : last = Plan!Min({a.end, ends})
  OBVIOUS
<1>17. last \in Int /\ last <= a.end
  BY <1>9, <1>12, <1>16, MinOfTwo
<1>18. s \in Plan!RoundUp(late) .. last - minutes
  BY <1>2, <1>8, <1>13, <1>16
<1>19. s \in Int /\ late <= s /\ s + minutes <= last
  <2>1. PICK first : first = Plan!RoundUp(late)
    OBVIOUS
  <2>2. first \in Nat /\ late <= first /\ s \in first .. last - minutes
    BY <1>15, <1>18, <2>1
  <2> QED
    BY <1>14, <1>17, <2>2
<1>20. s >= opens /\ s >= floor /\ s >= from /\ s + minutes <= closes /\ s + minutes <= ends
  BY <1>9, <1>11, <1>12, <1>14, <1>17, <1>19
<1> QED
  BY <1>1, <1>3, <1>6, <1>7, <1>8, <1>19, <1>20 DEF InWindow

\* There are finitely many of them.
LEMMA FeasibleFinite ==
  ASSUME NEW t, NEW minutes \in Nat \ {0}, NEW from \in Nat, NEW floor \in Nat, NEW occupied
  PROVE  IsFiniteSet(Plan!FeasibleStarts(t, minutes, from, floor, occupied))
<1> DEFINE starts == Plan!FeasibleStarts(t, minutes, from, floor, occupied)
<1>1. Plan!HorizonEnd(floor) \in Nat
  BY HorizonIs
<1>2. ASSUME NEW s \in starts PROVE s \in 0 .. Plan!HorizonEnd(floor)
  <2>1. s \in Int /\ s >= from /\ s + minutes <= Plan!HorizonEnd(floor)
    BY FeasibleIs
  <2> QED
    BY <1>1, <2>1
<1>3. PICK whole : whole = 0 .. Plan!HorizonEnd(floor)
  OBVIOUS
<1>4. IsFiniteSet(whole)
  BY <1>1, <1>3, FS_Interval
<1> HIDE DEF starts
<1>5. starts \subseteq whole
  BY <1>2, <1>3
<1> QED
  BY <1>4, <1>5, FS_Subset DEF starts

\* The best of the feasible starts is one of them.
LEMMA BestIs ==
  ASSUME NEW t, IsTask(t), NEW starts, IsFiniteSet(starts), starts # {}, \A s \in starts : s \in Int,
         NEW minutes \in Nat, NEW index, NEW stable, NEW low, NEW occupied
  PROVE  Plan!Best(t, starts, minutes, index, stable, low, occupied) \in starts
<1> DEFINE rank == [s \in starts |-> Plan!Score(t, s, minutes, occupied, stable, index, low)]
<1>1. ASSUME NEW s \in starts
      PROVE  DOMAIN rank[s] = 1 .. 6 /\ rank[s][6] = s /\ \A i \in 1 .. 6 : rank[s][i] \in Int
  <2>1. s \in Int /\ t.energy \in Int /\ (t.due # None => t.due \in Int)
    BY DEF IsTask
  <2>2. Plan!EnergyPenalty(t.energy, s) \in Int
    BY <2>1 DEF Plan!EnergyPenalty
  <2>3. PICK due : due = IF t.due = None THEN 0 ELSE s + minutes - t.due
    OBVIOUS
  <2>4. due \in Int
    BY <2>1, <2>3
  <2>5. DOMAIN rank[s] = 1 .. 6 /\ rank[s][1] \in {0, 1} /\ rank[s][2] \in {2 * t.energy, Plan!EnergyPenalty(t.energy, s)}
    BY DEF Plan!Score
  <2>6. rank[s][3] \in {0, 1} /\ rank[s][4] \in {0, 1} /\ rank[s][6] = s
    BY DEF Plan!Score
  <2>7. rank[s][5] = due
    BY <2>3 DEF Plan!Score
  <2>8. rank[s][2] \in Int
    <3>1. 2 * t.energy \in Int
      BY <2>1
    <3> HIDE DEF rank
    <3> QED
      BY <2>2, <2>5, <3>1
  <2> HIDE DEF rank
  <2>9. rank[s][1] \in Int /\ rank[s][3] \in Int /\ rank[s][4] \in Int /\ rank[s][5] \in Int /\ rank[s][6] \in Int
    BY <2>1, <2>4, <2>5, <2>6, <2>7
  <2> QED
    BY <2>5, <2>6, <2>8, <2>9
<1>2. \E s \in starts : \A other \in starts \ {s} : Plan!Precedes(rank[s], rank[other])
  <2>1. /\ \A s \in starts : DOMAIN rank[s] = 1 .. 6 /\ \A i \in 1 .. 6 : rank[s][i] \in Int
        /\ \A s, other \in starts : rank[s][6] = rank[other][6] => s = other
    BY <1>1
  <2>2. 6 \in Nat \ {0}
    OBVIOUS
  <2>3. IsFiniteSet(starts) /\ starts # {}
    OBVIOUS
  <2> HIDE DEF rank
  <2>4. PICK r, n : r = rank /\ n = 6
    OBVIOUS
  <2>5. /\ n \in Nat \ {0}
        /\ \A s \in starts : DOMAIN r[s] = 1 .. n /\ \A i \in 1 .. n : r[s][i] \in Int
        /\ \A s, other \in starts : r[s][n] = r[other][n] => s = other
    BY <2>1, <2>2, <2>4
  <2>6. \E s \in starts : \A other \in starts \ {s} : Plan!Precedes(r[s], r[other])
    BY ONLY <2>3, <2>5, BestExists
  <2> QED
    BY <2>4, <2>6
<1>3. \E s \in starts : \A other \in starts \ {s} :
        Plan!Precedes(Plan!Score(t, s, minutes, occupied, stable, index, low),
                      Plan!Score(t, other, minutes, occupied, stable, index, low))
  <2>1. PICK s \in starts : \A other \in starts \ {s} : Plan!Precedes(rank[s], rank[other])
    BY <1>2
  <2>2. \A other \in starts : rank[other] = Plan!Score(t, other, minutes, occupied, stable, index, low)
    OBVIOUS
  <2> HIDE DEF rank
  <2> QED
    BY <2>1, <2>2
<1> QED
  BY <1>3 DEF Plan!Best

\* The first of the tasks that are ready is one of them.
LEMMA FirstIs ==
  ASSUME NEW tasksLeft, IsFiniteSet(tasksLeft), tasksLeft # {}, \A t \in tasksLeft : IsTask(t),
         \A t, other \in tasksLeft : t.id = other.id => t = other
  PROVE  \E t \in tasksLeft : \A other \in tasksLeft \ {t} : Plan!Precedes(Plan!TaskKey(t), Plan!TaskKey(other))
<1> DEFINE rank == [t \in tasksLeft |-> Plan!TaskKey(t)]
<1>1. ASSUME NEW t \in tasksLeft
      PROVE  DOMAIN rank[t] = 1 .. 5 /\ rank[t][5] = t.id /\ \A i \in 1 .. 5 : rank[t][i] \in Int
  <2>1. t.id \in Int /\ t.priority \in Int /\ t.risk \in Int /\ (t.due # None => t.due \in Int)
    BY DEF IsTask
  <2>2. \E a, b, c, d \in Int : rank[t] = <<a, b, c, d, t.id>>
    <3> DEFINE due == IF t.due = None THEN 0 ELSE t.due
    <3>1. due \in Int /\ -t.priority \in Int /\ -t.risk \in Int
      BY <2>1
    <3> QED
      BY <3>1 DEF Plan!TaskKey
  <2>3. PICK a \in Int, b \in Int, c \in Int, d \in Int : rank[t] = <<a, b, c, d, t.id>>
    BY <2>2
  <2> HIDE DEF rank
  <2> QED
    BY <2>1, <2>3
<1>2. \E t \in tasksLeft : \A other \in tasksLeft \ {t} : Plan!Precedes(rank[t], rank[other])
  <2>1. /\ \A t \in tasksLeft : DOMAIN rank[t] = 1 .. 5 /\ \A i \in 1 .. 5 : rank[t][i] \in Int
        /\ \A t, other \in tasksLeft : rank[t][5] = rank[other][5] => t = other
    BY <1>1
  <2> HIDE DEF rank
  <2>2. PICK n : n = 5
    OBVIOUS
  <2>3. PICK ranks : ranks = rank
    OBVIOUS
  <2>4. n \in Nat \ {0}
    BY <2>2
  <2>5. /\ \A s \in tasksLeft : DOMAIN ranks[s] = 1 .. n /\ \A i \in 1 .. n : ranks[s][i] \in Int
        /\ \A s, other \in tasksLeft : ranks[s][n] = ranks[other][n] => s = other
    BY ONLY <2>1, <2>2, <2>3
  <2>6. \E s \in tasksLeft : \A other \in tasksLeft \ {s} : Plan!Precedes(ranks[s], ranks[other])
    BY ONLY <2>4, <2>5, BestExists, IsFiniteSet(tasksLeft), tasksLeft # {}
  <2> QED
    BY <2>3, <2>6
<1>3. \A t \in tasksLeft : rank[t] = Plan!TaskKey(t)
  OBVIOUS
<1> HIDE DEF rank
<1> QED
  BY <1>2, <1>3

-----------------------------------------------------------------------------
(* The plan so far *)

Pause == Plan!Later(Break, Transition)

OfTask(st, id) == {b \in st.blocks : b.task = id}

Told(st, id) == {c \in st.conflicts : c.task = id}

IsPlan(st) ==
  st = [blocks |-> st.blocks, conflicts |-> st.conflicts, occupied |-> st.occupied,
        pending |-> st.pending, done |-> st.done]

\* Tasks that are told apart by their numbers.
AreTasks(U) ==
  /\ IsFiniteSet(U)
  /\ \A t \in U : IsTask(t)
  /\ \A t, other \in U : t.id = other.id => t = other

\* A block lies in a window, within what its task asks for and on nothing of base.
Fits(b, t, floor, base) ==
  /\ b.starts \in Int /\ b.ends \in Int
  /\ b.starts >= floor /\ b.starts < b.ends /\ b.ends <= Plan!HorizonEnd(floor)
  /\ InWindow(b.starts, b.ends, floor)
  /\ t.due # None => b.ends <= t.due
  /\ t.earliest # None => b.starts >= t.earliest
  /\ \A item \in base : ~Plan!Overlap(b.starts, b.ends, item)

After(b, c) == LET pause == IF b.task = c.task THEN Pause ELSE 0 IN c.ends + pause <= b.starts

Apart(b, c) == After(b, c) \/ After(c, b)

\* Every block is one of a task that is no longer pending, and fits.
BlocksFit(st, U, floor, base) ==
  \A b \in st.blocks : /\ \E t \in U : t.id = b.task
                       /\ \A t \in U : t.id = b.task => t \notin st.pending /\ Fits(b, t, floor, base)

\* A block and the pause after it are occupied.
BlocksOccupy(st) ==
  \A b \in st.blocks : \E item \in st.occupied : item.start = b.starts /\ item.end = b.ends + Pause

\* What is done has an end, and nothing of what is pending is.
DoneIs(st) ==
  /\ \A d \in DOMAIN st.done : st.done[d] \in Int
  /\ \A t \in st.pending : t.id \notin DOMAIN st.done
  /\ \A b \in st.blocks : b.task \in DOMAIN st.done => b.ends <= st.done[b.task]

\* A block comes after every block of the tasks that its task depends on.
InOrder(st, U) ==
  \A b \in st.blocks : \A t \in U : t.id = b.task =>
    /\ t.dependencies \subseteq DOMAIN st.done
    /\ \A c \in st.blocks : c.task \in t.dependencies => c.ends <= b.starts

Laid(st, U, floor, base) ==
  /\ IsPlan(st)
  /\ st.pending \subseteq U
  /\ IsFiniteSet(st.blocks)
  /\ base \subseteq st.occupied
  /\ BlocksFit(st, U, floor, base)
  /\ BlocksOccupy(st)
  /\ \A b, c \in st.blocks : b # c => Apart(b, c)
  /\ DoneIs(st)
  /\ InOrder(st, U)

\* Of a task whose sessions are being placed: where the next one may start, and the minutes left.
Placing(at, t, U, floor, base, owed, st) ==
  /\ at = [plan |-> at.plan, from |-> at.from, left |-> at.left, placed |-> at.placed]
  /\ Laid(at.plan, U, floor, base)
  /\ at.plan.pending = st.pending /\ at.plan.done = st.done /\ at.plan.conflicts = st.conflicts
  /\ at.from \in Nat /\ at.from >= floor
  /\ t.earliest # None => at.from >= t.earliest
  /\ \A d \in t.dependencies : at.from >= st.done[d]
  /\ \A b \in OfTask(at.plan, t.id) : b.ends + Pause <= at.from
  /\ \A u \in U : u.id # t.id => OfTask(at.plan, u.id) = OfTask(st, u.id)
  /\ at.left \in Int
  /\ Plan!Minutes(OfTask(at.plan, t.id)) + at.left = owed
  /\ at.placed \in BOOLEAN

LEMMA PauseIs == Pause \in Nat
<1>1. Break \in Nat /\ Transition \in Nat
  BY PlanAssumption
<1> QED
  BY <1>1, LaterIs DEF Pause

\* A block more adds its minutes.
LEMMA MinutesAdd ==
  ASSUME NEW bs, IsFiniteSet(bs), \A b \in bs : b.starts \in Int /\ b.ends \in Int,
         NEW new, new \notin bs, new.starts \in Int, new.ends \in Int
  PROVE  /\ Plan!Minutes(bs) \in Int
         /\ Plan!Minutes(bs \union {new}) = Plan!Minutes(bs) + (new.ends - new.starts)
<1>1. PICK all : all = bs \union {new}
  OBVIOUS
<1>2. IsFiniteSet(all) /\ bs \subseteq all /\ new \in all /\ bs = all \ {new}
  BY <1>1, FS_AddElement
<1>3. PICK w : w = Length(all)
  OBVIOUS
<1>4. \A b \in all : w[b] = b.ends - b.starts /\ w[b] \in Int
  BY <1>1, <1>3 DEF Length
<1>5. Plan!Minutes(all) = Total(w, all)
  BY <1>2, <1>3, MinutesIs
<1>6. Plan!Minutes(bs) = Total(w, bs)
  <2>1. PICK v : v = Length(bs)
    OBVIOUS
  <2>2. \A b \in bs : v[b] = w[b]
    BY <1>2, <1>4, <2>1 DEF Length
  <2>3. Total(v, bs) = Total(w, bs)
    BY <2>2, TotalSame
  <2> QED
    BY <2>1, <2>3, MinutesIs
<1>7. \A b \in bs : w[b] \in Int
  BY <1>2, <1>4
<1>8. Total(w, bs) \in Int
  BY <1>7, TotalTakes
<1>9. Total(w, all) = w[new] + Total(w, all \ {new})
  BY <1>2, <1>4, TotalTakes
<1>10. PICK sum : sum = Total(w, bs)
  OBVIOUS
<1>11. w[new] = new.ends - new.starts /\ w[new] \in Int /\ sum \in Int
  BY <1>2, <1>4, <1>8, <1>10
<1>12. Total(w, all) = w[new] + sum
  BY <1>2, <1>9, <1>10
<1>13. Total(w, all) = sum + (new.ends - new.starts)
  BY ONLY <1>11, <1>12, new.starts \in Int, new.ends \in Int
<1> QED
  BY <1>1, <1>5, <1>6, <1>8, <1>10, <1>13

\* One session more, at a feasible start.
LEMMA PutKeeps ==
  ASSUME NEW U, AreTasks(U), NEW t \in U, NEW floor \in Nat, NEW base, NEW owed \in Int, NEW st, NEW at,
         Placing(at, t, U, floor, base, owed, st),
         t \notin st.pending, t.id \notin DOMAIN st.done, t.dependencies \subseteq DOMAIN st.done,
         NEW minutes \in Nat \ {0}, NEW index, NEW stable,
         NEW begin, begin \in Plan!FeasibleStarts(t, minutes, at.from, floor, at.plan.occupied),
         NEW next, next = Plan!PutSession(t, index, begin, minutes, stable, at)
  PROVE  /\ Placing(next, t, U, floor, base, owed, st)
         /\ next.left = at.left - minutes
         /\ OfTask(next.plan, t.id) # {}
<1>1. PICK p : p = at.plan
  OBVIOUS
<1>2. PICK q : q = next.plan
  OBVIOUS
<1>3. PICK end : end = begin + minutes
  OBVIOUS
<1>4. PICK block : block = [id |-> Plan!SessionId(t, index, begin, end, stable), task |-> t.id,
                            starts |-> begin, ends |-> end]
  OBVIOUS
<1>5. PICK taken : taken = Plan!Occupied(begin, end + Pause, t.location, t.course)
  OBVIOUS
<1>6. block.task = t.id /\ block.starts = begin /\ block.ends = end
  BY <1>4
<1>7. taken.start = begin /\ taken.end = end + Pause
  BY <1>5 DEF Plan!Occupied
<1>8. Laid(p, U, floor, base)
  BY <1>1 DEF Placing
<1>9. /\ q.blocks = p.blocks \union {block} /\ q.occupied = p.occupied \union {taken}
      /\ q.conflicts = p.conflicts /\ q.pending = p.pending /\ q.done = p.done /\ IsPlan(q)
      /\ next = [plan |-> q, from |-> end + Pause, left |-> at.left - minutes, placed |-> TRUE]
  <2>1. IsPlan(p)
    BY <1>8 DEF Laid
  <2>2. q = [p EXCEPT !.blocks = @ \union {block}, !.occupied = @ \union {taken}]
    BY <1>1, <1>2, <1>3, <1>4, <1>5 DEF Plan!PutSession, Pause
  <2>3. next = [plan |-> q, from |-> end + Pause, left |-> at.left - minutes, placed |-> TRUE]
    BY <1>1, <1>2, <1>3, <1>4, <1>5, <2>2 DEF Plan!PutSession, Pause
  <2>4. q = [blocks |-> p.blocks \union {block}, conflicts |-> p.conflicts, occupied |-> p.occupied \union {taken},
             pending |-> p.pending, done |-> p.done]
    BY <2>1, <2>2 DEF IsPlan
  <2> QED
    BY <2>3, <2>4 DEF IsPlan
<1>10. at.from \in Nat /\ at.from >= floor /\ at.left \in Int
  BY DEF Placing
<1>11. p.pending = st.pending /\ p.done = st.done /\ p.conflicts = st.conflicts
  BY <1>1 DEF Placing
<1>12. /\ begin \in Int /\ begin >= at.from /\ begin >= floor /\ end <= Plan!HorizonEnd(floor)
       /\ InWindow(begin, end, floor)
       /\ t.due # None => end <= t.due
       /\ \A item \in p.occupied : ~Plan!Overlap(begin, end, item)
  BY <1>1, <1>3, <1>10, FeasibleIs
<1>13. Pause \in Nat /\ end \in Int /\ begin < end /\ end + Pause \in Int
  BY <1>3, <1>12, PauseIs
<1>14. \A b \in OfTask(p, t.id) : b.ends + Pause <= begin /\ b.starts \in Int /\ b.ends \in Int /\ b.starts < b.ends
  <2>1. ASSUME NEW b \in OfTask(p, t.id) PROVE b.starts \in Int /\ b.ends \in Int /\ b.starts < b.ends
    BY <1>8 DEF Laid, BlocksFit, Fits, OfTask
  <2>2. ASSUME NEW b \in OfTask(p, t.id) PROVE b.ends + Pause <= at.from
    BY <1>1 DEF Placing
  <2> QED
    BY <1>10, <1>12, <1>13, <2>1, <2>2
<1>15. block \notin p.blocks
  <2>1. ASSUME block \in p.blocks PROVE FALSE
    <3>1. block \in OfTask(p, t.id)
      BY <1>6, <2>1 DEF OfTask
    <3>2. end + Pause <= begin
      BY <1>6, <1>14, <3>1
    <3> QED
      BY <1>12, <1>13, <3>2
  <2> QED
    BY <2>1
<1>16. Fits(block, t, floor, base)
  <2>1. t.earliest # None => begin >= t.earliest
    <3>1. t.earliest # None => t.earliest \in Int /\ at.from >= t.earliest
      BY DEF Placing, AreTasks, IsTask
    <3> QED
      BY <1>10, <1>12, <3>1
  <2>2. \A item \in base : ~Plan!Overlap(begin, end, item)
    BY <1>8, <1>12 DEF Laid
  <2> QED
    BY <1>6, <1>12, <1>13, <2>1, <2>2 DEF Fits
<1>17. BlocksFit(q, U, floor, base)
  <2>1. ASSUME NEW b \in p.blocks
        PROVE  /\ \E u \in U : u.id = b.task
               /\ \A u \in U : u.id = b.task => u \notin q.pending /\ Fits(b, u, floor, base)
    BY <1>8, <1>9 DEF Laid, BlocksFit
  <2>2. \A u \in U : u.id = block.task => u = t
    BY <1>6 DEF AreTasks
  <2>3. t \notin q.pending
    BY <1>9, <1>11
  <2> QED
    BY <1>6, <1>9, <1>16, <2>1, <2>2, <2>3 DEF BlocksFit
<1>18. BlocksOccupy(q)
  <2>1. ASSUME NEW b \in p.blocks PROVE \E item \in q.occupied : item.start = b.starts /\ item.end = b.ends + Pause
    BY <1>8, <1>9 DEF Laid, BlocksOccupy
  <2>2. taken \in q.occupied /\ taken.start = block.starts /\ taken.end = block.ends + Pause
    BY <1>6, <1>7, <1>9
  <2> QED
    BY <1>9, <2>1, <2>2 DEF BlocksOccupy
<1>19. ASSUME NEW b \in p.blocks PROVE Apart(b, block) /\ Apart(block, b)
  <2>1. CASE b.task = t.id
    <3>1. b.ends + Pause <= begin
      BY <1>14, <2>1 DEF OfTask
    <3> QED
      BY <1>6, <2>1, <3>1 DEF Apart, After
  <2>2. CASE b.task # t.id
    <3>1. PICK item \in p.occupied : item.start = b.starts /\ item.end = b.ends + Pause
      BY <1>8 DEF Laid, BlocksOccupy
    <3>2. b.starts \in Int /\ b.ends \in Int
      BY <1>8 DEF Laid, BlocksFit, Fits
    <3>3. ~(begin < b.ends + Pause /\ end > b.starts)
      BY <1>12, <3>1 DEF Plan!Overlap
    <3>4. b.ends + 0 <= begin \/ end + 0 <= b.starts
      BY <1>12, <1>13, <3>2, <3>3
    <3> QED
      BY <1>6, <2>2, <3>4 DEF Apart, After
  <2> QED
    BY <2>1, <2>2
<1>20. \A b, c \in q.blocks : b # c => Apart(b, c)
  <2>1. \A b, c \in p.blocks : b # c => Apart(b, c)
    BY <1>8 DEF Laid
  <2> QED
    BY <1>9, <1>19, <2>1
<1>21. DoneIs(q)
  <2>1. DoneIs(p) /\ block.task \notin DOMAIN q.done
    BY <1>6, <1>8, <1>9, <1>11 DEF Laid
  <2> QED
    BY <1>9, <2>1 DEF DoneIs
<1>22. InOrder(q, U)
  <2>1. InOrder(p, U)
    BY <1>8 DEF Laid
  <2>2. ASSUME NEW b \in q.blocks, NEW u \in U, u.id = b.task PROVE u.dependencies \subseteq DOMAIN q.done
    <3>1. b = block => u = t
      BY <1>6, <2>2 DEF AreTasks
    <3> QED
      BY <1>9, <1>11, <2>1, <2>2, <3>1 DEF InOrder
  <2>3. ASSUME NEW b \in q.blocks, NEW u \in U, u.id = b.task, NEW c \in q.blocks, c.task \in u.dependencies
        PROVE  c.ends <= b.starts
    <3>1. c.task \in DOMAIN q.done
      BY <2>2, <2>3
    <3>2. c \in p.blocks
      BY <1>6, <1>9, <1>11, <3>1
    <3>3. CASE b \in p.blocks
      BY <2>1, <2>3, <3>2, <3>3 DEF InOrder
    <3>4. CASE b = block
      <4>1. u = t
        BY <1>6, <2>3, <3>4 DEF AreTasks
      <4>2. at.from >= q.done[c.task]
        BY <1>9, <1>11, <2>3, <4>1 DEF Placing
      <4>3. c.ends <= q.done[c.task] /\ q.done[c.task] \in Int
        BY <1>8, <1>9, <3>1, <3>2 DEF Laid, DoneIs
      <4>4. c.ends \in Int
        BY <1>8, <3>2 DEF Laid, BlocksFit, Fits
      <4>5. b.starts = begin
        BY <1>6, <3>4
      <4>6. begin \in Int /\ begin >= at.from /\ at.from \in Int
        BY <1>10, <1>12
      <4> QED
        BY ONLY <4>2, <4>3, <4>4, <4>5, <4>6
    <3> QED
      BY <1>9, <3>3, <3>4
  <2> QED
    BY <2>2, <2>3 DEF InOrder
<1>23. Laid(q, U, floor, base)
  <2>1. p.pending \subseteq U /\ IsFiniteSet(p.blocks) /\ base \subseteq p.occupied
    BY <1>8 DEF Laid
  <2>2. IsFiniteSet(q.blocks)
    BY <1>9, <2>1, FS_AddElement
  <2> QED
    BY <1>9, <1>17, <1>18, <1>20, <1>21, <1>22, <2>1, <2>2 DEF Laid
<1>24. OfTask(q, t.id) = OfTask(p, t.id) \union {block}
  BY <1>6, <1>9 DEF OfTask
<1>25. Plan!Minutes(OfTask(q, t.id)) + (at.left - minutes) = owed
  <2>1. PICK mine : mine = OfTask(p, t.id)
    OBVIOUS
  <2>2. IsFiniteSet(mine)
    <3>1. IsFiniteSet(p.blocks) /\ mine \subseteq p.blocks
      BY <1>8, <2>1 DEF Laid, OfTask
    <3> QED
      BY <3>1, FS_Subset
  <2>3. block \notin mine /\ block.starts \in Int /\ block.ends \in Int
    BY <1>6, <1>12, <1>13, <1>15, <2>1 DEF OfTask
  <2>4. \A b \in mine : b.starts \in Int /\ b.ends \in Int
    BY <1>14, <2>1
  <2>5. Plan!Minutes(mine) \in Int /\ Plan!Minutes(mine \union {block}) = Plan!Minutes(mine) + (block.ends - block.starts)
    BY ONLY <2>2, <2>3, <2>4, MinutesAdd
  <2>6. PICK was : was = Plan!Minutes(mine)
    OBVIOUS
  <2>7. was + at.left = owed
    BY <1>1, <2>1, <2>6 DEF Placing
  <2>8. PICK is : is = Plan!Minutes(OfTask(q, t.id))
    OBVIOUS
  <2>9. is = was + (end - begin) /\ was \in Int
    BY <1>6, <1>24, <2>1, <2>5, <2>6, <2>8
  <2>10. is + (at.left - minutes) = owed
    BY ONLY <1>3, <1>10, <1>12, <2>7, <2>9, minutes \in Nat \ {0}
  <2> QED
    BY <2>8, <2>10
<1>26. \A u \in U : u.id # t.id => OfTask(q, u.id) = OfTask(st, u.id)
  <2>1. ASSUME NEW u \in U, u.id # t.id PROVE OfTask(q, u.id) = OfTask(p, u.id)
    BY <1>6, <1>9, <2>1 DEF OfTask
  <2>2. ASSUME NEW u \in U, u.id # t.id PROVE OfTask(p, u.id) = OfTask(st, u.id)
    BY <1>1, <2>2 DEF Placing
  <2> QED
    BY <2>1, <2>2
<1>27. \A b \in OfTask(q, t.id) : b.ends + Pause <= end + Pause
  <2>1. ASSUME NEW b \in OfTask(p, t.id) PROVE b.ends + Pause <= end + Pause
    <3>1. b.ends + Pause <= begin /\ b.ends \in Int
      BY <1>14
    <3> QED
      BY <1>12, <1>13, <3>1
  <2>2. block.ends + Pause <= end + Pause
    BY <1>6, <1>13
  <2> QED
    BY <1>24, <2>1, <2>2
<1>28. end + Pause \in Nat /\ end + Pause >= floor /\ end + Pause >= at.from
  BY <1>10, <1>12, <1>13
<1>29. PICK free : free = end + Pause
  OBVIOUS
<1>30. next.plan = q /\ next.from = free /\ next.left = at.left - minutes /\ next.placed = TRUE
       /\ next = [plan |-> q, from |-> free, left |-> at.left - minutes, placed |-> TRUE]
  BY <1>9, <1>29
<1>31. t.earliest # None => free >= t.earliest
  <2>1. t.earliest # None => t.earliest \in Int /\ at.from >= t.earliest
    BY DEF Placing, AreTasks, IsTask
  <2> QED
    BY <1>10, <1>28, <1>29, <2>1
<1>32. \A d \in t.dependencies : free >= st.done[d]
  <2>1. ASSUME NEW d \in t.dependencies PROVE st.done[d] \in Int /\ at.from >= st.done[d]
    BY <1>8, <1>11 DEF Placing, Laid, DoneIs
  <2> QED
    BY <1>10, <1>28, <1>29, <2>1
<1>33. at.left - minutes \in Int
  BY <1>10
<1>34. Placing(next, t, U, floor, base, owed, st)
  BY <1>9, <1>11, <1>23, <1>25, <1>26, <1>27, <1>28, <1>29, <1>30, <1>31, <1>32, <1>33 DEF Placing
<1>35. OfTask(q, t.id) # {}
  BY <1>24
<1> QED
  BY <1>30, <1>34, <1>35

\* Finitely many things have finitely many images.
LEMMA ImageIs ==
  ASSUME NEW S, IsFiniteSet(S), NEW f
  PROVE  IsFiniteSet({f[x] : x \in S})
<1> DEFINE T == {f[x] : x \in S}
           g == [x \in S |-> f[x]]
<1>1. g \in [S -> T]
  OBVIOUS
<1>2. \A y \in T : \E x \in S : g[x] = y
  OBVIOUS
<1>3. g \in Surjection(S, T)
  <2> HIDE DEF T, g
  <2> QED
    BY <1>1, <1>2 DEF Surjection
<1> HIDE DEF g
<1> QED
  BY <1>3, FS_Surjection

\* A task none of whose sessions has been placed.
Fresh(st, t, U, floor, base) ==
  /\ Laid(st, U, floor, base)
  /\ t \in U /\ t \notin st.pending /\ t.id \notin DOMAIN st.done /\ t.dependencies \subseteq DOMAIN st.done
  /\ OfTask(st, t.id) = {} /\ Told(st, t.id) = {}

\* Where the first session of a task may start.
MayStart(from, t, floor, st) ==
  /\ from \in Nat /\ from >= floor
  /\ t.earliest # None => from >= t.earliest
  /\ \A d \in t.dependencies : from >= st.done[d]

LEMMA NoMinutes == Plan!Minutes({}) = 0
<1>1. IsFiniteSet({})
  BY FS_EmptySet
<1>2. PICK none : none = {}
  OBVIOUS
<1>3. PICK w : w = Length(none)
  OBVIOUS
<1>4. \A x \in none : w[x] \in Int
  BY <1>2
<1>5. Total(w, none) = 0
  BY <1>1, <1>2, <1>4, TotalTakes
<1>6. Plan!Minutes(none) = Total(Length(none), none)
  BY <1>1, <1>2, MinutesIs
<1> QED
  BY <1>2, <1>3, <1>5, <1>6

LEMMA PlacingBegins ==
  ASSUME NEW U, NEW t, NEW floor \in Nat, NEW base, NEW owed \in Int, NEW st, NEW from,
         Fresh(st, t, U, floor, base), MayStart(from, t, floor, st),
         NEW at, at = [plan |-> st, from |-> from, left |-> owed, placed |-> TRUE]
  PROVE  Placing(at, t, U, floor, base, owed, st)
<1>1. Plan!Minutes({}) = 0
  BY NoMinutes
<1>2. OfTask(st, t.id) = {} /\ Laid(st, U, floor, base)
  BY DEF Fresh
<1>3. Plan!Minutes(OfTask(st, t.id)) + owed = owed
  BY <1>1, <1>2
<1>4. at.plan = st /\ at.from = from /\ at.left = owed /\ at.placed = TRUE
  OBVIOUS
<1> QED
  BY <1>2, <1>3, <1>4 DEF Placing, MayStart

\* Not one session more.
LEMMA StopKeeps ==
  ASSUME NEW t, NEW U, NEW floor, NEW base, NEW owed, NEW st, NEW at, Placing(at, t, U, floor, base, owed, st),
         NEW next, next = [at EXCEPT !.placed = FALSE]
  PROVE  Placing(next, t, U, floor, base, owed, st) /\ next.placed = FALSE
<1>1. at = [plan |-> at.plan, from |-> at.from, left |-> at.left, placed |-> at.placed]
  BY DEF Placing
<1>2. next = [plan |-> at.plan, from |-> at.from, left |-> at.left, placed |-> FALSE]
  BY <1>1
<1>3. /\ next.plan = at.plan /\ next.from = at.from /\ next.left = at.left /\ next.placed = FALSE
      /\ next = [plan |-> next.plan, from |-> next.from, left |-> next.left, placed |-> next.placed]
  BY <1>2
<1> QED
  BY <1>3 DEF Placing

\* A session is placed, or the placing stops.
LEMMA SessionKeeps ==
  ASSUME NEW U, AreTasks(U), NEW t, NEW floor \in Nat, NEW base, NEW owed \in Int, NEW st,
         Fresh(st, t, U, floor, base), NEW at, Placing(at, t, U, floor, base, owed, st),
         NEW minutes \in Nat \ {0}, NEW index, NEW stable, NEW low, NEW next,
         next = Plan!PlaceSession(t, minutes, Plan!FeasibleStarts(t, minutes, at.from, floor, at.plan.occupied),
                                  index, stable, low, at)
  PROVE  /\ Placing(next, t, U, floor, base, owed, st)
         /\ next.placed => at.placed /\ next.left = at.left - minutes /\ OfTask(next.plan, t.id) # {}
<1>1. PICK starts : starts = Plan!FeasibleStarts(t, minutes, at.from, floor, at.plan.occupied)
  OBVIOUS
<1>2. at.from \in Nat /\ at.placed \in BOOLEAN
  BY DEF Placing
<1>3. t \in U /\ t \notin st.pending /\ t.id \notin DOMAIN st.done /\ t.dependencies \subseteq DOMAIN st.done
  BY DEF Fresh
<1>4. CASE ~at.placed \/ starts = {}
  <2>1. next = [at EXCEPT !.placed = FALSE]
    BY <1>1, <1>4 DEF Plan!PlaceSession
  <2>2. Placing(next, t, U, floor, base, owed, st) /\ next.placed = FALSE
    BY ONLY <2>1, Placing(at, t, U, floor, base, owed, st), StopKeeps
  <2> QED
    BY <2>2
<1>5. CASE at.placed /\ starts # {}
  <2>1. PICK begin : begin = Plan!Best(t, starts, minutes, index, stable, low, at.plan.occupied)
    OBVIOUS
  <2>2. next = Plan!PutSession(t, index, begin, minutes, stable, at)
    BY <1>1, <1>5, <2>1 DEF Plan!PlaceSession
  <2>3. IsFiniteSet(starts)
    BY <1>1, <1>2, FeasibleFinite
  <2>4. \A s \in starts : s \in Int
    BY <1>1, <1>2, FeasibleIs
  <2>5. IsTask(t)
    BY <1>3 DEF AreTasks
  <2>6. minutes \in Nat
    OBVIOUS
  <2>7. begin \in starts
    BY <1>5, <2>1, <2>3, <2>4, <2>5, <2>6, BestIs
  <2>8. begin \in Plan!FeasibleStarts(t, minutes, at.from, floor, at.plan.occupied)
    BY <1>1, <2>7
  <2>9. /\ Placing(next, t, U, floor, base, owed, st)
        /\ next.left = at.left - minutes
        /\ OfTask(next.plan, t.id) # {}
    BY ONLY <1>3, <2>2, <2>8, PutKeeps, AreTasks(U), floor \in Nat, owed \in Int, minutes \in Nat \ {0},
            Placing(at, t, U, floor, base, owed, st)
  <2> QED
    BY <1>5, <2>9
<1> QED
  BY <1>2, <1>4, <1>5

\* Told of a task that some minutes of it found no place.
SettledTask(st, id, owed) ==
  \/ Told(st, id) = {} /\ Plan!Minutes(OfTask(st, id)) = owed
  \/ \E m \in Int : \E c : /\ Told(st, id) = {c} /\ c.task = id /\ c.minutes = m /\ c.why # "dependency"
                           /\ Plan!Minutes(OfTask(st, id)) + m = owed

\* Of the other tasks nothing has changed.
OthersStay(next, st, t, U) ==
  \A u \in U : u.id # t.id => OfTask(next, u.id) = OfTask(st, u.id) /\ Told(next, u.id) = Told(st, u.id)

\* What the planner makes of a task: its sessions are laid, and its minutes accounted for.
Scheduled(next, st, t, U, floor, base, owed) ==
  /\ Laid(next, U, floor, base)
  /\ next.pending = st.pending
  /\ OthersStay(next, st, t, U)
  /\ SettledTask(next, t.id, owed)

\* What has been laid of a task ends by v.
EndsBy(st, id, v) == v \in Int /\ \A b \in OfTask(st, id) : b.ends <= v

\* Only that a task is done is new.
DoneAt(next, st, id, v) ==
  /\ next = [blocks |-> st.blocks, conflicts |-> st.conflicts, occupied |-> st.occupied,
             pending |-> st.pending, done |-> next.done]
  /\ DOMAIN next.done = DOMAIN st.done \union {id} /\ next.done[id] = v
  /\ \A d \in DOMAIN st.done : d # id => next.done[d] = st.done[d]

LEMMA DoneAtIs ==
  ASSUME NEW st, IsPlan(st), NEW id, NEW v, NEW next, next = [st EXCEPT !.done = Plan!With(@, id, v)]
  PROVE  DoneAt(next, st, id, v)
<1>1. PICK done : done = Plan!With(st.done, id, v)
  OBVIOUS
<1>2. /\ DOMAIN done = DOMAIN st.done \union {id} /\ done[id] = v
      /\ \A d \in DOMAIN st.done : d # id => done[d] = st.done[d]
  BY <1>1 DEF Plan!With, Plan!Over
<1>3. next = [blocks |-> st.blocks, conflicts |-> st.conflicts, occupied |-> st.occupied,
              pending |-> st.pending, done |-> done]
  BY <1>1 DEF IsPlan
<1>4. next.done = done
  BY <1>3
<1> QED
  BY <1>2, <1>3, <1>4 DEF DoneAt

\* A task is done, with what has been laid of it.
LEMMA DoneKeeps ==
  ASSUME NEW U, AreTasks(U), NEW t, t \in U, NEW floor, NEW base, NEW st, Laid(st, U, floor, base), t \notin st.pending,
         NEW v, EndsBy(st, t.id, v),
         NEW next, DoneAt(next, st, t.id, v)
  PROVE  /\ Laid(next, U, floor, base) /\ next.pending = st.pending
         /\ next.blocks = st.blocks /\ next.conflicts = st.conflicts
<1> DEFINE done == next.done
<1>1. /\ DOMAIN done = DOMAIN st.done \union {t.id} /\ done[t.id] = v
      /\ \A d \in DOMAIN st.done : d # t.id => done[d] = st.done[d]
  BY DEF DoneAt
<1>2. /\ next.blocks = st.blocks /\ next.conflicts = st.conflicts /\ next.pending = st.pending
      /\ next.occupied = st.occupied /\ IsPlan(next)
  BY DEF DoneAt, IsPlan
<1> HIDE DEF done
<1>3. BlocksFit(next, U, floor, base) /\ BlocksOccupy(next)
  BY <1>2 DEF Laid, BlocksFit, BlocksOccupy
<1>4. DoneIs(next)
  <2>1. DoneIs(st) /\ st.pending \subseteq U
    BY DEF Laid
  <2>2. \A d \in DOMAIN done : done[d] \in Int
    BY <1>1, <2>1 DEF DoneIs, EndsBy
  <2>3. \A u \in st.pending : u.id # t.id
    BY <2>1 DEF AreTasks
  <2>4. \A u \in st.pending : u.id \notin DOMAIN done
    BY <1>1, <2>1, <2>3 DEF DoneIs
  <2>5. ASSUME NEW b \in st.blocks, b.task \in DOMAIN done PROVE b.ends <= done[b.task]
    <3>1. CASE b.task = t.id
      BY <1>1, <3>1 DEF OfTask, EndsBy
    <3>2. CASE b.task # t.id
      BY <1>1, <2>1, <2>5, <3>2 DEF DoneIs
    <3> QED
      BY <3>1, <3>2
  <2> QED
    BY <1>2, <2>2, <2>4, <2>5 DEF DoneIs, done
<1>5. InOrder(next, U)
  <2>1. InOrder(st, U)
    BY DEF Laid
  <2> QED
    BY <1>1, <1>2, <2>1 DEF InOrder, done
<1> QED
  BY <1>2, <1>3, <1>4, <1>5 DEF Laid

\* A task's minutes find no place, all of them or what is left.
LEMMA UnscheduledKeeps ==
  ASSUME NEW U, AreTasks(U), NEW t \in U, NEW floor, NEW base, NEW st, Laid(st, U, floor, base), Told(st, t.id) = {},
         NEW left \in Int, NEW owed, Plan!Minutes(OfTask(st, t.id)) + left = owed,
         NEW why, why # "dependency",
         NEW next, next = Plan!Unscheduled(st, t.id, left, why)
  PROVE  Scheduled(next, st, t, U, floor, base, owed)
<1>1. IsPlan(st)
  BY DEF Laid
<1>2. PICK c : c = [task |-> t.id, minutes |-> left, why |-> why]
  OBVIOUS
<1>3. c.task = t.id /\ c.minutes = left /\ c.why # "dependency"
  BY <1>2
<1>4. /\ next.blocks = st.blocks /\ next.conflicts = st.conflicts \union {c} /\ next.pending = st.pending
      /\ next.occupied = st.occupied /\ next.done = st.done /\ IsPlan(next)
  <2>1. next = [blocks |-> st.blocks, conflicts |-> st.conflicts \union {c}, occupied |-> st.occupied,
                pending |-> st.pending, done |-> st.done]
    BY <1>1, <1>2 DEF IsPlan, Plan!Unscheduled
  <2> QED
    BY <2>1 DEF IsPlan
<1>5. Laid(next, U, floor, base)
  <2>1. BlocksFit(next, U, floor, base) /\ BlocksOccupy(next)
    BY <1>4 DEF Laid, BlocksFit, BlocksOccupy
  <2>2. DoneIs(next) /\ InOrder(next, U)
    BY <1>4 DEF Laid, DoneIs, InOrder
  <2> QED
    BY <1>4, <2>1, <2>2 DEF Laid
<1>6. OthersStay(next, st, t, U)
  BY <1>3, <1>4 DEF OthersStay, OfTask, Told
<1>7. Told(next, t.id) = {c} /\ OfTask(next, t.id) = OfTask(st, t.id)
  BY <1>3, <1>4 DEF Told, OfTask
<1>8. SettledTask(next, t.id, owed)
  BY <1>3, <1>7 DEF SettledTask
<1> QED
  BY <1>4, <1>5, <1>6, <1>8 DEF Scheduled

\* How the sessions of a task are placed, one after the other.
IsPlacing(after, n, t, sessions, from, floor, owed, stable, low, st) ==
  /\ after[0] = [plan |-> st, from |-> from, left |-> owed, placed |-> TRUE]
  /\ \A k \in 1 .. n : after[k] =
       Plan!PlaceSession(t, sessions[k], Plan!FeasibleStarts(t, sessions[k], after[k - 1].from, floor, after[k - 1].plan.occupied),
                         k, stable, low, after[k - 1])

LEMMA PlaceIs ==
  ASSUME NEW t, NEW sessions, NEW n \in Nat, Len(sessions) = n, NEW from, NEW floor, NEW owed, NEW stable, NEW low, NEW st
  PROVE  \E after : /\ IsPlacing(after, n, t, sessions, from, floor, owed, stable, low, st)
                    /\ Plan!Place(t, sessions, from, floor, owed, stable, low, st) = Plan!PlacedAll(t, after[n])
<1> DEFINE Next(k, at) == Plan!PlaceSession(t, sessions[k],
                            Plan!FeasibleStarts(t, sessions[k], at.from, floor, at.plan.occupied), k, stable, low, at)
           start == [plan |-> st, from |-> from, left |-> owed, placed |-> TRUE]
           Iter(m, f) == f = [k \in 0 .. m |-> IF k = 0 THEN start ELSE Next(k, f[k - 1])]
           after == CHOOSE f : Iter(Len(sessions), f)
           S == {k \in 0 .. n : \E f : Iter(k, f)}
<1>1. Plan!Place(t, sessions, from, floor, owed, stable, low, st) = Plan!PlacedAll(t, after[Len(sessions)])
  BY DEF Plan!Place
<1> HIDE DEF Next, start
<1>2. 0 \in S
  <2> DEFINE f == [k \in 0 .. 0 |-> start]
  <2>1. Iter(0, f)
    OBVIOUS
  <2> HIDE DEF Iter
  <2> QED
    BY <2>1
<1>3. ASSUME NEW k \in 1 .. n, k - 1 \in S PROVE k \in S
  <2>1. PICK f : Iter(k - 1, f)
    BY <1>3
  <2> DEFINE h == [i \in 0 .. k |-> IF i = k THEN Next(k, f[k - 1]) ELSE f[i]]
  <2>2. ASSUME NEW i \in 0 .. k PROVE h[i] = IF i = 0 THEN start ELSE Next(i, h[i - 1])
    <3>1. CASE i = k
      <4>1. h[k - 1] = f[k - 1] /\ k # 0
        OBVIOUS
      <4> QED
        BY <3>1, <4>1
    <3>2. CASE i # k
      <4>1. i \in 0 .. k - 1 /\ (i # 0 => i - 1 \in 0 .. k /\ i - 1 # k)
        BY <3>2
      <4>2. h[i] = f[i] /\ (i # 0 => h[i - 1] = f[i - 1])
        BY <3>2, <4>1
      <4>3. f[i] = IF i = 0 THEN start ELSE Next(i, f[i - 1])
        BY <2>1, <4>1
      <4> HIDE DEF h
      <4> QED
        BY <4>2, <4>3
    <3> QED
      BY <3>1, <3>2
  <2>3. Iter(k, h)
    <3>1. h = [i \in 0 .. k |-> h[i]]
      OBVIOUS
    <3> HIDE DEF h
    <3> QED
      BY <2>2, <3>1
  <2> HIDE DEF Iter, h
  <2> QED
    BY <2>3
<1>4. n \in S
  <2>1. n \in 0 .. n
    OBVIOUS
  <2> HIDE DEF S
  <2>2. 0 .. n \subseteq S
    BY <1>2, <1>3, CountUp
  <2> QED
    BY <2>1, <2>2
<1>5. Iter(n, after)
  <2>1. \E f : Iter(n, f)
    <3> HIDE DEF Iter
    <3> QED
      BY <1>4
  <2>2. after = CHOOSE f : Iter(n, f)
    OBVIOUS
  <2> HIDE DEF Iter, after
  <2> QED
    BY <2>1, <2>2
<1> HIDE DEF after, S
<1>6. after[0] = start /\ \A k \in 1 .. n : after[k] = Next(k, after[k - 1])
  BY <1>5
<1> HIDE DEF Iter
<1>7. IsPlacing(after, n, t, sessions, from, floor, owed, stable, low, st)
  BY <1>6 DEF IsPlacing, Next, start
<1> QED
  BY <1>1, <1>7

\* Every session of a task is placed, or what is left of it is told.
LEMMA PlaceKeeps ==
  ASSUME NEW U, AreTasks(U), NEW t, NEW floor \in Nat, NEW base, NEW owed \in Nat, NEW st,
         Fresh(st, t, U, floor, base), NEW from, MayStart(from, t, floor, st),
         NEW sessions, NEW n, NEW left, IsSplit(sessions, owed, n, left), NEW stable, NEW low,
         NEW next, next = Plan!Place(t, sessions, from, floor, owed, stable, low, st)
  PROVE  Scheduled(next, st, t, U, floor, base, owed)
<1>1. /\ n \in Nat \ {0} /\ Len(sessions) = n
      /\ \A i \in 1 .. n : sessions[i] \in Nat \ {0}
      /\ left[0] = owed /\ left[n] = 0
      /\ \A i \in 1 .. n : left[i] = left[i - 1] - sessions[i]
  BY DEF IsSplit
<1>2. PICK after : /\ IsPlacing(after, n, t, sessions, from, floor, owed, stable, low, st)
                   /\ next = Plan!PlacedAll(t, after[n])
  <2>1. n \in Nat
    BY <1>1
  <2> QED
    BY <1>1, <2>1, PlaceIs
<1>3. t \in U /\ t \notin st.pending /\ OfTask(st, t.id) = {} /\ Told(st, t.id) = {}
  BY DEF Fresh
<1> DEFINE S == {k \in 0 .. n : /\ Placing(after[k], t, U, floor, base, owed, st)
                                /\ after[k].placed => after[k].left = left[k] /\ (k # 0 => OfTask(after[k].plan, t.id) # {})}
<1>4. 0 \in S
  <2>1. after[0] = [plan |-> st, from |-> from, left |-> owed, placed |-> TRUE]
    BY <1>2 DEF IsPlacing
  <2>2. owed \in Int
    OBVIOUS
  <2>3. Placing(after[0], t, U, floor, base, owed, st)
    BY ONLY <2>1, <2>2, floor \in Nat, Fresh(st, t, U, floor, base), MayStart(from, t, floor, st), PlacingBegins
  <2>4. after[0].left = left[0]
    BY <1>1, <2>1
  <2> QED
    BY <1>1, <2>3, <2>4
<1>5. ASSUME NEW k \in 1 .. n, k - 1 \in S PROVE k \in S
  <2>1. PICK at : at = after[k - 1]
    OBVIOUS
  <2>2. PICK minutes : minutes = sessions[k]
    OBVIOUS
  <2>3. /\ Placing(at, t, U, floor, base, owed, st) /\ (at.placed => at.left = left[k - 1])
        /\ minutes \in Nat \ {0} /\ owed \in Int
    BY <1>1, <1>5, <2>1, <2>2
  <2>4. PICK new : new = after[k]
    OBVIOUS
  <2>5. new = Plan!PlaceSession(t, minutes, Plan!FeasibleStarts(t, minutes, at.from, floor, at.plan.occupied),
                                k, stable, low, at)
    BY <1>2, <2>1, <2>2, <2>4 DEF IsPlacing
  <2>6. /\ Placing(new, t, U, floor, base, owed, st)
        /\ new.placed => at.placed /\ new.left = at.left - minutes /\ OfTask(new.plan, t.id) # {}
    BY ONLY <2>3, <2>5, SessionKeeps, AreTasks(U), floor \in Nat, Fresh(st, t, U, floor, base)
  <2>7. new.placed => new.left = left[k]
    BY <1>1, <2>2, <2>3, <2>6
  <2>8. k \in 0 .. n
    BY <1>1
  <2> QED
    BY <2>4, <2>6, <2>7, <2>8
<1> HIDE DEF S
<1>6. n \in S
  <2>1. n \in Nat /\ n \in 0 .. n
    BY <1>1
  <2>2. 0 .. n \subseteq S
    BY <1>4, <1>5, <2>1, CountUp
  <2> QED
    BY <2>1, <2>2
<1>7. PICK at : at = after[n]
  OBVIOUS
<1>8. /\ Placing(at, t, U, floor, base, owed, st)
      /\ at.placed => at.left = 0 /\ OfTask(at.plan, t.id) # {}
  BY <1>1, <1>6, <1>7 DEF S
<1>9. PICK p : p = at.plan
  OBVIOUS
<1>10. /\ Laid(p, U, floor, base) /\ p.pending = st.pending /\ p.conflicts = st.conflicts
       /\ \A u \in U : u.id # t.id => OfTask(p, u.id) = OfTask(st, u.id)
       /\ at.left \in Int /\ Plan!Minutes(OfTask(p, t.id)) + at.left = owed
  BY <1>8, <1>9 DEF Placing
<1>11. OthersStay(p, st, t, U) /\ Told(p, t.id) = {} /\ t \notin p.pending
  BY <1>3, <1>10 DEF OthersStay, Told
<1>12. CASE at.placed
  <2>1. PICK mine : mine = OfTask(p, t.id)
    OBVIOUS
  <2> DEFINE ends == {b.ends : b \in mine}
  <2>2. IsFiniteSet(mine)
    <3>1. IsFiniteSet(p.blocks) /\ mine \subseteq p.blocks
      BY <1>10, <2>1 DEF Laid, OfTask
    <3> QED
      BY <3>1, FS_Subset
  <2>3. \A b \in mine : b.ends \in Int
    BY <1>10, <2>1 DEF Laid, BlocksFit, Fits, OfTask
  <2>4. IsFiniteSet(ends)
    <3> DEFINE f == [b \in mine |-> b.ends]
    <3>1. ends = {f[b] : b \in mine}
      OBVIOUS
    <3> HIDE DEF f, ends
    <3> QED
      BY <2>2, <3>1, ImageIs
  <2>5. ends # {} /\ ends \in SUBSET Int
    BY <1>8, <1>9, <1>12, <2>1, <2>3
  <2>6. PICK v : v = Plan!Max(ends)
    OBVIOUS
  <2>7. v \in ends /\ \A x \in ends : v >= x
    <3> HIDE DEF ends
    <3> QED
      BY <2>4, <2>5, <2>6, MaxIs
  <2>8. v \in Int /\ \A b \in mine : b.ends <= v
    BY <2>3, <2>7
  <2>9. IsPlan(p)
    BY <1>10 DEF Laid
  <2>10. next = [p EXCEPT !.done = Plan!With(@, t.id, v)]
    BY <1>2, <1>7, <1>9, <1>12, <2>1, <2>6 DEF Plan!PlacedAll, OfTask
  <2>11. DoneAt(next, p, t.id, v)
    BY ONLY <2>9, <2>10, DoneAtIs
  <2>12. EndsBy(p, t.id, v)
    BY <2>1, <2>8 DEF EndsBy
  <2>13. /\ Laid(next, U, floor, base) /\ next.pending = p.pending
         /\ next.blocks = p.blocks /\ next.conflicts = p.conflicts
    <3>1. t \in U /\ Laid(p, U, floor, base) /\ t \notin p.pending
      BY <1>3, <1>10, <1>11
    <3> QED
      BY ONLY <2>11, <2>12, <3>1, DoneKeeps, AreTasks(U)
  <2>14. OthersStay(next, st, t, U) /\ Told(next, t.id) = {} /\ OfTask(next, t.id) = OfTask(p, t.id)
    BY <1>11, <2>13 DEF OthersStay, Told, OfTask
  <2>15. Plan!Minutes(OfTask(p, t.id)) = owed
    <3>1. PICK q : q = Plan!Minutes(OfTask(p, t.id))
      OBVIOUS
    <3>2. at.left = 0 /\ q + at.left = owed
      BY <1>8, <1>10, <1>12, <3>1
    <3>3. q \in Int
      <4>1. \A b \in mine : b.starts \in Int /\ b.ends \in Int
        BY <1>10, <2>1 DEF Laid, BlocksFit, Fits, OfTask
      <4>2. PICK w : w = Length(mine)
        OBVIOUS
      <4>3. \A b \in mine : w[b] \in Int
        BY <4>1, <4>2 DEF Length
      <4>4. Total(w, mine) \in Int
        BY <2>2, <4>3, TotalTakes
      <4> QED
        BY <2>1, <2>2, <3>1, <4>2, <4>4, MinutesIs
    <3> QED
      BY <3>1, <3>2, <3>3
  <2> QED
    BY <1>10, <2>13, <2>14, <2>15 DEF Scheduled, SettledTask
<1>13. CASE ~at.placed
  <2>1. next = Plan!Unscheduled(p, t.id, at.left, "capacity")
    BY <1>2, <1>7, <1>9, <1>13 DEF Plan!PlacedAll
  <2>2. PICK why : why = "capacity"
    OBVIOUS
  <2>3. why # "dependency" /\ next = Plan!Unscheduled(p, t.id, at.left, why)
    BY <2>1, <2>2
  <2>4. PICK rest : rest = at.left
    OBVIOUS
  <2>5. Scheduled(next, p, t, U, floor, base, owed)
    BY ONLY <1>3, <1>10, <1>11, <2>3, <2>4, UnscheduledKeeps, AreTasks(U)
  <2> QED
    BY <1>10, <1>11, <2>5 DEF Scheduled, OthersStay
<1> QED
  BY <1>12, <1>13

-----------------------------------------------------------------------------
(* The tasks, one after the other *)

\* The blocks of the last plan.
AreBlocks(existing) == IsFiniteSet(existing) /\ \A b \in existing : b.starts \in Int /\ b.ends \in Int

\* The minutes of a task that no kept block stands for.
Owed(existing, t, floor) == Plan!Later(t.duration - Plan!PreservedMinutes(existing, t.id, floor), 0)

\* Of the pending tasks nothing is laid or told, and the minutes of the others are accounted for.
Accounted(st, U, existing, floor) ==
  \A t \in U : /\ t \in st.pending => OfTask(st, t.id) = {} /\ Told(st, t.id) = {}
               /\ t \notin st.pending => SettledTask(st, t.id, Owed(existing, t, floor))

Planned(st, U, existing, floor, base) ==
  Laid(st, U, floor, base) /\ Accounted(st, U, existing, floor)

LEMMA OwedIs ==
  ASSUME NEW existing, AreBlocks(existing), NEW t, IsTask(t), NEW floor
  PROVE  Owed(existing, t, floor) \in Nat
<1>1. PICK kept : kept = {b \in existing : b.task = t.id /\ (b.completed \/ (b.locked /\ b.ends > floor))}
  OBVIOUS
<1>2. IsFiniteSet(kept) /\ \A b \in kept : b.starts \in Int /\ b.ends \in Int
  <2>1. kept \subseteq existing
    BY <1>1
  <2> QED
    BY <2>1, FS_Subset DEF AreBlocks
<1>3. PICK w : w = Length(kept)
  OBVIOUS
<1>4. \A b \in kept : w[b] \in Int
  BY <1>2, <1>3 DEF Length
<1>5. Total(w, kept) \in Int
  BY <1>2, <1>4, TotalTakes
<1>6. Plan!Minutes(kept) = Total(w, kept)
  BY <1>2, <1>3, MinutesIs
<1>7. Plan!PreservedMinutes(existing, t.id, floor) = Plan!Minutes(kept)
  BY <1>1 DEF Plan!PreservedMinutes
<1>8. PICK m : m = Plan!PreservedMinutes(existing, t.id, floor)
  OBVIOUS
<1>9. m \in Int /\ t.duration \in Int
  BY <1>5, <1>6, <1>7, <1>8 DEF IsTask
<1>10. PICK rest : rest = t.duration - m
  OBVIOUS
<1>11. rest \in Int
  BY <1>9, <1>10
<1>12. Plan!Later(rest, 0) \in Nat
  BY <1>11, LaterIs
<1> QED
  BY <1>8, <1>10, <1>12 DEF Owed

\* A pending task is taken up.
LEMMA TakenIs ==
  ASSUME NEW U, AreTasks(U), NEW floor, NEW base, NEW st, Laid(st, U, floor, base), NEW t, t \in st.pending,
         t.dependencies \subseteq DOMAIN st.done, OfTask(st, t.id) = {}, Told(st, t.id) = {},
         NEW taken, taken = [st EXCEPT !.pending = @ \ {t}]
  PROVE  /\ Fresh(taken, t, U, floor, base)
         /\ taken.pending = st.pending \ {t} /\ taken.blocks = st.blocks /\ taken.conflicts = st.conflicts
         /\ taken.done = st.done
<1>1. /\ taken.blocks = st.blocks /\ taken.conflicts = st.conflicts /\ taken.pending = st.pending \ {t}
      /\ taken.occupied = st.occupied /\ taken.done = st.done /\ IsPlan(taken)
  <2>1. IsPlan(st)
    BY DEF Laid
  <2>2. taken = [blocks |-> st.blocks, conflicts |-> st.conflicts, occupied |-> st.occupied,
                 pending |-> st.pending \ {t}, done |-> st.done]
    BY <2>1 DEF IsPlan
  <2> QED
    BY <2>2 DEF IsPlan
<1>2. BlocksFit(taken, U, floor, base) /\ BlocksOccupy(taken)
  BY <1>1 DEF Laid, BlocksFit, BlocksOccupy
<1>3. DoneIs(taken) /\ InOrder(taken, U)
  BY <1>1 DEF Laid, DoneIs, InOrder
<1>4. Laid(taken, U, floor, base)
  BY <1>1, <1>2, <1>3 DEF Laid
<1>5. t \in U /\ t.id \notin DOMAIN st.done
  BY DEF Laid, DoneIs
<1>6. OfTask(taken, t.id) = {} /\ Told(taken, t.id) = {}
  BY <1>1 DEF OfTask, Told
<1> QED
  BY <1>1, <1>4, <1>5, <1>6 DEF Fresh

LEMMA MayStartIs ==
  ASSUME NEW U, AreTasks(U), NEW floor \in Nat, NEW base, NEW st, NEW t, Fresh(st, t, U, floor, base),
         NEW from, from = Plan!Max({floor, IF t.earliest = None THEN floor ELSE t.earliest}
                                     \union {st.done[d] : d \in t.dependencies})
  PROVE  MayStart(from, t, floor, st)
<1>1. IsTask(t) /\ t.dependencies \subseteq DOMAIN st.done /\ \A d \in DOMAIN st.done : st.done[d] \in Int
  BY DEF Fresh, AreTasks, Laid, DoneIs
<1>2. PICK earliest : earliest = IF t.earliest = None THEN floor ELSE t.earliest
  OBVIOUS
<1>3. earliest \in Int
  BY <1>1, <1>2 DEF IsTask
<1>4. PICK done : done = st.done
  OBVIOUS
<1>5. PICK ends : ends = {done[d] : d \in t.dependencies}
  OBVIOUS
<1>6. IsFiniteSet(ends)
  <2>1. PICK ds : ds = t.dependencies
    OBVIOUS
  <2>2. IsFiniteSet(ds)
    BY <1>1, <2>1 DEF IsTask
  <2> QED
    BY <1>5, <2>1, <2>2, ImageIs
<1>7. PICK all : all = (ends \union {floor}) \union {earliest}
  OBVIOUS
<1>8. IsFiniteSet(all)
  <2>1. IsFiniteSet(ends \union {floor})
    BY <1>6, FS_AddElement
  <2> QED
    BY <1>7, <2>1, FS_AddElement
<1>9. all \in SUBSET Int /\ all # {}
  BY <1>1, <1>3, <1>4, <1>5, <1>7
<1>10. from = Plan!Max(all)
  <2>1. all = {floor, earliest} \union ends
    BY <1>7
  <2> QED
    BY <1>2, <1>4, <1>5, <2>1
<1>11. from \in all /\ \A x \in all : from >= x
  BY <1>8, <1>9, <1>10, MaxIs
<1>12. from \in Nat /\ from >= floor /\ from >= earliest
  <2>1. from \in Int /\ from >= floor /\ from >= earliest
    BY <1>7, <1>9, <1>11
  <2> QED
    BY <2>1
<1>13. \A d \in t.dependencies : from >= st.done[d]
  BY <1>4, <1>5, <1>7, <1>11
<1> QED
  BY <1>2, <1>12, <1>13 DEF MayStart

\* One task is scheduled.
LEMMA ScheduleKeeps ==
  ASSUME NEW U, AreTasks(U), NEW existing, AreBlocks(existing), NEW floor \in Nat, NEW base, NEW st,
         Planned(st, U, existing, floor, base), NEW t, t \in st.pending, t.dependencies \subseteq DOMAIN st.done,
         NEW low, NEW next, next = Plan!Schedule(t, existing, floor, low, st)
  PROVE  Planned(next, U, existing, floor, base) /\ next.pending = st.pending \ {t}
<1>1. Laid(st, U, floor, base) /\ t \in U /\ OfTask(st, t.id) = {} /\ Told(st, t.id) = {}
  BY DEF Planned, Accounted, Laid
<1>2. IsTask(t)
  BY <1>1 DEF AreTasks
<1>3. PICK remaining : remaining = Plan!Later(t.duration - Plan!PreservedMinutes(existing, t.id, floor), 0)
  OBVIOUS
<1>4. remaining \in Nat /\ remaining = Owed(existing, t, floor)
  BY <1>2, <1>3, OwedIs DEF Owed
<1>5. PICK sessions : sessions = Plan!SplitSessions(t, remaining)
  OBVIOUS
<1>6. PICK taken : taken = [st EXCEPT !.pending = @ \ {t}]
  OBVIOUS
<1>7. /\ Fresh(taken, t, U, floor, base)
      /\ taken.pending = st.pending \ {t} /\ taken.blocks = st.blocks /\ taken.conflicts = st.conflicts
      /\ taken.done = st.done
  BY ONLY AreTasks(U), <1>1, <1>6, TakenIs, t \in st.pending, t.dependencies \subseteq DOMAIN st.done
<1>8. PICK from : from = Plan!Max({floor, IF t.earliest = None THEN floor ELSE t.earliest}
                                    \union {st.done[d] : d \in t.dependencies})
  OBVIOUS
<1>9. MayStart(from, t, floor, taken)
  <2>1. from = Plan!Max({floor, IF t.earliest = None THEN floor ELSE t.earliest}
                          \union {taken.done[d] : d \in t.dependencies})
    BY <1>7, <1>8
  <2> QED
    BY ONLY AreTasks(U), floor \in Nat, <1>7, <2>1, MayStartIs
<1>10. /\ Laid(taken, U, floor, base) /\ OfTask(taken, t.id) = {} /\ Told(taken, t.id) = {}
       /\ t \notin taken.pending
  BY <1>7 DEF Fresh
<1>11. Scheduled(next, taken, t, U, floor, base, remaining)
  <2>1. CASE remaining = 0
    <3>1. next = [taken EXCEPT !.done = Plan!With(@, t.id, floor)]
      BY <1>3, <1>6, <2>1 DEF Plan!Schedule
    <3>2. IsPlan(taken)
      BY <1>10 DEF Laid
    <3>3. DoneAt(next, taken, t.id, floor)
      BY ONLY <3>1, <3>2, DoneAtIs
    <3>4. EndsBy(taken, t.id, floor)
      BY <1>10 DEF EndsBy
    <3>5. /\ Laid(next, U, floor, base) /\ next.pending = taken.pending
          /\ next.blocks = taken.blocks /\ next.conflicts = taken.conflicts
      BY ONLY AreTasks(U), <1>1, <1>10, <3>3, <3>4, DoneKeeps
    <3>6. OfTask(next, t.id) = {} /\ Told(next, t.id) = {} /\ OthersStay(next, taken, t, U)
      BY <1>10, <3>5 DEF OfTask, Told, OthersStay
    <3>7. Plan!Minutes(OfTask(next, t.id)) = remaining
      BY <2>1, <3>6, NoMinutes
    <3> QED
      BY <3>5, <3>6, <3>7 DEF Scheduled, SettledTask
  <2>2. CASE remaining > 0 /\ sessions = <<>>
    <3>1. next = Plan!Unscheduled(taken, t.id, remaining, "limits")
      BY <1>3, <1>4, <1>5, <1>6, <2>2 DEF Plan!Schedule
    <3>2. PICK why : why = "limits"
      OBVIOUS
    <3>3. why # "dependency" /\ next = Plan!Unscheduled(taken, t.id, remaining, why)
      BY <3>1, <3>2
    <3>4. Plan!Minutes(OfTask(taken, t.id)) + remaining = remaining /\ remaining \in Int
      BY <1>4, <1>10, NoMinutes
    <3> QED
      BY ONLY AreTasks(U), <1>1, <1>10, <3>3, <3>4, UnscheduledKeeps
  <2>3. CASE remaining > 0 /\ sessions # <<>>
    <3>1. PICK stable : stable = Plan!Stable(existing, t.id)
      OBVIOUS
    <3>2. next = Plan!Place(t, sessions, from, floor, remaining, stable, low, taken)
      BY <1>3, <1>4, <1>5, <1>6, <1>7, <1>8, <2>3, <3>1 DEF Plan!Schedule
    <3>3. \E n, left : IsSplit(sessions, remaining, n, left)
      <4>1. t.max \in Int /\ t.min \in Int /\ remaining \in Nat \ {0}
        BY <1>2, <1>4, <2>3 DEF IsTask
      <4> QED
        BY <1>5, <2>3, <4>1, SplitIs
    <3>4. PICK n, left : IsSplit(sessions, remaining, n, left)
      BY <3>3
    <3> QED
      BY ONLY AreTasks(U), floor \in Nat, <1>4, <1>7, <1>9, <3>2, <3>4, PlaceKeeps
  <2> QED
    BY <1>4, <2>1, <2>2, <2>3
<1>12. Laid(next, U, floor, base) /\ next.pending = st.pending \ {t}
  BY <1>7, <1>11 DEF Scheduled
<1>13. Accounted(next, U, existing, floor)
  <2>1. Accounted(st, U, existing, floor)
    BY DEF Planned
  <2>2. ASSUME NEW u \in U, u # t
        PROVE  OfTask(next, u.id) = OfTask(st, u.id) /\ Told(next, u.id) = Told(st, u.id)
    <3>1. u.id # t.id
      BY <1>1, <2>2 DEF AreTasks
    <3>2. OfTask(next, u.id) = OfTask(taken, u.id) /\ Told(next, u.id) = Told(taken, u.id)
      BY <1>11, <3>1 DEF Scheduled, OthersStay
    <3> QED
      BY <1>7, <3>2 DEF OfTask, Told
  <2>3. ASSUME NEW u \in U, u # t
        PROVE  /\ u \in next.pending => OfTask(next, u.id) = {} /\ Told(next, u.id) = {}
               /\ u \notin next.pending => SettledTask(next, u.id, Owed(existing, u, floor))
    BY <1>12, <2>1, <2>2, <2>3 DEF Accounted, SettledTask
  <2>4. t \notin next.pending /\ SettledTask(next, t.id, Owed(existing, t, floor))
    BY <1>4, <1>11, <1>12 DEF Scheduled
  <2> QED
    BY <2>3, <2>4 DEF Accounted
<1> QED
  BY <1>12, <1>13 DEF Planned

\* The first of the tasks that are ready is scheduled, if there is one.
LEMMA ScheduleFirstKeeps ==
  ASSUME NEW U, AreTasks(U), NEW existing, AreBlocks(existing), NEW floor \in Nat, NEW base, NEW st,
         Planned(st, U, existing, floor, base), NEW low,
         NEW next, next = Plan!ScheduleFirst(existing, floor, low, st)
  PROVE  Planned(next, U, existing, floor, base)
<1>1. PICK ready : ready = Plan!Ready(st)
  OBVIOUS
<1>2. CASE ready = {}
  BY <1>1, <1>2 DEF Plan!ScheduleFirst
<1>3. CASE ready # {}
  <2>1. ready \subseteq U /\ \A t \in ready : t \in st.pending /\ t.dependencies \subseteq DOMAIN st.done
    BY <1>1 DEF Plan!Ready, Planned, Laid
  <2>2. IsFiniteSet(ready)
    <3>1. IsFiniteSet(U)
      BY DEF AreTasks
    <3> QED
      BY <2>1, <3>1, FS_Subset
  <2>3. /\ \A t \in ready : IsTask(t)
        /\ \A t, other \in ready : t.id = other.id => t = other
    BY <2>1 DEF AreTasks
  <2>4. \E t \in ready : \A other \in ready \ {t} : Plan!Precedes(Plan!TaskKey(t), Plan!TaskKey(other))
    BY ONLY <1>3, <2>2, <2>3, FirstIs
  <2>5. PICK first : first = CHOOSE t \in ready : \A other \in ready \ {t} : Plan!Precedes(Plan!TaskKey(t), Plan!TaskKey(other))
    OBVIOUS
  <2>6. first \in ready
    BY ONLY <2>4, <2>5
  <2>7. next = Plan!Schedule(first, existing, floor, low, st)
    BY <1>1, <1>3, <2>5 DEF Plan!ScheduleFirst
  <2>8. first \in st.pending /\ first.dependencies \subseteq DOMAIN st.done
    BY <2>1, <2>6
  <2> QED
    BY ONLY <2>7, <2>8, ScheduleKeeps, AreTasks(U), AreBlocks(existing), floor \in Nat, Planned(st, U, existing, floor, base)
<1> QED
  BY <1>2, <1>3

LEMMA PlanCounts == \A S : Plan!Cardinality(S) = Cardinality(S)
  BY Zenon DEF Plan!Cardinality, Cardinality

\* As many tasks are scheduled as there are.
LEMMA PlanKeeps ==
  ASSUME NEW U, AreTasks(U), NEW existing, AreBlocks(existing), NEW floor, floor \in Nat, NEW base, NEW st,
         Planned(st, U, existing, floor, base), NEW low
  PROVE  \E last : /\ Planned(last, U, existing, floor, base)
                   /\ Plan!Plan(existing, floor, low, st) = Plan!Waiting(last)
<1> DEFINE Next(at) == Plan!ScheduleFirst(existing, floor, low, at)
           Iter(m, f) == f = [k \in 0 .. m |-> IF k = 0 THEN st ELSE Next(f[k - 1])]
           n == Plan!Cardinality(st.pending)
           after == CHOOSE f : Iter(n, f)
           S == {k \in 0 .. n : \E f : Iter(k, f)}
<1>1. Plan!Plan(existing, floor, low, st) = Plan!Waiting(after[n])
  BY DEF Plan!Plan
<1>2. n \in Nat
  <2>1. IsFiniteSet(U) /\ st.pending \subseteq U
    BY DEF AreTasks, Planned, Laid
  <2>2. Cardinality(st.pending) \in Nat
    BY <2>1, FS_Subset, FS_CardinalityType
  <2> QED
    BY <2>2, PlanCounts
<1> HIDE DEF Next, n
<1>3. 0 \in S
  <2> DEFINE f == [k \in 0 .. 0 |-> st]
  <2>1. Iter(0, f)
    OBVIOUS
  <2> HIDE DEF Iter
  <2> QED
    BY <1>2, <2>1
<1>4. ASSUME NEW k \in 1 .. n, k - 1 \in S PROVE k \in S
  <2>1. PICK f : Iter(k - 1, f)
    BY <1>4
  <2> DEFINE h == [i \in 0 .. k |-> IF i = k THEN Next(f[k - 1]) ELSE f[i]]
  <2>2. ASSUME NEW i \in 0 .. k PROVE h[i] = IF i = 0 THEN st ELSE Next(h[i - 1])
    <3>1. CASE i = k
      <4>1. h[k - 1] = f[k - 1] /\ k # 0
        BY <1>2
      <4> QED
        BY <3>1, <4>1
    <3>2. CASE i # k
      <4>1. i \in 0 .. k - 1 /\ (i # 0 => i - 1 \in 0 .. k /\ i - 1 # k)
        BY <1>2, <3>2
      <4>2. h[i] = f[i] /\ (i # 0 => h[i - 1] = f[i - 1])
        BY <3>2, <4>1
      <4>3. f[i] = IF i = 0 THEN st ELSE Next(f[i - 1])
        BY <2>1, <4>1
      <4> HIDE DEF h
      <4> QED
        BY <4>2, <4>3
    <3> QED
      BY <3>1, <3>2
  <2>3. Iter(k, h)
    <3>1. h = [i \in 0 .. k |-> h[i]]
      OBVIOUS
    <3> HIDE DEF h
    <3> QED
      BY <2>2, <3>1
  <2>4. k \in 0 .. n
    BY <1>2
  <2> HIDE DEF Iter, h
  <2> QED
    BY <2>3, <2>4
<1>5. n \in S
  <2>1. n \in 0 .. n
    BY <1>2
  <2> HIDE DEF S
  <2>2. 0 .. n \subseteq S
    BY <1>2, <1>3, <1>4, CountUp
  <2> QED
    BY <2>1, <2>2
<1>6. Iter(n, after)
  <2>1. \E f : Iter(n, f)
    <3> HIDE DEF Iter
    <3> QED
      BY <1>5
  <2>2. after = CHOOSE f : Iter(n, f)
    OBVIOUS
  <2> HIDE DEF Iter, after
  <2> QED
    BY <2>1, <2>2
<1> HIDE DEF after, S
<1>7. after[0] = st /\ \A k \in 1 .. n : after[k] = Next(after[k - 1])
  BY <1>2, <1>6
<1> HIDE DEF Iter
<1> DEFINE T == {k \in 0 .. n : Planned(after[k], U, existing, floor, base)}
<1>8. 0 \in T
  BY <1>2, <1>7
<1>9. ASSUME NEW k \in 1 .. n, k - 1 \in T PROVE k \in T
  <2>1. PICK was : was = after[k - 1]
    OBVIOUS
  <2>2. PICK is : is = after[k]
    OBVIOUS
  <2>3. Planned(was, U, existing, floor, base)
    BY <1>9, <2>1
  <2>4. is = Plan!ScheduleFirst(existing, floor, low, was)
    BY <1>7, <2>1, <2>2 DEF Next
  <2>5. Planned(is, U, existing, floor, base)
    BY ONLY <2>3, <2>4, ScheduleFirstKeeps, AreTasks(U), AreBlocks(existing), floor \in Nat
  <2>6. k \in 0 .. n
    BY <1>2
  <2> QED
    BY <2>2, <2>5, <2>6
<1>10. n \in T
  <2>1. n \in 0 .. n
    BY <1>2
  <2> HIDE DEF T
  <2>2. 0 .. n \subseteq T
    BY <1>2, <1>8, <1>9, CountUp
  <2> QED
    BY <2>1, <2>2
<1> QED
  BY <1>1, <1>10

LEMMA NoneMissing == Plan!MissingMinutes({}) = 0
<1>1. IsFiniteSet({})
  BY FS_EmptySet
<1>2. PICK none : none = {}
  OBVIOUS
<1>3. PICK w : w = Missed(none)
  OBVIOUS
<1>4. \A x \in none : w[x] \in Int
  BY <1>2
<1>5. Total(w, none) = 0
  BY <1>1, <1>2, <1>4, TotalTakes
<1>6. Plan!MissingMinutes(none) = Total(Missed(none), none)
  BY <1>1, <1>2, MissingIs
<1> QED
  BY <1>2, <1>3, <1>5, <1>6

LEMMA OneMissing ==
  ASSUME NEW c, c.minutes \in Int
  PROVE  Plan!MissingMinutes({c}) = c.minutes
<1>1. PICK one : one = {c}
  OBVIOUS
<1>2. IsFiniteSet(one) /\ c \in one
  BY <1>1, FS_Singleton
<1>3. PICK w : w = Missed(one)
  OBVIOUS
<1>4. w[c] = c.minutes /\ \A x \in one : w[x] \in Int
  BY <1>1, <1>3 DEF Missed
<1>5. PICK none : none = {}
  OBVIOUS
<1>6. one \ {c} = none
  BY <1>1, <1>5
<1>7. Total(w, none) = 0
  <2>1. IsFiniteSet(none) /\ \A x \in none : w[x] \in Int
    BY <1>5, FS_EmptySet
  <2> QED
    BY <1>5, <2>1, TotalTakes
<1>8. Total(w, one) = w[c] + Total(w, one \ {c})
  BY <1>2, <1>4, TotalTakes
<1>9. PICK v : v = w[c]
  OBVIOUS
<1>10. Total(w, one) = v + 0 /\ v \in Int
  BY <1>4, <1>6, <1>7, <1>8, <1>9
<1>11. Plan!MissingMinutes(one) = Total(Missed(one), one)
  BY <1>2, MissingIs
<1> QED
  BY <1>1, <1>3, <1>4, <1>9, <1>10, <1>11

-----------------------------------------------------------------------------
(* What a session that fits keeps clear of *)

\* A moment of a session is in no night.
LEMMA NoNight ==
  ASSUME NEW floor \in Nat, NEW s \in Int, NEW e \in Int, s >= floor, e <= Plan!HorizonEnd(floor),
         \A item \in Plan!SleepIntervals(floor) : ~Plan!Overlap(s, e, item),
         NEW time \in Int, s <= time, time < e,
         NEW d \in floor \div PlanDay - 1 .. floor \div PlanDay + HorizonDays, NEW begins \in Int, NEW ends \in Int,
         begins = Plan!LocalTime(d, SleepStart),
         ends = Plan!LocalTime(IF SleepEnd <= SleepStart THEN d + 1 ELSE d, SleepEnd)
  PROVE  ~(begins <= time /\ time < ends)
<1> SUFFICES ASSUME begins <= time, time < ends PROVE FALSE
  OBVIOUS
<1>1. PICK last : last = Plan!HorizonEnd(floor)
  OBVIOUS
<1>2. last \in Nat
  BY <1>1, HorizonIs
<1>3. PICK from : from = Plan!Later(begins, floor)
  OBVIOUS
<1>4. from \in {begins, floor}
  BY <1>3, LaterIs
<1>5. PICK to : to = Plan!Min({ends, last})
  OBVIOUS
<1>6. to = IF ends <= last THEN ends ELSE last
  BY <1>2, <1>5, MinOfTwo
<1>7. from <= time /\ time < to /\ from \in Int /\ to \in Int
  BY <1>1, <1>2, <1>4, <1>6
<1>8. PICK item : item = Plan!Occupied(from, to, Plan!Sleep, 0)
  OBVIOUS
<1>9. item.start = from /\ item.end = to
  BY <1>8 DEF Plan!Occupied
<1>10. item.end > item.start
  BY <1>7, <1>9
<1>11. item \in Plan!SleepIntervals(floor)
  BY <1>1, <1>3, <1>5, <1>8, <1>10 DEF Plan!SleepIntervals, Plan!MorningAfter
<1>12. s < item.end /\ e > item.start
  BY <1>7, <1>9
<1> QED
  BY <1>11, <1>12 DEF Plan!Overlap

\* A session is in the waking hours of its days.
LEMMA AwakeIs ==
  ASSUME NEW floor \in Nat, NEW s \in Int, NEW e \in Int, s >= floor, e <= Plan!HorizonEnd(floor),
         \A item \in Plan!SleepIntervals(floor) : ~Plan!Overlap(s, e, item),
         NEW time \in s .. e - 1
  PROVE  IF SleepStart < SleepEnd THEN time % PlanDay \notin SleepStart .. SleepEnd - 1
                                  ELSE time % PlanDay \in SleepEnd .. SleepStart - 1
<1>1. /\ PlanDay \in Nat \ {0} /\ HorizonDays \in Nat
      /\ SleepStart \in 0 .. PlanDay - 1 /\ SleepEnd \in 0 .. PlanDay - 1
  BY PlanAssumption
<1>2. time \in Nat /\ s <= time /\ time < e
  OBVIOUS
<1>3. PICK day : day = time \div PlanDay
  OBVIOUS
<1>4. PICK r : r = time % PlanDay
  OBVIOUS
<1>5. day \in Int /\ r \in Int /\ time = PlanDay * day + r /\ 0 <= r /\ r < PlanDay
  BY <1>1, <1>2, <1>3, <1>4, Division
<1>6. PICK first : first = floor \div PlanDay
  OBVIOUS
<1>7. PICK at : at = floor % PlanDay
  OBVIOUS
<1>8. first \in Int /\ at \in Int /\ floor = PlanDay * first + at /\ 0 <= at /\ at < PlanDay
  BY <1>1, <1>6, <1>7, Division
<1>9. time < floor + HorizonDays * PlanDay
  <2>1. PICK last : last = HorizonDays * PlanDay
    OBVIOUS
  <2>2. last \in Int
    BY <1>1, <2>1
  <2>3. e <= floor + last
    BY <2>1 DEF Plan!HorizonEnd
  <2>4. time < floor + last
    BY <1>2, <2>2, <2>3
  <2> QED
    BY <2>1, <2>4
<1>10. day >= first
  <2>1. CASE day < first
    <3>1. PlanDay * (day + 1) <= PlanDay * first /\ PlanDay * (day + 1) = PlanDay * day + PlanDay
      BY <1>1, <1>5, <1>8, <2>1
    <3>2. PlanDay * day \in Int /\ PlanDay * first \in Int
      BY <1>1, <1>5, <1>8
    <3> QED
      BY <1>1, <1>2, <1>5, <1>8, <3>1, <3>2
  <2> QED
    BY <1>5, <1>8, <2>1
<1>11. day <= first + HorizonDays
  <2>1. CASE day > first + HorizonDays
    <3>1. PlanDay * (first + HorizonDays + 1) <= PlanDay * day
      BY <1>1, <1>5, <1>8, <2>1
    <3>2. PlanDay * (first + HorizonDays + 1) = PlanDay * first + HorizonDays * PlanDay + PlanDay
      BY <1>1, <1>8
    <3>3. PlanDay * day \in Int /\ PlanDay * first \in Int /\ HorizonDays * PlanDay \in Int
      BY <1>1, <1>5, <1>8
    <3> QED
      BY <1>1, <1>5, <1>8, <1>9, <3>1, <3>2, <3>3
  <2> QED
    BY <1>1, <1>5, <1>8, <2>1
<1>12. day \in first - 1 .. first + HorizonDays /\ day - 1 \in first - 1 .. first + HorizonDays
  BY <1>1, <1>5, <1>8, <1>10, <1>11
<1>13. PICK whole : whole = PlanDay * day
  OBVIOUS
<1>14. /\ whole \in Int /\ day * PlanDay = whole /\ (day + 1) * PlanDay = whole + PlanDay /\ (day - 1) * PlanDay = whole - PlanDay
       /\ time = whole + r
  BY <1>1, <1>5, <1>13
<1>15. ASSUME NEW d, d \in first - 1 .. first + HorizonDays, NEW begins, begins \in Int, NEW ends, ends \in Int,
              begins = Plan!LocalTime(d, SleepStart),
              ends = Plan!LocalTime(IF SleepEnd <= SleepStart THEN d + 1 ELSE d, SleepEnd)
       PROVE  ~(begins <= time /\ time < ends)
  <2>1. d \in floor \div PlanDay - 1 .. floor \div PlanDay + HorizonDays
    BY <1>6, <1>15
  <2>2. time \in Int
    BY <1>2
  <2> QED
    BY <1>2, <1>15, <2>1, <2>2, NoNight
<1>16. CASE SleepStart < SleepEnd
  <2>1. PICK begins : begins = whole + SleepStart
    OBVIOUS
  <2>2. PICK ends : ends = whole + SleepEnd
    OBVIOUS
  <2>3. begins = Plan!LocalTime(day, SleepStart) /\ ends = Plan!LocalTime(day, SleepEnd)
    BY <1>14, <2>1, <2>2 DEF Plan!LocalTime
  <2>4. ends = Plan!LocalTime(IF SleepEnd <= SleepStart THEN day + 1 ELSE day, SleepEnd)
    BY <1>1, <1>16, <2>3
  <2>5. begins \in Int /\ ends \in Int
    BY <1>1, <1>14, <2>1, <2>2
  <2>6. ~(begins <= time /\ time < ends)
    BY <1>12, <1>15, <2>3, <2>4, <2>5
  <2>7. ~(SleepStart <= r /\ r < SleepEnd)
    BY <1>1, <1>5, <1>14, <2>1, <2>2, <2>6
  <2> QED
    BY <1>1, <1>4, <1>5, <1>16, <2>7
<1>17. CASE SleepEnd <= SleepStart
  <2>1. PICK begins : begins = whole + SleepStart
    OBVIOUS
  <2>2. PICK ends : ends = whole + PlanDay + SleepEnd
    OBVIOUS
  <2>3. begins = Plan!LocalTime(day, SleepStart) /\ ends = Plan!LocalTime(day + 1, SleepEnd)
    BY <1>14, <2>1, <2>2 DEF Plan!LocalTime
  <2>4. ends = Plan!LocalTime(IF SleepEnd <= SleepStart THEN day + 1 ELSE day, SleepEnd)
    BY <1>17, <2>3
  <2>5. begins \in Int /\ ends \in Int
    BY <1>1, <1>14, <2>1, <2>2
  <2>6. ~(begins <= time /\ time < ends)
    BY <1>12, <1>15, <2>3, <2>4, <2>5
  <2>7. r < SleepStart
    BY <1>1, <1>5, <1>14, <2>1, <2>2, <2>6
  <2>8. PICK before : before = whole - PlanDay + SleepStart
    OBVIOUS
  <2>9. PICK until : until = whole + SleepEnd
    OBVIOUS
  <2>10. PICK eve : eve = day - 1
    OBVIOUS
  <2>11. eve * PlanDay = whole - PlanDay /\ (eve + 1) * PlanDay = whole
    BY <1>5, <1>14, <2>10
  <2>12. before = Plan!LocalTime(eve, SleepStart) /\ until = Plan!LocalTime(eve + 1, SleepEnd)
    BY <2>8, <2>9, <2>11 DEF Plan!LocalTime
  <2>13. until = Plan!LocalTime(IF SleepEnd <= SleepStart THEN eve + 1 ELSE eve, SleepEnd)
    BY <1>17, <2>12
  <2>14. before \in Int /\ until \in Int /\ eve \in first - 1 .. first + HorizonDays
    BY <1>1, <1>12, <1>14, <2>8, <2>9, <2>10
  <2>15. ~(before <= time /\ time < until)
    BY <1>15, <2>12, <2>13, <2>14
  <2>16. r >= SleepEnd
    BY <1>1, <1>5, <1>14, <2>8, <2>9, <2>15
  <2> QED
    BY <1>1, <1>4, <1>5, <1>17, <2>7, <2>16
<1> QED
  BY <1>1, <1>16, <1>17

\* A session meets no commitment, nor the way there and back.
LEMMA MeetsNone ==
  ASSUME NEW floor \in Nat, NEW s \in Int, NEW e \in Int, s >= floor, s < e, e <= Plan!HorizonEnd(floor),
         NEW constraints, \A item \in Plan!ConstraintIntervals(constraints, floor) : ~Plan!Overlap(s, e, item),
         NEW c \in constraints, IsConstraint(c)
  PROVE  e <= c.starts - c.before \/ s >= c.ends + c.after
<1> SUFFICES ASSUME ~(e <= c.starts - c.before \/ s >= c.ends + c.after) PROVE FALSE
  OBVIOUS
<1>1. PICK last : last = Plan!HorizonEnd(floor)
  OBVIOUS
<1>2. last \in Nat
  BY <1>1, HorizonIs
<1>3. PICK leaves : leaves = c.starts - c.before
  OBVIOUS
<1>4. PICK returns : returns = c.ends + c.after
  OBVIOUS
<1>5. leaves \in Int /\ returns \in Int /\ leaves < returns /\ leaves < e /\ s < returns
  BY <1>3, <1>4 DEF IsConstraint
<1>6. PICK from : from = Plan!Later(leaves, floor)
  OBVIOUS
<1>7. from = IF leaves > floor THEN leaves ELSE floor
  BY <1>6 DEF Plan!Later
<1>8. PICK to : to = Plan!Min({returns, last})
  OBVIOUS
<1>9. to = IF returns <= last THEN returns ELSE last
  BY <1>2, <1>5, <1>8, MinOfTwo
<1>10. from \in Int /\ to \in Int /\ from < to /\ s < to /\ e > from
  BY <1>1, <1>2, <1>5, <1>7, <1>9
<1>11. PICK item : item = Plan!Occupied(from, to, c.location, 0)
  OBVIOUS
<1>12. item.start = from /\ item.end = to
  BY <1>11 DEF Plan!Occupied
<1>13. item \in Plan!ConstraintIntervals(constraints, floor)
  BY <1>1, <1>3, <1>4, <1>6, <1>8, <1>10, <1>11, <1>12 DEF Plan!ConstraintIntervals
<1> QED
  BY <1>10, <1>12, <1>13 DEF Plan!Overlap

\* A session meets no block that is kept.
LEMMA MeetsNoKept ==
  ASSUME NEW floor, NEW s \in Int, NEW e \in Int, NEW existing, AreBlocks(existing),
         \A item \in Plan!PreservedIntervals(existing, floor) : ~Plan!Overlap(s, e, item),
         NEW b \in existing, Plan!Preserved(b, floor)
  PROVE  e <= b.starts \/ s >= b.ends + Transition
<1>1. PICK item : item = Plan!Occupied(b.starts, b.ends + Transition, b.location, b.course)
  OBVIOUS
<1>2. item \in Plan!PreservedIntervals(existing, floor) /\ item.start = b.starts /\ item.end = b.ends + Transition
  BY <1>1 DEF Plan!PreservedIntervals, Plan!Occupied
<1>3. Transition \in Nat /\ b.starts \in Int /\ b.ends \in Int
  BY PlanAssumption DEF AreBlocks
<1> QED
  BY <1>2, <1>3 DEF Plan!Overlap

\* The first day of the plan comes no later than as many days as there are minutes.
LEMMA FirstDay ==
  ASSUME NEW moment \in Nat
  PROVE  Plan!RoundUp(moment) \div PlanDay <= moment
<1>1. PICK floor : floor = Plan!RoundUp(moment)
  OBVIOUS
<1>2. floor \in Nat /\ floor <= moment + Granule - 1
  BY <1>1, RoundUpIs
<1>3. Granule \in Nat /\ PlanDay \in Nat \ {0} /\ Granule <= PlanDay
  BY PlanAssumption
<1>4. PICK day : day = floor \div PlanDay
  OBVIOUS
<1>5. day \in Int /\ floor >= PlanDay * day
  <2>1. /\ floor \div PlanDay \in Int /\ floor % PlanDay \in Int
        /\ floor = PlanDay * (floor \div PlanDay) + (floor % PlanDay) /\ 0 <= floor % PlanDay /\ floor % PlanDay < PlanDay
    BY <1>2, <1>3, Division
  <2>2. PlanDay * day \in Int
    BY <1>3, <1>4, <2>1
  <2> QED
    BY <1>4, <2>1, <2>2
<1>6. CASE day > moment
  <2>1. PlanDay * day >= PlanDay * (moment + 1) /\ PlanDay * (moment + 1) = PlanDay * moment + PlanDay
    BY <1>3, <1>5, <1>6
  <2>2. PlanDay * moment >= moment
    BY <1>3
  <2>3. PlanDay * moment \in Int /\ PlanDay * day \in Int
    BY <1>3, <1>5
  <2> QED
    BY <1>2, <1>3, <1>5, <2>1, <2>2, <2>3
<1> QED
  BY <1>1, <1>4, <1>5, <1>6

-----------------------------------------------------------------------------
(* The new plan *)

OpenTasks(ts) == {t \in ts : ~t.completed}

\* What is occupied before any session is placed.
Base(constraints, existing, floor) ==
  Plan!ConstraintIntervals(constraints, floor) \union Plan!SleepIntervals(floor)
    \union Plan!PreservedIntervals(existing, floor)

\* A new plan is what has been laid when every task has been taken up, and what waits is told.
LEMMA GenerateIs ==
  ASSUME NEW ts, AreTasks(ts), NEW constraints, NEW existing, AreBlocks(existing), NEW effective \in Nat, NEW low,
         NEW floor, floor = Plan!RoundUp(effective)
  PROVE  /\ AreTasks(OpenTasks(ts))
         /\ \E last : /\ Planned(last, OpenTasks(ts), existing, floor, Base(constraints, existing, floor))
                      /\ Plan!Generate(ts, constraints, existing, effective, low) = Plan!Waiting(last)
<1>1. PICK U : U = OpenTasks(ts)
  OBVIOUS
<1>2. AreTasks(U) /\ U \subseteq ts
  <2>1. U \subseteq ts
    BY <1>1 DEF OpenTasks
  <2> QED
    BY <2>1, FS_Subset DEF AreTasks
<1>3. floor \in Nat
  BY RoundUpIs
<1>4. PICK base : base = Base(constraints, existing, floor)
  OBVIOUS
<1>5. PICK done : done = [d \in {t.id : t \in {t \in ts : t.completed}} |-> floor]
  OBVIOUS
<1>6. PICK st : st = [blocks |-> {}, conflicts |-> {}, occupied |-> base, pending |-> U, done |-> done]
  OBVIOUS
<1>7. st.blocks = {} /\ st.conflicts = {} /\ st.occupied = base /\ st.pending = U /\ st.done = done /\ IsPlan(st)
  BY <1>6 DEF IsPlan
<1>8. Plan!Generate(ts, constraints, existing, effective, low) = Plan!Plan(existing, floor, low, st)
  BY <1>1, <1>4, <1>5, <1>6 DEF Plan!Generate, Base, OpenTasks
<1>9. DoneIs(st)
  <2>1. \A d \in DOMAIN done : done[d] \in Int
    BY <1>3, <1>5
  <2>2. ASSUME NEW t \in U, t.id \in DOMAIN done PROVE FALSE
    <3>1. PICK other \in ts : other.completed /\ other.id = t.id
      BY <1>5, <2>2
    <3>2. t \in ts /\ ~t.completed
      BY <1>1 DEF OpenTasks
    <3>3. other = t
      BY <3>1, <3>2 DEF AreTasks
    <3> QED
      BY <3>1, <3>2, <3>3
  <2> QED
    BY <1>7, <2>1, <2>2 DEF DoneIs
<1>10. IsFiniteSet({})
  BY FS_EmptySet
<1>11. Laid(st, U, floor, base)
  <2>1. BlocksFit(st, U, floor, base) /\ BlocksOccupy(st) /\ InOrder(st, U)
    BY <1>7 DEF BlocksFit, BlocksOccupy, InOrder
  <2> QED
    BY <1>7, <1>9, <1>10, <2>1 DEF Laid
<1>12. Accounted(st, U, existing, floor)
  BY <1>7 DEF Accounted, OfTask, Told
<1>13. Planned(st, U, existing, floor, base)
  BY <1>11, <1>12 DEF Planned
<1>14. \E last : /\ Planned(last, U, existing, floor, base)
                 /\ Plan!Plan(existing, floor, low, st) = Plan!Waiting(last)
  BY ONLY <1>2, <1>3, <1>13, AreBlocks(existing), PlanKeeps
<1> QED
  BY <1>1, <1>2, <1>4, <1>8, <1>14

\* What waits is told; nothing else changes.
LEMMA WaitingIs ==
  ASSUME NEW last, IsPlan(last)
  PROVE  /\ Plan!Waiting(last).blocks = last.blocks
         /\ Plan!Waiting(last).conflicts =
              last.conflicts \union {[task |-> t.id, minutes |-> t.duration, why |-> "dependency"] : t \in last.pending}
<1> DEFINE notes == {[task |-> t.id, minutes |-> t.duration, why |-> "dependency"] : t \in last.pending}
<1>1. Plan!Waiting(last) = [last EXCEPT !.conflicts = @ \union notes]
  BY DEF Plan!Waiting
<1> HIDE DEF notes
<1>2. Plan!Waiting(last) = [blocks |-> last.blocks, conflicts |-> last.conflicts \union notes,
                            occupied |-> last.occupied, pending |-> last.pending, done |-> last.done]
  BY <1>1 DEF IsPlan
<1>3. Plan!Waiting(last).blocks = last.blocks /\ Plan!Waiting(last).conflicts = last.conflicts \union notes
  BY <1>2
<1> QED
  BY <1>3 DEF notes

-----------------------------------------------------------------------------
(* The tasks, commitments and blocks of the profile *)

AreSaved(ts) ==
  /\ IsFiniteSet(DOMAIN ts)
  /\ \A t \in DOMAIN ts : ts[t] \in PlannedTask /\ ts[t].id = t /\ IsFiniteSet(ts[t].dependencies)

AreCommitments(cs) == IsFiniteSet(DOMAIN cs) /\ \A c \in DOMAIN cs : IsConstraint(cs[c])

IsShown(b) ==
  /\ b = [task |-> b.task, starts |-> b.starts, ends |-> b.ends, completed |-> b.completed, locked |-> b.locked]
  /\ b.starts \in Int /\ b.ends \in Int

AreShown(bs) == IsFiniteSet(DOMAIN bs) /\ \A id \in DOMAIN bs : IsShown(bs[id])

LEMMA ShownIs ==
  ASSUME NEW task, NEW s, s \in Int, NEW e, e \in Int, NEW completed, NEW locked, NEW b,
         b = [task |-> task, starts |-> s, ends |-> e, completed |-> completed, locked |-> locked]
  PROVE  IsShown(b)
BY DEF IsShown

\* What a command changes of a block.
MarkedBlock(b, mark) == [b EXCEPT !.completed = mark]

LockedBlock(b, mark) == [b EXCEPT !.locked = mark]

MovedBlock(b, s, e, mark) == [[[b EXCEPT !.starts = s] EXCEPT !.ends = e] EXCEPT !.locked = mark]

\* A block that is marked or locked is still one.
LEMMA MarkedShown ==
  ASSUME NEW b, IsShown(b), NEW mark
  PROVE  IsShown(MarkedBlock(b, mark)) /\ IsShown(LockedBlock(b, mark))
<1>1. PICK task, completed, locked, starts, ends :
        /\ task = b.task /\ completed = b.completed /\ locked = b.locked /\ starts = b.starts /\ ends = b.ends
  OBVIOUS
<1>2. /\ b = [task |-> task, starts |-> starts, ends |-> ends, completed |-> completed, locked |-> locked]
      /\ starts \in Int /\ ends \in Int
  BY <1>1 DEF IsShown
<1>3. MarkedBlock(b, mark) = [task |-> task, starts |-> starts, ends |-> ends, completed |-> mark, locked |-> locked]
  BY <1>2 DEF MarkedBlock
<1>4. LockedBlock(b, mark) = [task |-> task, starts |-> starts, ends |-> ends, completed |-> completed, locked |-> mark]
  BY <1>2 DEF LockedBlock
<1> QED
  BY <1>2, <1>3, <1>4, ShownIs

\* So is one that is moved.
LEMMA MovedShown ==
  ASSUME NEW b, IsShown(b), NEW mark, NEW s, s \in Int, NEW e, e \in Int
  PROVE  IsShown(MovedBlock(b, s, e, mark))
<1>1. PICK task, completed, locked, starts, ends :
        /\ task = b.task /\ completed = b.completed /\ locked = b.locked /\ starts = b.starts /\ ends = b.ends
  OBVIOUS
<1>2. b = [task |-> task, starts |-> starts, ends |-> ends, completed |-> completed, locked |-> locked]
  BY <1>1 DEF IsShown
<1>3. PICK one : one = [b EXCEPT !.starts = s]
  OBVIOUS
<1>4. one = [task |-> task, starts |-> s, ends |-> ends, completed |-> completed, locked |-> locked]
  BY <1>2, <1>3
<1>5. PICK two : two = [one EXCEPT !.ends = e]
  OBVIOUS
<1>6. two = [task |-> task, starts |-> s, ends |-> e, completed |-> completed, locked |-> locked]
  BY <1>4, <1>5
<1>7. [two EXCEPT !.locked = mark]
        = [task |-> task, starts |-> s, ends |-> e, completed |-> completed, locked |-> mark]
  BY <1>6
<1>8. MovedBlock(b, s, e, mark) = [task |-> task, starts |-> s, ends |-> e, completed |-> completed, locked |-> mark]
  BY <1>3, <1>5, <1>7 DEF MovedBlock
<1> QED
  BY <1>8, ShownIs

LEMMA TasksAre ==
  ASSUME NEW ts, AreSaved(ts)
  PROVE  AreTasks({ts[t] : t \in DOMAIN ts})
<1>1. PICK all : all = {ts[t] : t \in DOMAIN ts}
  OBVIOUS
<1>2. IsFiniteSet(all)
  <2>1. PICK ids : ids = DOMAIN ts
    OBVIOUS
  <2>2. IsFiniteSet(ids)
    BY <2>1 DEF AreSaved
  <2> QED
    BY <1>1, <2>1, <2>2, ImageIs
<1>3. ASSUME NEW t \in DOMAIN ts PROVE IsTask(ts[t])
  <2>1. PICK r : r = ts[t]
    OBVIOUS
  <2>2. r \in PlannedTask /\ IsFiniteSet(r.dependencies)
    BY <2>1 DEF AreSaved
  <2>3. /\ r.id \in Int /\ r.duration \in Int /\ r.priority \in Int /\ r.risk \in Int /\ r.energy \in Int
        /\ r.max \in Int /\ r.min \in Int /\ r.due \in Int \union {None} /\ r.earliest \in Int \union {None}
    BY <2>2 DEF PlannedTask
  <2>4. IsTask(r)
    BY <2>2, <2>3 DEF IsTask
  <2> QED
    BY <2>1, <2>4
<1>4. \A t, other \in DOMAIN ts : ts[t].id = ts[other].id => t = other
  BY DEF AreSaved
<1>5. \A t \in all : IsTask(t)
  BY <1>1, <1>3
<1>6. \A t, other \in all : t.id = other.id => t = other
  BY <1>1, <1>4
<1>7. AreTasks(all)
  BY <1>2, <1>5, <1>6 DEF AreTasks
<1> QED
  BY <1>1, <1>7

LEMMA ExistingAre ==
  ASSUME NEW ts, NEW bs, AreShown(bs)
  PROVE  AreBlocks(Plan!Existing(ts, bs))
<1> DEFINE f == [id \in Plan!Study(bs) |->
                   [id |-> id, task |-> bs[id].task, starts |-> bs[id].starts, ends |-> bs[id].ends,
                    completed |-> bs[id].completed, locked |-> bs[id].locked,
                    location |-> ts[bs[id].task].location, course |-> ts[bs[id].task].course]]
<1>1. PICK all : all = Plan!Existing(ts, bs)
  OBVIOUS
<1>2. PICK ids : ids = Plan!Study(bs)
  OBVIOUS
<1>3. ids \subseteq DOMAIN bs /\ IsFiniteSet(ids)
  <2>1. ids \subseteq DOMAIN bs
    BY <1>2 DEF Plan!Study
  <2> QED
    BY <2>1, FS_Subset DEF AreShown
<1>4. all = {f[id] : id \in ids}
  BY <1>1, <1>2 DEF Plan!Existing
<1>5. \A id \in ids : f[id].starts \in Int /\ f[id].ends \in Int
  BY <1>2, <1>3 DEF AreShown, IsShown
<1> HIDE DEF f
<1>6. IsFiniteSet(all)
  BY <1>3, <1>4, ImageIs
<1>7. AreBlocks(all)
  BY <1>4, <1>5, <1>6 DEF AreBlocks
<1> QED
  BY <1>1, <1>7

LEMMA ConstraintsAre ==
  ASSUME NEW cs, AreCommitments(cs), NEW effective
  PROVE  /\ IsFiniteSet(Plan!FixedConstraints(cs, effective))
         /\ \A c \in Plan!FixedConstraints(cs, effective) : IsConstraint(c)
<1>1. PICK ids : ids = DOMAIN cs
  OBVIOUS
<1>2. PICK own : own = {cs[c] : c \in ids}
  OBVIOUS
<1>3. IsFiniteSet(own)
  <2>1. IsFiniteSet(ids)
    BY <1>1 DEF AreCommitments
  <2> QED
    BY <1>2, <2>1, ImageIs
<1>4. PICK classes : classes = Plan!ClassesFrom(effective)
  OBVIOUS
<1>5. classes \subseteq Classes /\ IsFiniteSet(classes)
  <2>1. classes \subseteq Classes
    BY <1>4 DEF Plan!ClassesFrom
  <2> QED
    BY <2>1, FS_Subset, PlanAssumption
<1>6. Plan!FixedConstraints(cs, effective) = own \union classes
  BY <1>1, <1>2, <1>4 DEF Plan!FixedConstraints
<1>7. IsFiniteSet(own \union classes)
  BY <1>3, <1>5, FS_Union
<1>8. \A c \in own \union classes : IsConstraint(c)
  BY <1>1, <1>2, <1>5, PlanAssumption DEF AreCommitments
<1> QED
  BY <1>6, <1>7, <1>8

\* The unfinished tasks, and what is occupied before any of them is planned.
OpenOf(ts) == OpenTasks({ts[t] : t \in DOMAIN ts})

BaseOf(ts, cs, bs, effective) ==
  Base(Plan!FixedConstraints(cs, effective), Plan!Existing(ts, bs), Plan!RoundUp(effective))

\* What a snapshot is made into.
LEMMA SnapshotIs ==
  ASSUME NEW ts, AreSaved(ts), NEW cs, NEW bs, AreShown(bs), NEW effective, effective \in Nat, NEW low,
         NEW floor, floor = Plan!RoundUp(effective), NEW U, U = OpenOf(ts), NEW base, base = BaseOf(ts, cs, bs, effective)
  PROVE  /\ AreTasks(U)
         /\ \E last : /\ Planned(last, U, Plan!Existing(ts, bs), floor, base)
                      /\ Plan!Snapshot(ts, cs, bs, effective, low) = Plan!Waiting(last)
<1>1. PICK all : all = {ts[t] : t \in DOMAIN ts}
  OBVIOUS
<1>2. PICK existing : existing = Plan!Existing(ts, bs)
  OBVIOUS
<1>3. PICK constraints : constraints = Plan!FixedConstraints(cs, effective)
  OBVIOUS
<1>4. AreTasks(all) /\ AreBlocks(existing)
  BY <1>1, <1>2, TasksAre, ExistingAre
<1>5. /\ AreTasks(OpenTasks(all))
      /\ \E last : /\ Planned(last, OpenTasks(all), existing, floor, Base(constraints, existing, floor))
                   /\ Plan!Generate(all, constraints, existing, effective, low) = Plan!Waiting(last)
  BY ONLY <1>4, effective \in Nat, floor = Plan!RoundUp(effective), GenerateIs
<1>6. Plan!Snapshot(ts, cs, bs, effective, low) = Plan!Generate(all, constraints, existing, effective, low)
  BY <1>1, <1>2, <1>3 DEF Plan!Snapshot
<1>7. U = OpenTasks(all) /\ base = Base(constraints, existing, floor)
  BY <1>1, <1>2, <1>3 DEF OpenOf, BaseOf
<1> QED
  BY ONLY <1>2, <1>5, <1>6, <1>7

PlanState ==
  /\ planNow \in Nat /\ AreSaved(tasks) /\ AreCommitments(commitments) /\ AreShown(planBlocks)
  /\ undo.block # None => undo.starts \in Int /\ undo.ends \in Int

\* What is laid can be followed.
LEMMA FollowedIs ==
  ASSUME PlanState, NEW floor, floor = Plan!RoundUp(planNow), NEW U, U = OpenOf(tasks),
         NEW base, base = BaseOf(tasks, commitments, planBlocks, planNow),
         NEW last, Laid(last, U, floor, base), NEW plan, plan.blocks = last.blocks
  PROVE  Plan!CanBeFollowed(plan)
<1>1. planNow \in Nat /\ floor \in Nat /\ planNow <= floor
  BY RoundUpIs DEF PlanState
<1>2. SUFFICES ASSUME NEW b \in last.blocks
      PROVE  /\ b.starts >= planNow
             /\ \E o \in (0 .. planNow + HorizonDays) \X Rules :
                  /\ o[2].weekday = o[1] % 7
                  /\ Plan!LocalTime(o[1], o[2].starts) <= b.starts
                  /\ b.ends <= Plan!LocalTime(o[1], o[2].ends)
             /\ \A time \in b.starts .. b.ends - 1 :
                  IF SleepStart < SleepEnd THEN time % PlanDay \notin SleepStart .. SleepEnd - 1
                                           ELSE time % PlanDay \in SleepEnd .. SleepStart - 1
             /\ tasks[b.task].due # None => b.ends <= tasks[b.task].due
             /\ tasks[b.task].earliest # None => b.starts >= tasks[b.task].earliest
             /\ \A c \in Plan!FixedConstraints(commitments, planNow) :
                  b.ends <= c.starts - c.before \/ b.starts >= c.ends + c.after
             /\ \A id \in Plan!Study(planBlocks) :
                  Plan!Preserved(planBlocks[id], Plan!RoundUp(planNow)) =>
                    b.ends <= planBlocks[id].starts \/ b.starts >= planBlocks[id].ends + Transition
             /\ \A other \in last.blocks \ {b} :
                  LET pause == IF other.task = b.task THEN Plan!Later(Break, Transition) ELSE 0
                  IN  b.ends + pause <= other.starts \/ other.ends + pause <= b.starts
             /\ \A other \in last.blocks : other.task \in tasks[b.task].dependencies => other.ends <= b.starts
  BY <1>2 DEF Plan!CanBeFollowed
<1>3. PICK t \in U : t.id = b.task
  BY DEF Laid, BlocksFit
<1>4. t = tasks[b.task]
  BY <1>3 DEF OpenOf, OpenTasks, PlanState, AreSaved
<1>5. Fits(b, t, floor, base)
  BY <1>3 DEF Laid, BlocksFit
<1>6. /\ b.starts \in Int /\ b.ends \in Int
      /\ b.starts >= floor /\ b.starts < b.ends /\ b.ends <= Plan!HorizonEnd(floor)
      /\ InWindow(b.starts, b.ends, floor)
      /\ t.due # None => b.ends <= t.due
      /\ t.earliest # None => b.starts >= t.earliest
      /\ \A item \in base : ~Plan!Overlap(b.starts, b.ends, item)
  BY <1>5 DEF Fits
<1>7. PICK s : s = b.starts
  OBVIOUS
<1>8. PICK e : e = b.ends
  OBVIOUS
<1>9. s \in Int /\ e \in Int /\ s >= floor /\ s < e /\ e <= Plan!HorizonEnd(floor)
  BY <1>6, <1>7, <1>8
<1>10. PICK constraints : constraints = Plan!FixedConstraints(commitments, planNow)
  OBVIOUS
<1>11. PICK existing : existing = Plan!Existing(tasks, planBlocks)
  OBVIOUS
<1>12. /\ \A item \in Plan!ConstraintIntervals(constraints, floor) : ~Plan!Overlap(s, e, item)
       /\ \A item \in Plan!SleepIntervals(floor) : ~Plan!Overlap(s, e, item)
       /\ \A item \in Plan!PreservedIntervals(existing, floor) : ~Plan!Overlap(s, e, item)
  BY <1>6, <1>7, <1>8, <1>10, <1>11 DEF BaseOf, Base
<1>13. b.starts >= planNow
  BY <1>1, <1>6
<1>14. \E o \in (0 .. planNow + HorizonDays) \X Rules :
         /\ o[2].weekday = o[1] % 7
         /\ Plan!LocalTime(o[1], o[2].starts) <= b.starts
         /\ b.ends <= Plan!LocalTime(o[1], o[2].ends)
  <2>1. PICK o \in (floor \div PlanDay .. floor \div PlanDay + HorizonDays) \X Rules :
          /\ o[2].weekday = o[1] % 7
          /\ Plan!LocalTime(o[1], o[2].starts) <= b.starts
          /\ b.ends <= Plan!LocalTime(o[1], o[2].ends)
    BY <1>6 DEF InWindow
  <2>2. PICK first : first = floor \div PlanDay
    OBVIOUS
  <2>3. first \in Nat /\ first <= planNow
    BY <1>1, <2>2, HorizonIs, FirstDay
  <2>4. HorizonDays \in Nat
    BY PlanAssumption
  <2>5. o[1] \in 0 .. planNow + HorizonDays
    BY <1>1, <2>1, <2>2, <2>3, <2>4
  <2>6. o \in (0 .. planNow + HorizonDays) \X Rules
    BY <2>1, <2>5
  <2> QED
    BY <2>1, <2>6
<1>15. \A time \in b.starts .. b.ends - 1 :
         IF SleepStart < SleepEnd THEN time % PlanDay \notin SleepStart .. SleepEnd - 1
                                  ELSE time % PlanDay \in SleepEnd .. SleepStart - 1
  <2>1. ASSUME NEW time \in s .. e - 1
        PROVE  IF SleepStart < SleepEnd THEN time % PlanDay \notin SleepStart .. SleepEnd - 1
                                        ELSE time % PlanDay \in SleepEnd .. SleepStart - 1
    BY <1>1, <1>9, <1>12, AwakeIs
  <2> QED
    BY <1>7, <1>8, <2>1
<1>16. /\ tasks[b.task].due # None => b.ends <= tasks[b.task].due
       /\ tasks[b.task].earliest # None => b.starts >= tasks[b.task].earliest
  BY <1>4, <1>6
<1>17. ASSUME NEW c \in constraints PROVE e <= c.starts - c.before \/ s >= c.ends + c.after
  <2>1. IsConstraint(c)
    BY <1>10, ConstraintsAre DEF PlanState
  <2> QED
    BY <1>1, <1>9, <1>12, <2>1, MeetsNone
<1>18. ASSUME NEW id \in Plan!Study(planBlocks), Plan!Preserved(planBlocks[id], floor)
       PROVE  e <= planBlocks[id].starts \/ s >= planBlocks[id].ends + Transition
  <2>1. AreBlocks(existing)
    BY <1>11, ExistingAre DEF PlanState
  <2>2. PICK kept \in existing : /\ kept.starts = planBlocks[id].starts /\ kept.ends = planBlocks[id].ends
                                 /\ kept.completed = planBlocks[id].completed /\ kept.locked = planBlocks[id].locked
    <3>1. PICK kept : kept = [id |-> id, task |-> planBlocks[id].task, starts |-> planBlocks[id].starts,
                              ends |-> planBlocks[id].ends, completed |-> planBlocks[id].completed,
                              locked |-> planBlocks[id].locked, location |-> tasks[planBlocks[id].task].location,
                              course |-> tasks[planBlocks[id].task].course]
      OBVIOUS
    <3>2. kept \in existing
      BY <1>11, <3>1 DEF Plan!Existing
    <3>3. /\ kept.starts = planBlocks[id].starts /\ kept.ends = planBlocks[id].ends
          /\ kept.completed = planBlocks[id].completed /\ kept.locked = planBlocks[id].locked
      BY <3>1
    <3> QED
      BY <3>2, <3>3
  <2>3. Plan!Preserved(kept, floor)
    BY <1>18, <2>2 DEF Plan!Preserved
  <2>4. e <= kept.starts \/ s >= kept.ends + Transition
    BY <1>9, <1>12, <2>1, <2>3, MeetsNoKept
  <2> QED
    BY <2>2, <2>4
<1>19. ASSUME NEW other \in last.blocks \ {b}
       PROVE  LET pause == IF other.task = b.task THEN Plan!Later(Break, Transition) ELSE 0
              IN  b.ends + pause <= other.starts \/ other.ends + pause <= b.starts
  <2>1. Apart(b, other)
    BY DEF Laid
  <2> QED
    BY <2>1 DEF Apart, After, Pause
<1>20. ASSUME NEW other \in last.blocks, other.task \in tasks[b.task].dependencies
       PROVE  other.ends <= b.starts
  BY <1>3, <1>4, <1>20 DEF Laid, InOrder
<1> HIDE DEF PlanState
<1>21. \A c \in Plan!FixedConstraints(commitments, planNow) :
         b.ends <= c.starts - c.before \/ b.starts >= c.ends + c.after
  BY <1>7, <1>8, <1>10, <1>17
<1>22. \A id \in Plan!Study(planBlocks) :
         Plan!Preserved(planBlocks[id], Plan!RoundUp(planNow)) =>
           b.ends <= planBlocks[id].starts \/ b.starts >= planBlocks[id].ends + Transition
  BY <1>7, <1>8, <1>18
<1> QED
  BY <1>13, <1>14, <1>15, <1>16, <1>19, <1>20, <1>21, <1>22

\* What is laid and told accounts for every task.
LEMMA AccountedIs ==
  ASSUME PlanState, NEW floor, floor = Plan!RoundUp(planNow), NEW U, U = OpenOf(tasks),
         AreTasks(U), NEW base, NEW last, Planned(last, U, Plan!Existing(tasks, planBlocks), floor, base),
         NEW plan, plan = Plan!Waiting(last)
  PROVE  Plan!AccountsForAll(plan)
<1>1. PICK existing : existing = Plan!Existing(tasks, planBlocks)
  OBVIOUS
<1>2. Laid(last, U, floor, base) /\ Accounted(last, U, existing, floor) /\ IsPlan(last) /\ last.pending \subseteq U
  BY <1>1 DEF Planned, Laid
<1>3. /\ plan.blocks = last.blocks
      /\ plan.conflicts = last.conflicts \union {[task |-> t.id, minutes |-> t.duration, why |-> "dependency"] : t \in last.pending}
  BY <1>2, WaitingIs
<1>4. SUFFICES ASSUME NEW t \in Plan!Unfinished
      PROVE  LET planned == Plan!Minutes({b \in plan.blocks : b.task = t})
                 notes == {c \in plan.conflicts : c.task = t}
                 missing == Plan!MissingMinutes(notes)
                 kept == Plan!PreservedMinutes(Plan!Existing(tasks, planBlocks), t, Plan!RoundUp(planNow))
             IN  IF \E c \in notes : c.why = "dependency" THEN planned = 0 /\ missing = tasks[t].duration
                 ELSE planned + missing = Plan!Later(tasks[t].duration - kept, 0)
  BY <1>4 DEF Plan!AccountsForAll
<1>5. PICK task : task = tasks[t]
  OBVIOUS
<1>6. task \in U /\ task.id = t /\ task.duration \in Int
  <2>1. t \in DOMAIN tasks /\ ~task.completed /\ task \in PlannedTask /\ task.id = t
    BY <1>5 DEF Plan!Unfinished, PlanState, AreSaved
  <2>2. task.duration \in Int
    BY <2>1 DEF PlannedTask
  <2> QED
    BY <1>5, <2>1, <2>2 DEF OpenOf, OpenTasks
<1>7. PICK mine : mine = {b \in plan.blocks : b.task = t}
  OBVIOUS
<1>8. PICK notes : notes = {c \in plan.conflicts : c.task = t}
  OBVIOUS
<1>9. mine = OfTask(last, task.id)
  BY <1>3, <1>6, <1>7 DEF OfTask
<1>10. PICK planned : planned = Plan!Minutes(mine)
  OBVIOUS
<1>11. PICK missing : missing = Plan!MissingMinutes(notes)
  OBVIOUS
<1>12. PICK owed : owed = Plan!Later(task.duration - Plan!PreservedMinutes(existing, t, floor), 0)
  OBVIOUS
<1>13. owed = Owed(existing, task, floor) /\ owed \in Int
  <2>1. IsTask(task) /\ AreBlocks(existing)
    BY <1>1, <1>6, ExistingAre DEF AreTasks, PlanState
  <2>2. Owed(existing, task, floor) \in Nat
    BY <2>1, OwedIs
  <2> QED
    BY <1>6, <1>12, <2>2 DEF Owed
<1>14. IF \E c \in notes : c.why = "dependency" THEN planned = 0 /\ missing = task.duration
       ELSE planned + missing = owed
  <2>1. CASE task \in last.pending
    <3>1. OfTask(last, task.id) = {} /\ Told(last, task.id) = {}
      BY <1>2, <1>6, <2>1 DEF Accounted
    <3>2. PICK c : c = [task |-> task.id, minutes |-> task.duration, why |-> "dependency"]
      OBVIOUS
    <3>3. c.task = task.id /\ c.minutes = task.duration /\ c.why = "dependency"
      BY <3>2
    <3>4. notes = {c}
      <4>1. c \in plan.conflicts
        BY <1>3, <2>1, <3>2
      <4>2. ASSUME NEW other \in plan.conflicts, other.task = t PROVE other = c
        <5>1. other \notin last.conflicts
          BY <1>6, <3>1, <4>2 DEF Told
        <5>2. PICK u \in last.pending : other = [task |-> u.id, minutes |-> u.duration, why |-> "dependency"]
          BY <1>3, <5>1
        <5>3. u.id = task.id
          BY <1>6, <4>2, <5>2
        <5>4. u = task
          BY <1>2, <1>6, <5>3 DEF AreTasks
        <5> QED
          BY <3>2, <5>2, <5>4
      <4> QED
        BY <1>6, <1>8, <3>3, <4>1, <4>2
    <3>5. missing = c.minutes
      BY <1>6, <1>11, <3>3, <3>4, OneMissing
    <3>6. planned = 0
      BY <1>9, <1>10, <3>1, NoMinutes
    <3> QED
      BY <3>3, <3>4, <3>5, <3>6
  <2>2. CASE task \notin last.pending
    <3>1. SettledTask(last, task.id, owed)
      BY <1>2, <1>6, <1>13, <2>2 DEF Accounted
    <3>2. notes = Told(last, task.id)
      <4>1. ASSUME NEW u \in last.pending PROVE u.id # t
        BY <1>2, <1>6, <2>2 DEF AreTasks
      <4>2. ASSUME NEW c \in plan.conflicts, c.task = t PROVE c \in last.conflicts
        <5>1. CASE c \notin last.conflicts
          <6>1. PICK u \in last.pending : c = [task |-> u.id, minutes |-> u.duration, why |-> "dependency"]
            BY <1>3, <5>1
          <6> QED
            BY <4>1, <4>2, <6>1
        <5> QED
          BY <5>1
      <4> QED
        BY <1>3, <1>6, <1>8, <4>2 DEF Told
    <3>3. CASE Told(last, task.id) = {} /\ Plan!Minutes(OfTask(last, task.id)) = owed
      <4>1. missing = 0
        BY <1>11, <3>2, <3>3, NoneMissing
      <4>2. planned = owed
        BY <1>9, <1>10, <3>3
      <4> QED
        BY <1>13, <3>2, <3>3, <4>1, <4>2
    <3>4. ASSUME NEW m \in Int, NEW c, Told(last, task.id) = {c}, c.task = task.id, c.minutes = m, c.why # "dependency",
                 Plan!Minutes(OfTask(last, task.id)) + m = owed
          PROVE  IF \E x \in notes : x.why = "dependency" THEN planned = 0 /\ missing = task.duration
                 ELSE planned + missing = owed
      <4>1. missing = m
        BY <1>11, <3>2, <3>4, OneMissing
      <4>2. planned + m = owed
        BY <1>9, <1>10, <3>4
      <4>3. ~\E x \in notes : x.why = "dependency"
        BY <3>2, <3>4
      <4> QED
        BY <4>1, <4>2, <4>3
    <3> QED
      BY <3>1, <3>3, <3>4 DEF SettledTask
  <2> QED
    BY <2>1, <2>2
<1> QED
  BY <1>1, <1>5, <1>7, <1>8, <1>10, <1>11, <1>12, <1>14

\* A plan that is made now is one that can be followed, and tells what found no place.
LEMMA PlanHoldsIs ==
  ASSUME PlanState
  PROVE  Plan!PlanHolds
<1>1. PICK floor : floor = Plan!RoundUp(planNow)
  OBVIOUS
<1>2. PICK U : U = OpenOf(tasks)
  OBVIOUS
<1>3. PICK base : base = BaseOf(tasks, commitments, planBlocks, planNow)
  OBVIOUS
<1>4. PICK low : low = FALSE
  OBVIOUS
<1>5. AreSaved(tasks) /\ AreShown(planBlocks) /\ planNow \in Nat
  BY DEF PlanState
<1>6. /\ AreTasks(U)
      /\ \E last : /\ Planned(last, U, Plan!Existing(tasks, planBlocks), floor, base)
                   /\ Plan!Snapshot(tasks, commitments, planBlocks, planNow, low) = Plan!Waiting(last)
  <2>1. PICK ts : ts = tasks
    OBVIOUS
  <2>2. PICK cs : cs = commitments
    OBVIOUS
  <2>3. PICK bs : bs = planBlocks
    OBVIOUS
  <2>4. PICK moment : moment = planNow
    OBVIOUS
  <2>5. AreSaved(ts) /\ AreShown(bs) /\ moment \in Nat
    BY <1>5, <2>1, <2>3, <2>4
  <2>6. /\ floor = Plan!RoundUp(moment) /\ U = OpenOf(ts)
        /\ base = BaseOf(ts, cs, bs, moment)
    BY <1>1, <1>2, <1>3, <2>1, <2>2, <2>3, <2>4
  <2>7. /\ AreTasks(U)
        /\ \E last : /\ Planned(last, U, Plan!Existing(ts, bs), floor, base)
                     /\ Plan!Snapshot(ts, cs, bs, moment, low) = Plan!Waiting(last)
    BY ONLY <2>5, <2>6, SnapshotIs
  <2> QED
    BY ONLY <2>1, <2>2, <2>3, <2>4, <2>7
<1>7. PICK last : /\ Planned(last, U, Plan!Existing(tasks, planBlocks), floor, base)
                  /\ Plan!Snapshot(tasks, commitments, planBlocks, planNow, low) = Plan!Waiting(last)
  BY <1>6
<1>8. PICK plan : plan = Plan!Proposed
  OBVIOUS
<1>9. plan = Plan!Waiting(last)
  BY <1>4, <1>7, <1>8 DEF Plan!Proposed
<1>10. Laid(last, U, floor, base) /\ plan.blocks = last.blocks
  BY <1>7, <1>9, WaitingIs DEF Planned, Laid
<1>11. Plan!CanBeFollowed(plan)
  BY ONLY PlanState, <1>1, <1>2, <1>3, <1>10, FollowedIs
<1>12. Plan!AccountsForAll(plan)
  BY ONLY PlanState, <1>1, <1>2, <1>6, <1>7, <1>9, AccountedIs
<1> QED
  BY <1>8, <1>11, <1>12 DEF Plan!PlanHolds, Plan!PlanIsSound

-----------------------------------------------------------------------------
(* What the commands leave *)

LEMMA OverShown ==
  ASSUME NEW f, AreShown(f), NEW g, AreShown(g)
  PROVE  AreShown(Plan!Over(f, g))
<1>1. PICK h : h = Plan!Over(f, g)
  OBVIOUS
<1>2. DOMAIN h = DOMAIN f \union DOMAIN g /\ \A x \in DOMAIN h : h[x] = IF x \in DOMAIN f THEN f[x] ELSE g[x]
  BY <1>1 DEF Plan!Over
<1>3. PICK a, b : a = DOMAIN f /\ b = DOMAIN g
  OBVIOUS
<1>4. IsFiniteSet(a) /\ IsFiniteSet(b)
  BY <1>3 DEF AreShown
<1>5. IsFiniteSet(a \union b)
  BY <1>4, FS_Union
<1>6. \A x \in DOMAIN h : IsShown(h[x])
  BY <1>2 DEF AreShown
<1>7. AreShown(h)
  BY <1>2, <1>3, <1>5, <1>6 DEF AreShown
<1> QED
  BY <1>1, <1>7

\* The planned blocks that are shown.
LEMMA SavedShown ==
  ASSUME NEW planned, IsFiniteSet(planned), \A b \in planned : b.starts \in Int /\ b.ends \in Int, NEW kept, NEW bs
  PROVE  AreShown(Plan!Saved(planned, kept, bs))
<1>1. PICK h : h = Plan!Saved(planned, kept, bs)
  OBVIOUS
<1> DEFINE f == [b \in planned |-> b.id]
<1>2. PICK ids : ids = {f[b] : b \in planned}
  OBVIOUS
<1>3. IsFiniteSet(ids)
  <2> HIDE DEF f
  <2> QED
    BY <1>2, ImageIs
<1>4. DOMAIN h = ids
  BY <1>1, <1>2 DEF Plan!Saved
<1>5. ASSUME NEW id \in DOMAIN h PROVE IsShown(h[id])
  <2>1. PICK b : b = CHOOSE q \in planned : q.id = id
    OBVIOUS
  <2>2. \E x \in planned : x.id = id
    BY <1>2, <1>4
  <2>3. b \in planned
    BY <2>1, <2>2
  <2>4. PICK completed, locked : completed = (id \in kept /\ bs[id].completed) /\ locked = (id \in kept /\ bs[id].locked)
    OBVIOUS
  <2>5. PICK task, s, e : task = b.task /\ s = b.starts /\ e = b.ends
    OBVIOUS
  <2>6. h[id] = [task |-> task, starts |-> s, ends |-> e, completed |-> completed, locked |-> locked]
    BY <1>1, <1>4, <2>1, <2>4, <2>5 DEF Plan!Saved
  <2> QED
    BY <2>3, <2>5, <2>6, ShownIs
<1>6. AreShown(h)
  BY <1>3, <1>4, <1>5 DEF AreShown
<1> QED
  BY <1>1, <1>6

\* What is planned in a snapshot.
LEMMA SnapshotBlocks ==
  ASSUME NEW ts, AreSaved(ts), NEW cs, NEW bs, AreShown(bs), NEW effective, effective \in Nat, NEW low,
         NEW planned, planned = Plan!Snapshot(ts, cs, bs, effective, low).blocks
  PROVE  IsFiniteSet(planned) /\ \A b \in planned : b.starts \in Int /\ b.ends \in Int
<1>1. PICK floor : floor = Plan!RoundUp(effective)
  OBVIOUS
<1>2. PICK U : U = OpenOf(ts)
  OBVIOUS
<1>3. PICK base : base = BaseOf(ts, cs, bs, effective)
  OBVIOUS
<1>4. \E last : /\ Planned(last, U, Plan!Existing(ts, bs), floor, base)
                /\ Plan!Snapshot(ts, cs, bs, effective, low) = Plan!Waiting(last)
  BY ONLY <1>1, <1>2, <1>3, AreSaved(ts), AreShown(bs), effective \in Nat, SnapshotIs
<1>5. PICK last : /\ Planned(last, U, Plan!Existing(ts, bs), floor, base)
                  /\ Plan!Snapshot(ts, cs, bs, effective, low) = Plan!Waiting(last)
  BY <1>4
<1>6. Laid(last, U, floor, base) /\ IsPlan(last)
  BY <1>5 DEF Planned, Laid
<1>7. planned = last.blocks
  BY <1>5, <1>6, WaitingIs
<1> QED
  BY <1>6, <1>7 DEF Laid, BlocksFit, Fits

\* The blocks that are shown after a plan has been made.
LEMMA ReplannedShown ==
  ASSUME NEW ts, AreSaved(ts), NEW cs, AreCommitments(cs), NEW bs, AreShown(bs), NEW effective, effective \in Nat, NEW low
  PROVE  AreShown(Plan!Replanned(ts, cs, bs, effective, low))
<1>1. PICK kept : kept = {id \in Plan!Study(bs) : bs[id].locked \/ bs[id].completed \/ bs[id].starts < effective}
  OBVIOUS
<1>2. PICK constraints : constraints = Plan!FixedConstraints(cs, effective)
  OBVIOUS
<1> DEFINE Fixed(c) == [task |-> None, starts |-> c.starts, ends |-> c.ends, completed |-> FALSE, locked |-> TRUE]
<1>3. PICK fixed : fixed = [id \in {<<0, c.number, 0>> : c \in constraints} |->
                              Fixed(CHOOSE c \in constraints : c.number = id[2])]
  OBVIOUS
<1>4. PICK planned : planned = Plan!Snapshot(ts, cs, bs, effective, low).blocks
  OBVIOUS
<1>5. PICK stays : stays = [id \in kept |-> bs[id]]
  OBVIOUS
<1>6. PICK new : new = Plan!Saved(planned, kept, bs)
  OBVIOUS
<1>7. Plan!Replanned(ts, cs, bs, effective, low) = Plan!Over(new, Plan!Over(fixed, stays))
  BY <1>1, <1>2, <1>3, <1>4, <1>5, <1>6 DEF Plan!Replanned
<1>8. IsFiniteSet(planned) /\ \A b \in planned : b.starts \in Int /\ b.ends \in Int
  BY ONLY <1>4, AreSaved(ts), AreShown(bs), effective \in Nat, SnapshotBlocks
<1>9. AreShown(new)
  BY ONLY <1>6, <1>8, SavedShown
<1>10. AreShown(fixed)
  <2>1. IsFiniteSet(constraints) /\ \A c \in constraints : IsConstraint(c)
    BY <1>2, ConstraintsAre
  <2> DEFINE f == [c \in constraints |-> <<0, c.number, 0>>]
  <2>2. PICK ids : ids = {f[c] : c \in constraints}
    OBVIOUS
  <2>3. DOMAIN fixed = ids
    BY <1>3, <2>2
  <2>4. IsFiniteSet(ids)
    <3> HIDE DEF f
    <3> QED
      BY <2>1, <2>2, ImageIs
  <2>5. ASSUME NEW id \in DOMAIN fixed PROVE IsShown(fixed[id])
    <3>1. PICK c : c = CHOOSE q \in constraints : q.number = id[2]
      OBVIOUS
    <3>2. \E x \in constraints : x.number = id[2]
      BY <2>2, <2>3
    <3>3. c \in constraints
      BY <3>1, <3>2
    <3>4. fixed[id] = Fixed(c)
      BY <1>3, <3>1
    <3>5. c.starts \in Int /\ c.ends \in Int
      BY <2>1, <3>3 DEF IsConstraint
    <3> QED
      BY <3>4, <3>5 DEF IsShown
  <2> QED
    BY <2>3, <2>4, <2>5 DEF AreShown
<1>11. AreShown(stays)
  <2>1. kept \subseteq DOMAIN bs
    BY <1>1 DEF Plan!Study
  <2>2. IsFiniteSet(kept)
    BY <2>1, FS_Subset DEF AreShown
  <2>3. DOMAIN stays = kept /\ \A id \in kept : stays[id] = bs[id]
    BY <1>5
  <2> QED
    BY <2>1, <2>2, <2>3 DEF AreShown
<1>12. AreShown(Plan!Over(fixed, stays))
  BY ONLY <1>10, <1>11, OverShown
<1>13. PICK rest : rest = Plan!Over(fixed, stays)
  OBVIOUS
<1>14. AreShown(Plan!Over(new, rest))
  BY ONLY <1>9, <1>12, <1>13, OverShown
<1> QED
  BY <1>7, <1>13, <1>14

\* A task is saved among the others.
LEMMA WithSaved ==
  ASSUME NEW ts, AreSaved(ts), NEW t, NEW task, task \in PlannedTask, task.id = t, IsFiniteSet(task.dependencies)
  PROVE  AreSaved(Plan!With(ts, t, task))
<1>1. PICK g : g = Plan!With(ts, t, task)
  OBVIOUS
<1>2. /\ DOMAIN g = DOMAIN ts \union {t} /\ g[t] = task
      /\ \A y \in DOMAIN ts : y # t => g[y] = ts[y]
  BY <1>1 DEF Plan!With, Plan!Over
<1>3. PICK ids : ids = DOMAIN ts
  OBVIOUS
<1>4. IsFiniteSet(ids)
  BY <1>3 DEF AreSaved
<1>5. IsFiniteSet(ids \union {t})
  BY <1>4, FS_AddElement
<1>6. \A y \in DOMAIN g : g[y] \in PlannedTask /\ g[y].id = y /\ IsFiniteSet(g[y].dependencies)
  BY <1>2 DEF AreSaved
<1>7. AreSaved(g)
  BY <1>2, <1>3, <1>5, <1>6 DEF AreSaved
<1> QED
  BY <1>1, <1>7

LEMMA WithCommitment ==
  ASSUME NEW cs, AreCommitments(cs), NEW c, NEW constraint, IsConstraint(constraint)
  PROVE  AreCommitments(Plan!With(cs, c, constraint))
<1>1. PICK g : g = Plan!With(cs, c, constraint)
  OBVIOUS
<1>2. /\ DOMAIN g = DOMAIN cs \union {c} /\ g[c] = constraint
      /\ \A y \in DOMAIN cs : y # c => g[y] = cs[y]
  BY <1>1 DEF Plan!With, Plan!Over
<1>3. PICK ids : ids = DOMAIN cs
  OBVIOUS
<1>4. IsFiniteSet(ids)
  BY <1>3 DEF AreCommitments
<1>5. IsFiniteSet(ids \union {c})
  BY <1>4, FS_AddElement
<1>6. \A y \in DOMAIN g : IsConstraint(g[y])
  BY <1>2 DEF AreCommitments
<1>7. AreCommitments(g)
  BY <1>2, <1>3, <1>5, <1>6 DEF AreCommitments
<1> QED
  BY <1>1, <1>7

\* What is left when some of it goes.
LEMMA WithoutShown ==
  ASSUME NEW bs, AreShown(bs), NEW S
  PROVE  AreShown(Plan!Without(bs, S))
<1>1. PICK g : g = Plan!Without(bs, S)
  OBVIOUS
<1>2. DOMAIN g \subseteq DOMAIN bs /\ \A x \in DOMAIN g : g[x] = bs[x]
  BY <1>1 DEF Plan!Without
<1>3. IsFiniteSet(DOMAIN g)
  BY <1>2, FS_Subset DEF AreShown
<1>4. AreShown(g)
  BY <1>2, <1>3 DEF AreShown
<1> QED
  BY <1>1, <1>4

LEMMA WithoutCommitment ==
  ASSUME NEW cs, AreCommitments(cs), NEW S
  PROVE  AreCommitments(Plan!Without(cs, S))
<1>1. PICK g : g = Plan!Without(cs, S)
  OBVIOUS
<1>2. DOMAIN g \subseteq DOMAIN cs /\ \A x \in DOMAIN g : g[x] = cs[x]
  BY <1>1 DEF Plan!Without
<1>3. IsFiniteSet(DOMAIN g)
  BY <1>2, FS_Subset DEF AreCommitments
<1>4. AreCommitments(g)
  BY <1>2, <1>3 DEF AreCommitments
<1> QED
  BY <1>1, <1>4

\* Whatever a command saved, the plan that is made of it is one of blocks.
LEMMA PlanRegenerates ==
  ASSUME NEW ts, AreSaved(ts), NEW cs, AreCommitments(cs), NEW bs, AreShown(bs), NEW effective, effective \in Nat, NEW low,
         Plan!Regenerate(ts, cs, bs, effective, low)
  PROVE  AreSaved(tasks') /\ AreCommitments(commitments') /\ AreShown(planBlocks')
<1>1. tasks' = ts /\ commitments' = cs
  BY DEF Plan!Regenerate
<1>2. planBlocks' = bs \/ planBlocks' = Plan!Replanned(ts, cs, bs, effective, low)
  BY DEF Plan!Regenerate
<1>3. AreShown(Plan!Replanned(ts, cs, bs, effective, low))
  BY ONLY AreSaved(ts), AreCommitments(cs), AreShown(bs), effective \in Nat, ReplannedShown
<1> QED
  BY <1>1, <1>2, <1>3

LEMMA PlanBegins == Plan!Init => PlanState
<1> SUFFICES ASSUME Plan!Init PROVE PlanState
  OBVIOUS
<1>1. planNow = 0 /\ tasks = <<>> /\ commitments = <<>> /\ planBlocks = <<>> /\ undo.block = None
  BY DEF Plan!Init, Plan!Unplaced
<1>2. PICK none : none = <<>>
  OBVIOUS
<1>3. DOMAIN none = {}
  BY <1>2
<1>4. AreSaved(none) /\ AreCommitments(none) /\ AreShown(none)
  BY <1>3, FS_EmptySet DEF AreSaved, AreCommitments, AreShown
<1> QED
  BY <1>1, <1>2, <1>4 DEF PlanState

\* Every command leaves tasks, commitments and blocks to plan from.
LEMMA PlanMoves == PlanState /\ [Plan!Next]_(Plan!vars) => PlanState'
<1> SUFFICES ASSUME PlanState, [Plan!Next]_(Plan!vars) PROVE PlanState'
  OBVIOUS
<1>1. /\ planNow \in Nat /\ AreSaved(tasks) /\ AreCommitments(commitments) /\ AreShown(planBlocks)
      /\ undo.block # None => undo.starts \in Int /\ undo.ends \in Int
  BY DEF PlanState
<1>2. ASSUME Plan!Edit, AreSaved(tasks'), AreCommitments(commitments'), AreShown(planBlocks') PROVE PlanState'
  BY <1>1, <1>2 DEF Plan!Edit, PlanState
<1>3. ASSUME NEW t \in DOMAIN TaskShapes, NEW shape \in TaskShapes[t], Plan!SaveTask(t, shape) PROVE PlanState'
  <2>1. PICK completed : completed = (t \in DOMAIN tasks /\ tasks[t].completed)
    OBVIOUS
  <2>2. PICK task : task = [shape EXCEPT !.completed = completed]
    OBVIOUS
  <2>3. shape \in PlannedTask /\ shape.id = t /\ IsFiniteSet(shape.dependencies)
    BY PlanAssumption
  <2>4. completed \in BOOLEAN
    <3>1. t \in DOMAIN tasks => tasks[t].completed \in BOOLEAN
      BY <1>1 DEF AreSaved, PlannedTask
    <3> QED
      BY <2>1, <3>1
  <2>5. task \in PlannedTask /\ task.id = t /\ IsFiniteSet(task.dependencies)
    BY <2>2, <2>3, <2>4 DEF PlannedTask
  <2>6. PICK ts : ts = Plan!With(tasks, t, task)
    OBVIOUS
  <2>7. AreSaved(ts)
    BY <1>1, <2>5, <2>6, WithSaved
  <2>8. PICK low : low = FALSE
    OBVIOUS
  <2>9. Plan!Regenerate(ts, commitments, planBlocks, planNow, low) /\ Plan!Edit
    BY <1>3, <2>1, <2>2, <2>6, <2>8 DEF Plan!SaveTask
  <2>10. AreSaved(tasks') /\ AreCommitments(commitments') /\ AreShown(planBlocks')
    BY <1>1, <2>7, <2>9, PlanRegenerates
  <2> QED
    BY <1>2, <2>9, <2>10
<1>4. ASSUME NEW c \in DOMAIN Commitments, NEW constraint \in Commitments[c], Plan!SaveCommitment(c, constraint)
      PROVE  PlanState'
  <2>1. PICK cs : cs = Plan!With(commitments, c, constraint)
    OBVIOUS
  <2>2. IsConstraint(constraint)
    BY PlanAssumption
  <2>3. AreCommitments(cs)
    BY <1>1, <2>1, <2>2, WithCommitment
  <2>4. PICK low : low = FALSE
    OBVIOUS
  <2>5. Plan!Regenerate(tasks, cs, planBlocks, planNow, low) /\ Plan!Edit
    BY <1>4, <2>1, <2>4 DEF Plan!SaveCommitment
  <2>6. AreSaved(tasks') /\ AreCommitments(commitments') /\ AreShown(planBlocks')
    BY <1>1, <2>3, <2>5, PlanRegenerates
  <2> QED
    BY <1>2, <2>5, <2>6
<1>5. ASSUME NEW t, Plan!DeleteTask(t) PROVE PlanState'
  <2>1. PICK ts : ts = [u \in DOMAIN tasks \ {t} |-> [tasks[u] EXCEPT !.dependencies = @ \ {t}]]
    OBVIOUS
  <2>2. AreSaved(ts)
    <3>1. ASSUME NEW u \in DOMAIN tasks \ {t}
          PROVE  ts[u] \in PlannedTask /\ ts[u].id = u /\ IsFiniteSet(ts[u].dependencies)
      <4>1. PICK task : task = tasks[u]
        OBVIOUS
      <4>2. task \in PlannedTask /\ task.id = u /\ IsFiniteSet(task.dependencies)
        BY <1>1, <4>1 DEF AreSaved
      <4>3. PICK rest : rest = task.dependencies \ {t}
        OBVIOUS
      <4>4. IsFiniteSet(rest) /\ rest \in SUBSET Int
        <5>1. rest \subseteq task.dependencies /\ task.dependencies \subseteq Int
          BY <4>2, <4>3 DEF PlannedTask
        <5> QED
          BY <4>2, <5>1, FS_Subset
      <4>5. ts[u] = [task EXCEPT !.dependencies = rest]
        BY <2>1, <4>1, <4>3
      <4>6. [task EXCEPT !.dependencies = rest] \in PlannedTask
        BY <4>2, <4>4 DEF PlannedTask
      <4>7. [task EXCEPT !.dependencies = rest].id = task.id /\ [task EXCEPT !.dependencies = rest].dependencies = rest
        BY <4>2 DEF PlannedTask
      <4> QED
        BY <4>2, <4>4, <4>5, <4>6, <4>7
    <3>2. DOMAIN ts = DOMAIN tasks \ {t}
      BY <2>1
    <3>3. IsFiniteSet(DOMAIN tasks \ {t})
      <4>1. PICK ids : ids = DOMAIN tasks
        OBVIOUS
      <4>2. IsFiniteSet(ids)
        BY <1>1, <4>1 DEF AreSaved
      <4>3. IsFiniteSet(ids \ {t})
        BY <4>2, FS_Subset
      <4> QED
        BY <4>1, <4>3
    <3> QED
      BY <3>1, <3>2, <3>3 DEF AreSaved
  <2>3. PICK bs : bs = Plan!Without(planBlocks, {id \in Plan!Study(planBlocks) : planBlocks[id].task = t})
    OBVIOUS
  <2>4. AreShown(bs)
    <3>1. PICK gone : gone = {id \in Plan!Study(planBlocks) : planBlocks[id].task = t}
      OBVIOUS
    <3>2. bs = Plan!Without(planBlocks, gone)
      BY <2>3, <3>1
    <3>3. AreShown(Plan!Without(planBlocks, gone))
      BY <1>1, WithoutShown
    <3> QED
      BY <3>2, <3>3
  <2>5. PICK low : low = FALSE
    OBVIOUS
  <2>6. Plan!Regenerate(ts, commitments, bs, planNow, low) /\ Plan!Edit
    BY <1>5, <2>1, <2>3, <2>5 DEF Plan!DeleteTask
  <2>7. AreSaved(tasks') /\ AreCommitments(commitments') /\ AreShown(planBlocks')
    BY <1>1, <2>2, <2>4, <2>6, PlanRegenerates
  <2> QED
    BY <1>2, <2>6, <2>7
<1>6. ASSUME NEW t, Plan!ToggleTask(t) PROVE PlanState'
  <2>1. /\ tasks' = [tasks EXCEPT ![t].completed = ~@]
        /\ planBlocks' = [id \in DOMAIN planBlocks |->
             IF planBlocks[id].task = t THEN [planBlocks[id] EXCEPT !.completed = ~tasks[t].completed] ELSE planBlocks[id]]
        /\ commitments' = commitments /\ Plan!Edit /\ t \in DOMAIN tasks
    BY <1>6 DEF Plan!ToggleTask
  <2>2. AreSaved(tasks')
    <3>1. PICK ts : ts = tasks'
      OBVIOUS
    <3>2. PICK task : task = tasks[t]
      OBVIOUS
    <3>3. task \in PlannedTask /\ task.id = t /\ IsFiniteSet(task.dependencies)
      BY <1>1, <2>1, <3>2 DEF AreSaved
    <3>4. PICK marked : marked = [task EXCEPT !.completed = ~task.completed]
      OBVIOUS
    <3>5. marked \in PlannedTask /\ marked.id = t /\ IsFiniteSet(marked.dependencies)
      <4>1. PICK completed : completed = ~task.completed
        OBVIOUS
      <4>2. completed \in BOOLEAN
        BY <3>3, <4>1 DEF PlannedTask
      <4>3. marked = [task EXCEPT !.completed = completed]
        BY <3>4, <4>1
      <4> QED
        BY <3>3, <4>2, <4>3 DEF PlannedTask
    <3>6. DOMAIN ts = DOMAIN tasks /\ ts[t] = marked /\ \A u \in DOMAIN tasks : u # t => ts[u] = tasks[u]
      BY <2>1, <3>1, <3>2, <3>4
    <3>7. AreSaved(ts)
      BY <1>1, <3>5, <3>6 DEF AreSaved
    <3> QED
      BY <3>1, <3>7
  <2>3. AreShown(planBlocks')
    <3>1. PICK bs : bs = planBlocks'
      OBVIOUS
    <3>2. DOMAIN bs = DOMAIN planBlocks
      BY <2>1, <3>1
    <3>3. ASSUME NEW id \in DOMAIN planBlocks PROVE IsShown(bs[id])
      <4>1. PICK block : block = planBlocks[id]
        OBVIOUS
      <4>2. bs[id] = block \/ bs[id] = MarkedBlock(block, ~tasks[t].completed)
        BY <2>1, <3>1, <4>1 DEF MarkedBlock
      <4>3. IsShown(block)
        BY <1>1, <4>1 DEF AreShown
      <4>4. IsShown(MarkedBlock(block, ~tasks[t].completed))
        BY <4>3, MarkedShown
      <4> QED
        BY <4>2, <4>3, <4>4
    <3>4. AreShown(bs)
      BY <1>1, <3>2, <3>3 DEF AreShown
    <3> QED
      BY <3>1, <3>4
  <2> QED
    BY <1>1, <1>2, <2>1, <2>2, <2>3
<1>7. ASSUME NEW c, Plan!DeleteCommitment(c) PROVE PlanState'
  <2>1. PICK cs : cs = Plan!Without(commitments, {c})
    OBVIOUS
  <2>2. PICK bs : bs = Plan!Without(planBlocks, {<<0, c, 0>>})
    OBVIOUS
  <2>3. AreCommitments(cs) /\ AreShown(bs)
    <3>1. PICK one, other : one = {c} /\ other = {<<0, c, 0>>}
      OBVIOUS
    <3>2. AreCommitments(Plan!Without(commitments, one)) /\ AreShown(Plan!Without(planBlocks, other))
      BY <1>1, WithoutCommitment, WithoutShown
    <3> QED
      BY <2>1, <2>2, <3>1, <3>2
  <2>4. PICK low : low = FALSE
    OBVIOUS
  <2>5. Plan!Regenerate(tasks, cs, bs, planNow, low) /\ Plan!Edit
    BY <1>7, <2>1, <2>2, <2>4 DEF Plan!DeleteCommitment
  <2>6. AreSaved(tasks') /\ AreCommitments(commitments') /\ AreShown(planBlocks')
    BY <1>1, <2>3, <2>5, PlanRegenerates
  <2> QED
    BY <1>2, <2>5, <2>6
<1>8. ASSUME NEW effective \in Instants, NEW low, Plan!Replan(effective, low) PROVE PlanState'
  <2>1. effective \in Nat
    BY PlanAssumption
  <2>2. Plan!Regenerate(tasks, commitments, planBlocks, effective, low) /\ Plan!Edit
    BY <1>8 DEF Plan!Replan
  <2>3. AreSaved(tasks') /\ AreCommitments(commitments') /\ AreShown(planBlocks')
    BY <1>1, <2>1, <2>2, PlanRegenerates
  <2> QED
    BY <1>2, <2>2, <2>3
<1>9. ASSUME NEW id, NEW locked, Plan!SetLock(id, locked) PROVE PlanState'
  <2>1. PICK bs : bs = [planBlocks EXCEPT ![id].locked = locked]
    OBVIOUS
  <2>2. AreShown(bs)
    <3>1. DOMAIN bs = DOMAIN planBlocks
      BY <2>1
    <3>2. ASSUME NEW x \in DOMAIN planBlocks PROVE IsShown(bs[x])
      <4>1. PICK block : block = planBlocks[x]
        OBVIOUS
      <4>2. bs[x] = block \/ bs[x] = LockedBlock(block, locked)
        BY <2>1, <4>1 DEF LockedBlock
      <4>3. IsShown(block)
        BY <1>1, <4>1 DEF AreShown
      <4>4. IsShown(LockedBlock(block, locked))
        BY <4>3, MarkedShown
      <4> QED
        BY <4>2, <4>3, <4>4
    <3> QED
      BY <1>1, <3>1, <3>2 DEF AreShown
  <2>3. PICK low : low = FALSE
    OBVIOUS
  <2>4. Plan!Regenerate(tasks, commitments, bs, planNow, low) /\ Plan!Edit
    BY <1>9, <2>1, <2>3 DEF Plan!SetLock
  <2>5. AreSaved(tasks') /\ AreCommitments(commitments') /\ AreShown(planBlocks')
    BY <1>1, <2>2, <2>4, PlanRegenerates
  <2> QED
    BY <1>2, <2>4, <2>5
<1>10. ASSUME NEW id, NEW s, s \in Int, NEW e, e \in Int, Plan!MovePlanBlock(id, s, e) PROVE PlanState'
  <2>1. /\ id \in DOMAIN planBlocks
        /\ undo' = [block |-> id, starts |-> planBlocks[id].starts, ends |-> planBlocks[id].ends, locked |-> planBlocks[id].locked]
        /\ planBlocks' = [planBlocks EXCEPT ![id].starts = s, ![id].ends = e, ![id].locked = TRUE]
        /\ planNow' = planNow /\ tasks' = tasks /\ commitments' = commitments
    BY <1>10 DEF Plan!MovePlanBlock, Plan!Open, Plan!Study
  <2>2. undo'.starts \in Int /\ undo'.ends \in Int
    BY <1>1, <2>1 DEF AreShown, IsShown
  <2>3. PICK bs : bs = planBlocks'
    OBVIOUS
  <2>4. AreShown(bs)
    <3>1. DOMAIN bs = DOMAIN planBlocks
      BY <2>1, <2>3
    <3>2. ASSUME NEW x \in DOMAIN planBlocks PROVE IsShown(bs[x])
      <4>1. PICK block : block = planBlocks[x]
        OBVIOUS
      <4>2. bs[x] = block \/ bs[x] = MovedBlock(block, s, e, TRUE)
        BY <2>1, <2>3, <4>1 DEF MovedBlock
      <4>3. IsShown(block)
        BY <1>1, <4>1 DEF AreShown
      <4>4. IsShown(MovedBlock(block, s, e, TRUE))
        BY <1>10, <4>3, MovedShown
      <4> QED
        BY <4>2, <4>3, <4>4
    <3> QED
      BY <1>1, <3>1, <3>2 DEF AreShown
  <2> QED
    BY <1>1, <2>1, <2>2, <2>3, <2>4 DEF PlanState
<1>11. ASSUME Plan!UndoCalendarChange PROVE PlanState'
  <2>1. /\ undo.starts \in Int /\ undo.ends \in Int /\ undo'.block = None
        /\ planBlocks' = [planBlocks EXCEPT ![undo.block].starts = undo.starts, ![undo.block].ends = undo.ends,
                                            ![undo.block].locked = undo.locked]
        /\ planNow' = planNow /\ tasks' = tasks /\ commitments' = commitments
    BY <1>1, <1>11 DEF Plan!UndoCalendarChange, Plan!Unplaced
  <2>2. PICK s, e, locked, at : s = undo.starts /\ e = undo.ends /\ locked = undo.locked /\ at = undo.block
    OBVIOUS
  <2>3. PICK bs : bs = planBlocks'
    OBVIOUS
  <2>4. bs = [planBlocks EXCEPT ![at].starts = s, ![at].ends = e, ![at].locked = locked] /\ s \in Int /\ e \in Int
    BY <2>1, <2>2, <2>3
  <2>5. AreShown(bs)
    <3>1. DOMAIN bs = DOMAIN planBlocks
      BY <2>4
    <3>2. ASSUME NEW x \in DOMAIN planBlocks PROVE IsShown(bs[x])
      <4>1. PICK block : block = planBlocks[x]
        OBVIOUS
      <4>2. bs[x] = block \/ bs[x] = MovedBlock(block, s, e, locked)
        BY <2>4, <4>1 DEF MovedBlock
      <4>3. IsShown(block)
        BY <1>1, <4>1 DEF AreShown
      <4>4. IsShown(MovedBlock(block, s, e, locked))
        BY <2>4, <4>3, MovedShown
      <4> QED
        BY <4>2, <4>3, <4>4
    <3> QED
      BY <1>1, <3>1, <3>2 DEF AreShown
  <2> QED
    BY <1>1, <2>1, <2>3, <2>5 DEF PlanState
<1>12. ASSUME Plan!Wait PROVE PlanState'
  BY <1>1, <1>12, PlanAssumption DEF Plan!Wait, PlanState
<1>13. ASSUME UNCHANGED Plan!vars PROVE PlanState'
  BY <1>1, <1>13 DEF Plan!vars, PlanState
<1>14. ASSUME NEW id, NEW s \in planNow .. Plan!HorizonEnd(planNow), NEW length \in Lengths,
              Plan!MovePlanBlock(id, s, s + length)
       PROVE  PlanState'
  <2>1. length \in Int /\ Plan!HorizonEnd(planNow) \in Nat
    BY <1>1, PlanAssumption, HorizonIs
  <2>2. PICK e : e = s + length
    OBVIOUS
  <2>3. s \in Int /\ e \in Int /\ Plan!MovePlanBlock(id, s, e)
    BY <1>1, <1>14, <2>1, <2>2
  <2> QED
    BY <1>10, <2>3
<1> QED
  BY <1>3, <1>4, <1>5, <1>6, <1>7, <1>8, <1>9, <1>11, <1>12, <1>13, <1>14 DEF Plan!Next

\* Whatever the student edits, moves, completes and locks, a plan that is made then can be
\* followed, and every minute it is to place is placed or told of (planner.rs: generate).
THEOREM PlansCanBeFollowed == Plan!Spec => []Plan!PlanHolds
<1>1. Plan!Spec => []PlanState
  BY PlanBegins, PlanMoves, PTL DEF Plan!Spec
<1> QED
  BY <1>1, PlanHoldsIs, PTL
=============================================================================
