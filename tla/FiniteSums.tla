----------------------------- MODULE FiniteSums -----------------------------
(***************************************************************************)
(* Facts about sums and maxima over finite sets, for the proofs about the  *)
(* modules that add up credit units, weights and grade points.             *)
(*                                                                         *)
(* A fold is a recursion over the subsets of its set; what holds of each   *)
(* is shown by way of a smallest subset of which it would not hold.        *)
(***************************************************************************)
EXTENDS Integers, FiniteSets, FiniteSetsExt, FiniteSetTheorems, WellFoundedInduction, TLAPS

LEMMA SmallestSet ==
  ASSUME NEW D, IsFiniteSet(D), NEW F, F \subseteq SUBSET D, F # {}
  PROVE  \E s \in F : \A t \in F : t \subseteq s => t = s
<1> DEFINE R == StrictSubsetOrdering(D)
<1>1. IsWellFoundedOn(R, SUBSET D)
  BY FS_StrictSubsetOrderingWellFounded, FS_FiniteSubsetsOfFinite
<1>2. \A s, t \in SUBSET D : s \subseteq t /\ s # t => <<s, t>> \in R
  BY DEF StrictSubsetOrdering
<1> HIDE DEF R
<1>3. \E x \in F : \A y \in F : ~(<<y, x>> \in R)
  BY <1>1, WFMin
<1> QED
  BY <1>2, <1>3

Pick(s) == CHOOSE x \in s : TRUE

IsSum(it, w, D) ==
  it = [s \in SUBSET D |-> IF s = {} THEN 0 ELSE w[Pick(s)] + it[s \ {Pick(s)}]]

SumOf(w, D) == MapThenSumSet(LAMBDA x : w[x], D)

\* Pick is a member, and what it leaves is a smaller set.
LEMMA Picked ==
  ASSUME NEW s, s # {}
  PROVE  /\ Pick(s) \in s /\ s \ {Pick(s)} \subseteq s /\ s \ {Pick(s)} # s
  BY DEF Pick

LEMMA SumStep ==
  ASSUME NEW D, NEW w, NEW it, IsSum(it, w, D), NEW s \in SUBSET D
  PROVE  it[s] = IF s = {} THEN 0 ELSE w[Pick(s)] + it[s \ {Pick(s)}]
  BY DEF IsSum

\* Two sums of the same weights agree where both are defined.
LEMMA SumsAgree ==
  ASSUME NEW A, IsFiniteSet(A), NEW B, NEW w, NEW v, NEW f, NEW g,
         IsSum(f, w, A), IsSum(g, v, B), \A x \in A \cap B : w[x] = v[x]
  PROVE  \A s \in SUBSET (A \cap B) : f[s] = g[s]
<1> DEFINE F == {s \in SUBSET (A \cap B) : f[s] # g[s]}
<1>1. SUFFICES ASSUME F # {} PROVE FALSE
  OBVIOUS
<1>2. F \subseteq SUBSET A /\ F \subseteq SUBSET B
  OBVIOUS
<1>3. \A s \in F : f[s] # g[s]
  OBVIOUS
<1>4. \A s \in SUBSET (A \cap B) : s \notin F => f[s] = g[s]
  OBVIOUS
<1> HIDE DEF F
<1>5. PICK s \in F : \A t \in F : t \subseteq s => t = s
  BY <1>1, <1>2, SmallestSet
<1>6. s \in SUBSET A /\ s \in SUBSET B
  BY <1>2
<1> DEFINE t == s \ {Pick(s)}
<1>7. CASE s = {}
  <2>1. f[s] = 0
    BY <1>6, <1>7, SumStep
  <2>2. g[s] = 0
    BY <1>6, <1>7, SumStep
  <2> QED
    BY <1>3, <2>1, <2>2
<1>8. CASE s # {}
  <2>1. Pick(s) \in s /\ t \subseteq s /\ t # s
    BY <1>8, Picked
  <2>2. f[t] = g[t]
    BY <2>1, <1>4, <1>5, <1>6
  <2>3. f[s] = w[Pick(s)] + f[t]
    <3>1. f[s] = IF s = {} THEN 0 ELSE w[Pick(s)] + f[t]
      BY <1>6, SumStep
    <3> QED
      BY <1>8, <3>1
  <2>4. g[s] = v[Pick(s)] + g[t]
    BY <1>6, <1>8, SumStep
  <2>5. w[Pick(s)] = v[Pick(s)]
    BY <2>1, <1>6
  <2> QED
    BY <1>3, <2>2, <2>3, <2>4, <2>5
<1> QED
  BY <1>7, <1>8

\* The recursion has a solution on each finite set.
LEMMA SumExists ==
  ASSUME NEW D, IsFiniteSet(D), NEW w
  PROVE  \E it : IsSum(it, w, D)
<1> DEFINE F == {s \in SUBSET D : ~\E it : IsSum(it, w, s)}
<1>1. SUFFICES ASSUME F # {} PROVE FALSE
  OBVIOUS
<1>2. F \subseteq SUBSET D /\ \A s \in F : ~\E it : IsSum(it, w, s)
  OBVIOUS
<1>3. \A s \in SUBSET D : s \notin F => \E it : IsSum(it, w, s)
  OBVIOUS
<1> HIDE DEF F
<1>4. PICK s \in F : \A t \in F : t \subseteq s => t = s
  BY <1>1, <1>2, SmallestSet
<1>5. \A t \in SUBSET s : t # s => \E it : IsSum(it, w, t)
  BY <1>2, <1>3, <1>4
<1> DEFINE it(t) == CHOOSE f : IsSum(f, w, t)
           lower(t) == t \ {Pick(t)}
           rest(t) == it(lower(t))[lower(t)]
           jt == [t \in SUBSET s |-> IF t = {} THEN 0 ELSE w[Pick(t)] + rest(t)]
<1>6. \A t \in SUBSET s : t # s => IsSum(it(t), w, t)
  BY <1>5
<1>7. \A t \in SUBSET s : t # {} => Pick(t) \in t /\ lower(t) \subseteq t /\ lower(t) # t
  BY Picked
<1>8. \A t \in SUBSET s : t # {} => rest(t) = jt[lower(t)]
  <2> SUFFICES ASSUME NEW t \in SUBSET s, t # {} PROVE rest(t) = jt[lower(t)]
    OBVIOUS
  <2> DEFINE u == lower(t)
  <2>1. u \in SUBSET s /\ u # s
    BY <1>7
  <2>2. IsSum(it(u), w, u)
    BY <1>6, <2>1
  <2>3. CASE u = {}
    <3>1. it(u)[u] = 0
      BY <2>2, <2>3, SumStep
    <3> QED
      BY <2>1, <2>3, <3>1
  <2>4. CASE u # {}
    <3>1. lower(u) \in SUBSET u /\ lower(u) \in SUBSET s /\ lower(u) # s
      BY <1>7, <2>1, <2>4
    <3>2. it(u)[u] = w[Pick(u)] + it(u)[lower(u)]
      <4> HIDE DEF it, u
      <4>1. it(u)[u] = IF u = {} THEN 0 ELSE w[Pick(u)] + it(u)[u \ {Pick(u)}]
        BY <2>2, SumStep
      <4> QED
        BY <2>4, <4>1
    <3>3. IsSum(it(lower(u)), w, lower(u))
      BY <1>6, <3>1
    <3>4. IsFiniteSet(u)
      BY <2>1, <1>2, FS_Subset
    <3>5. it(u)[lower(u)] = it(lower(u))[lower(u)]
      <4> HIDE DEF it, lower, u
      <4>1. lower(u) \in SUBSET (u \cap lower(u))
        BY <3>1
      <4> QED
        BY <2>2, <3>3, <3>4, <4>1, SumsAgree
    <3> QED
      BY <2>1, <2>4, <3>2, <3>5
  <2> QED
    BY <2>3, <2>4
<1>9. IsSum(jt, w, s)
  <2> HIDE DEF it
  <2> QED
    BY <1>8 DEF IsSum
<1> QED
  BY <1>2, <1>9

LEMMA SumOfIs ==
  ASSUME NEW D, IsFiniteSet(D), NEW w
  PROVE  \E it : IsSum(it, w, D) /\ SumOf(w, D) = it[D]
<1>1. PICK it : IsSum(it, w, D)
  BY SumExists
<1> QED
  BY <1>1 DEF IsSum, SumOf, MapThenSumSet, MapThenFoldSet, Pick

LEMMA SumOfEmpty == ASSUME NEW w PROVE SumOf(w, {}) = 0
  BY SumOfIs, FS_EmptySet, SumStep

LEMMA SumOfSame ==
  ASSUME NEW D, IsFiniteSet(D), NEW w, NEW v, \A x \in D : w[x] = v[x]
  PROVE  SumOf(w, D) = SumOf(v, D)
<1>1. PICK f : IsSum(f, w, D) /\ SumOf(w, D) = f[D]
  BY SumOfIs
<1>2. PICK g : IsSum(g, v, D) /\ SumOf(v, D) = g[D]
  BY SumOfIs
<1>3. D \in SUBSET (D \cap D) /\ \A x \in D \cap D : w[x] = v[x]
  OBVIOUS
<1> QED
  BY <1>1, <1>2, <1>3, SumsAgree

LEMMA SumOfPick ==
  ASSUME NEW D, IsFiniteSet(D), D # {}, NEW w
  PROVE  SumOf(w, D) = w[Pick(D)] + SumOf(w, D \ {Pick(D)})
<1> DEFINE E == D \ {Pick(D)}
<1>1. PICK f : IsSum(f, w, D) /\ SumOf(w, D) = f[D]
  BY SumOfIs
<1>2. IsFiniteSet(E) /\ E \subseteq D
  BY FS_Subset
<1>3. PICK g : IsSum(g, w, E) /\ SumOf(w, E) = g[E]
  BY <1>2, SumOfIs
<1>4. f[D] = w[Pick(D)] + f[E]
  BY <1>1, SumStep
<1>5. f[E] = g[E]
  <2>1. E \in SUBSET (D \cap E) /\ \A x \in D \cap E : w[x] = w[x]
    OBVIOUS
  <2> HIDE DEF E
  <2> QED
    BY <1>1, <1>3, <2>1, SumsAgree
<1> QED
  BY <1>1, <1>3, <1>4, <1>5

LEMMA SumOfInt ==
  ASSUME NEW D, IsFiniteSet(D), NEW w, \A x \in D : w[x] \in Int
  PROVE  SumOf(w, D) \in Int
<1> DEFINE F == {s \in SUBSET D : SumOf(w, s) \notin Int}
<1>1. SUFFICES ASSUME F # {} PROVE FALSE
  OBVIOUS
<1>2. F \subseteq SUBSET D /\ \A s \in F : SumOf(w, s) \notin Int
  OBVIOUS
<1>3. \A s \in SUBSET D : s \notin F => SumOf(w, s) \in Int
  OBVIOUS
<1> HIDE DEF F
<1>4. PICK s \in F : \A t \in F : t \subseteq s => t = s
  BY <1>1, <1>2, SmallestSet
<1>5. s # {}
  BY <1>2, SumOfEmpty
<1> DEFINE t == s \ {Pick(s)}
<1>6. Pick(s) \in s /\ t \subseteq s /\ t # s
  BY <1>5, Picked
<1>7. SumOf(w, s) = w[Pick(s)] + SumOf(w, t)
  BY <1>2, <1>5, SumOfPick, FS_Subset
<1>8. SumOf(w, t) \in Int /\ w[Pick(s)] \in Int
  BY <1>2, <1>3, <1>4, <1>6
<1> QED
  BY <1>2, <1>7, <1>8

\* A sum does not depend on the order of its terms.
LEMMA SumOfRemove ==
  ASSUME NEW D, IsFiniteSet(D), NEW w, \A x \in D : w[x] \in Int, NEW a \in D
  PROVE  SumOf(w, D) = w[a] + SumOf(w, D \ {a})
<1> DEFINE F == {s \in SUBSET D : \E x \in s : SumOf(w, s) # w[x] + SumOf(w, s \ {x})}
<1>1. SUFFICES ASSUME F # {} PROVE FALSE
  OBVIOUS
<1>2. F \subseteq SUBSET D /\ \A s \in F : \E x \in s : SumOf(w, s) # w[x] + SumOf(w, s \ {x})
  OBVIOUS
<1>3. \A s \in SUBSET D : s \notin F => \A x \in s : SumOf(w, s) = w[x] + SumOf(w, s \ {x})
  OBVIOUS
<1> HIDE DEF F
<1>4. PICK s \in F : \A t \in F : t \subseteq s => t = s
  BY <1>1, <1>2, SmallestSet
<1>5. PICK x \in s : SumOf(w, s) # w[x] + SumOf(w, s \ {x})
  BY <1>2
<1> DEFINE y == Pick(s)
<1>6. y \in s /\ x \in s /\ s \in SUBSET D
  BY <1>2, <1>5, Picked
<1>7. SumOf(w, s) = w[y] + SumOf(w, s \ {y})
  BY <1>2, <1>6, SumOfPick, FS_Subset
<1> HIDE DEF y
<1>8. x # y
  BY <1>5, <1>7
<1>9. s \ {x} \notin F /\ s \ {y} \notin F
  BY <1>4, <1>6
<1>10. SumOf(w, s \ {y}) = w[x] + SumOf(w, (s \ {y}) \ {x})
  BY <1>3, <1>6, <1>8, <1>9
<1>11. SumOf(w, s \ {x}) = w[y] + SumOf(w, (s \ {x}) \ {y})
  BY <1>3, <1>6, <1>8, <1>9
<1>12. (s \ {x}) \ {y} = (s \ {y}) \ {x}
  OBVIOUS
<1>13. SumOf(w, (s \ {y}) \ {x}) \in Int /\ w[x] \in Int /\ w[y] \in Int
  <2>1. (s \ {y}) \ {x} \in SUBSET D
    BY <1>6
  <2>2. IsFiniteSet((s \ {y}) \ {x}) /\ \A z \in (s \ {y}) \ {x} : w[z] \in Int
    BY <2>1, FS_Subset
  <2>3. SumOf(w, (s \ {y}) \ {x}) \in Int
    BY <2>2, SumOfInt
  <2> QED
    BY <1>6, <2>3
<1>14. \A p, q, r \in Int : p + (q + r) = q + (p + r)
  OBVIOUS
<1>15. SumOf(w, s) = w[y] + (w[x] + SumOf(w, (s \ {y}) \ {x}))
  BY <1>7, <1>10
<1>16. w[x] + SumOf(w, s \ {x}) = w[x] + (w[y] + SumOf(w, (s \ {y}) \ {x}))
  BY <1>11, <1>12
<1> QED
  BY <1>5, <1>13, <1>14, <1>15, <1>16

\* If each term is at most M times another, so is the sum.
LEMMA SumOfScaled ==
  ASSUME NEW D, IsFiniteSet(D), NEW w, NEW v, NEW M \in Int,
         \A x \in D : w[x] \in Int /\ v[x] \in Int /\ w[x] <= M * v[x]
  PROVE  SumOf(w, D) <= M * SumOf(v, D)
<1> DEFINE F == {s \in SUBSET D : ~(SumOf(w, s) <= M * SumOf(v, s))}
<1>1. SUFFICES ASSUME F # {} PROVE FALSE
  OBVIOUS
<1>2. F \subseteq SUBSET D /\ \A s \in F : ~(SumOf(w, s) <= M * SumOf(v, s))
  OBVIOUS
<1>3. \A s \in SUBSET D : s \notin F => SumOf(w, s) <= M * SumOf(v, s)
  OBVIOUS
<1> HIDE DEF F
<1>4. PICK s \in F : \A t \in F : t \subseteq s => t = s
  BY <1>1, <1>2, SmallestSet
<1>5. s # {}
  <2>1. SumOf(w, {}) <= M * SumOf(v, {})
    <3>1. SumOf(w, {}) = 0 /\ SumOf(v, {}) = 0
      BY SumOfEmpty
    <3>2. 0 <= M * 0
      OBVIOUS
    <3> QED
      BY <3>1, <3>2
  <2> QED
    BY <1>2, <2>1
<1> DEFINE x == Pick(s)
           t == s \ {x}
<1>6. x \in s /\ t \subseteq s /\ t # s
  BY <1>5, Picked
<1>7. IsFiniteSet(s) /\ IsFiniteSet(t)
  BY <1>2, <1>6, FS_Subset
<1>8. SumOf(w, s) = w[x] + SumOf(w, t) /\ SumOf(v, s) = v[x] + SumOf(v, t)
  BY <1>5, <1>7, SumOfPick
<1> HIDE DEF x, t
<1>9. SumOf(w, t) \in Int /\ SumOf(v, t) \in Int
  BY <1>2, <1>6, <1>7, SumOfInt
<1>10. w[x] \in Int /\ v[x] \in Int /\ w[x] <= M * v[x] /\ SumOf(w, t) <= M * SumOf(v, t)
  BY <1>2, <1>3, <1>4, <1>6
<1>11. \A m, a, b \in Int : m * (a + b) = m * a + m * b
  OBVIOUS
<1>12. M * (v[x] + SumOf(v, t)) = M * v[x] + M * SumOf(v, t)
  BY <1>9, <1>10, <1>11
<1> QED
  BY <1>2, <1>8, <1>9, <1>10, <1>12

LEMMA SumOfSubset ==
  ASSUME NEW D, IsFiniteSet(D), NEW E \in SUBSET D, NEW w, \A x \in D : w[x] \in Nat
  PROVE  SumOf(w, E) <= SumOf(w, D)
<1> DEFINE F == {s \in SUBSET D : E \subseteq s /\ ~(SumOf(w, E) <= SumOf(w, s))}
<1>1. SUFFICES ASSUME F # {} PROVE FALSE
  <2>1. ~(SumOf(w, E) <= SumOf(w, D)) => D \in F
    OBVIOUS
  <2> QED
    BY <2>1
<1>2. F \subseteq SUBSET D /\ \A s \in F : E \subseteq s /\ ~(SumOf(w, E) <= SumOf(w, s))
  OBVIOUS
<1>3. \A s \in SUBSET D : s \notin F /\ E \subseteq s => SumOf(w, E) <= SumOf(w, s)
  OBVIOUS
<1> HIDE DEF F
<1>4. PICK s \in F : \A t \in F : t \subseteq s => t = s
  BY <1>1, <1>2, SmallestSet
<1>5. \A t \in SUBSET D : IsFiniteSet(t) /\ SumOf(w, t) \in Int
  <2> SUFFICES ASSUME NEW t \in SUBSET D PROVE IsFiniteSet(t) /\ SumOf(w, t) \in Int
    OBVIOUS
  <2>1. IsFiniteSet(t) /\ \A x \in t : w[x] \in Int
    BY FS_Subset
  <2> QED
    BY <2>1, SumOfInt
<1>6. PICK x \in s : x \notin E
  <2>1. s # E
    BY <1>2, <1>5
  <2> QED
    BY <1>2, <2>1
<1>7. SumOf(w, s) = w[x] + SumOf(w, s \ {x})
  <2>1. \A z \in s : w[z] \in Int
    BY <1>2
  <2> QED
    BY <1>2, <1>5, <2>1, SumOfRemove
<1>8. SumOf(w, E) <= SumOf(w, s \ {x})
  BY <1>2, <1>3, <1>4, <1>6
<1>9. w[x] \in Nat /\ SumOf(w, s \ {x}) \in Int /\ SumOf(w, E) \in Int
  BY <1>2, <1>5, <1>6
<1>10. SumOf(w, E) <= SumOf(w, s)
  BY <1>7, <1>8, <1>9
<1> QED
  BY <1>2, <1>10

\* A sum of at most as many terms as D has elements, each at most M.
LEMMA SumOfBounded ==
  ASSUME NEW D, IsFiniteSet(D), NEW w, NEW M \in Nat,
         \A x \in D : w[x] \in Int /\ w[x] <= M
  PROVE  SumOf(w, D) <= Cardinality(D) * M
<1> DEFINE F == {s \in SUBSET D : ~(SumOf(w, s) <= Cardinality(s) * M)}
<1>1. SUFFICES ASSUME F # {} PROVE FALSE
  OBVIOUS
<1>2. F \subseteq SUBSET D /\ \A s \in F : ~(SumOf(w, s) <= Cardinality(s) * M)
  OBVIOUS
<1>3. \A s \in SUBSET D : s \notin F => SumOf(w, s) <= Cardinality(s) * M
  OBVIOUS
<1> HIDE DEF F
<1>4. PICK s \in F : \A t \in F : t \subseteq s => t = s
  BY <1>1, <1>2, SmallestSet
<1>5. s # {}
  <2>1. SumOf(w, {}) <= Cardinality({}) * M
    <3>1. SumOf(w, {}) = 0 /\ Cardinality({}) = 0
      BY SumOfEmpty, FS_EmptySet
    <3>2. 0 <= 0 * M
      OBVIOUS
    <3> QED
      BY <3>1, <3>2
  <2> QED
    BY <1>2, <2>1
<1> DEFINE x == Pick(s)
           t == s \ {x}
<1>6. x \in s /\ t \subseteq s /\ t # s
  BY <1>5, Picked
<1>7. IsFiniteSet(s) /\ IsFiniteSet(t) /\ Cardinality(t) = Cardinality(s) - 1
  BY <1>2, <1>6, FS_Subset, FS_RemoveElement
<1>8. SumOf(w, s) = w[x] + SumOf(w, t)
  BY <1>5, <1>7, SumOfPick
<1> HIDE DEF x, t
<1>9. SumOf(w, t) \in Int /\ Cardinality(s) \in Nat
  BY <1>2, <1>6, <1>7, SumOfInt, FS_CardinalityType
<1>10. w[x] \in Int /\ w[x] <= M /\ SumOf(w, t) <= Cardinality(t) * M
  BY <1>2, <1>3, <1>4, <1>6
<1>11. \A n \in Int : (n - 1) * M = n * M - M
  OBVIOUS
<1>12. (Cardinality(s) - 1) * M = Cardinality(s) * M - M
  BY <1>9, <1>11
<1> QED
  BY <1>2, <1>7, <1>8, <1>9, <1>10, <1>12

LEMMA LargestExists ==
  ASSUME NEW D, IsFiniteSet(D), \A x \in D : x \in Int
  PROVE  \A s \in SUBSET D : s # {} => \E m \in s : \A x \in s : m >= x
<1> DEFINE F == {s \in SUBSET D : s # {} /\ ~\E m \in s : \A x \in s : m >= x}
<1>1. SUFFICES ASSUME F # {} PROVE FALSE
  OBVIOUS
<1>2. F \subseteq SUBSET D
  OBVIOUS
<1>a. \A s \in F : s # {} /\ ~\E m \in s : \A x \in s : m >= x
  OBVIOUS
<1>3. \A s \in SUBSET D : s \notin F /\ s # {} => \E m \in s : \A x \in s : m >= x
  OBVIOUS
<1> HIDE DEF F
<1>4. PICK s \in F : \A t \in F : t \subseteq s => t = s
  BY <1>1, <1>2, SmallestSet
<1>5. PICK y \in s : TRUE
  BY <1>2, <1>a
<1>6. s \ {y} # {}
  <2>1. s \ {y} = {} => \A x \in s : y >= x
    BY <1>2, <1>a
  <2> QED
    BY <1>2, <1>a, <2>1
<1>7. PICK m \in s \ {y} : \A x \in s \ {y} : m >= x
  <2>1. s \ {y} \in SUBSET D /\ s \ {y} \notin F
    BY <1>2, <1>a, <1>4, <1>5
  <2> QED
    BY <2>1, <1>3, <1>6
<1>8. \A x \in s : x \in Int
  BY <1>2, <1>a
<1>9. CASE m >= y
  BY <1>2, <1>a, <1>7, <1>8, <1>9
<1>10. CASE ~(m >= y)
  BY <1>2, <1>a, <1>7, <1>8, <1>10
<1> QED
  BY <1>9, <1>10

LEMMA LargestNumber ==
  ASSUME NEW S, IsFiniteSet(S), S # {}, S \subseteq Int
  PROVE  Max(S) \in S /\ \A x \in S : x <= Max(S)
<1>1. \E m \in S : \A x \in S : m >= x
  BY LargestExists
<1>2. Max(S) \in S /\ \A x \in S : Max(S) >= x
  BY <1>1 DEF Max
<1> QED
  BY <1>2

LEMMA ValuesFinite ==
  ASSUME NEW S, IsFiniteSet(S), NEW key
  PROVE  IsFiniteSet({key[x] : x \in S})
<1> DEFINE T == {key[x] : x \in S}
           f == [x \in S |-> key[x]]
<1>1. f \in Surjection(S, T)
  BY DEF Surjection
<1> HIDE DEF T, f
<1>2. IsFiniteSet(T)
  BY <1>1, FS_Surjection
<1> QED
  BY <1>2 DEF T

\* Some member of a finite set has the largest key, and some the smallest.
LEMMA LargestBy ==
  ASSUME NEW S, IsFiniteSet(S), S # {}, NEW key, \A x \in S : key[x] \in Int
  PROVE  \E m \in S : \A x \in S : key[m] >= key[x]
<1> DEFINE T == {key[x] : x \in S}
<1>2. IsFiniteSet(T)
  BY ValuesFinite
<1>3. T # {} /\ T \subseteq Int /\ \A x \in S : key[x] \in T
  OBVIOUS
<1>4. Max(T) \in T /\ \A n \in T : n <= Max(T)
  <2> HIDE DEF T
  <2> QED
    BY <1>2, <1>3, LargestNumber
<1>5. PICK m \in S : key[m] = Max(T)
  BY <1>4
<1> QED
  <2> HIDE DEF T
  <2> QED
    BY <1>3, <1>4, <1>5

LEMMA SmallestBy ==
  ASSUME NEW S, IsFiniteSet(S), S # {}, NEW key, \A x \in S : key[x] \in Int
  PROVE  \E m \in S : \A x \in S : key[m] <= key[x]
<1> DEFINE opposite == [x \in S |-> -key[x]]
<1>1. \A x \in S : opposite[x] \in Int /\ opposite[x] = -key[x]
  OBVIOUS
<1> HIDE DEF opposite
<1>2. PICK m \in S : \A x \in S : opposite[m] >= opposite[x]
  BY <1>1, LargestBy
<1> QED
  BY <1>1, <1>2

\* One term more adds its weight, if it is new.
LEMMA SumOfAdd ==
  ASSUME NEW D, IsFiniteSet(D), NEW w, NEW a, \A x \in D \cup {a} : w[x] \in Nat
  PROVE  SumOf(w, D \cup {a}) <= SumOf(w, D) + w[a]
<1>1. SumOf(w, D) \in Int
  BY SumOfInt
<1>2. CASE a \in D
  <2> DEFINE E == D \cup {a}
  <2>1. E = D /\ w[a] \in Nat
    BY <1>2
  <2> HIDE DEF E
  <2>2. SumOf(w, E) <= SumOf(w, D) + w[a]
    BY <1>1, <2>1
  <2> QED
    BY <2>2 DEF E
<1>3. CASE a \notin D
  <2> DEFINE E == D \cup {a}
  <2>1. IsFiniteSet(E) /\ a \in E /\ E \ {a} = D /\ \A x \in E : w[x] \in Int
    BY <1>3, FS_AddElement
  <2> HIDE DEF E
  <2>2. SumOf(w, E) = w[a] + SumOf(w, D)
    BY <2>1, SumOfRemove
  <2> QED
    BY <1>1, <2>2 DEF E
<1> QED
  BY <1>2, <1>3

LEMMA ProductGrows == \A a, b, h \in Nat : a <= b => a * h <= b * h
<1> SUFFICES ASSUME NEW a \in Nat, NEW b \in Nat, NEW h \in Nat, a <= b PROVE a * h <= b * h
  OBVIOUS
<1> DEFINE d == b - a
<1>1. d \in Nat /\ b = a + d
  OBVIOUS
<1> HIDE DEF d
<1>2. b * h = a * h + d * h
  BY <1>1
<1>3. a * h \in Nat /\ d * h \in Nat
  BY <1>1
<1> QED
  BY <1>2, <1>3
=============================================================================
