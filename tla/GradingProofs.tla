---------------------------- MODULE GradingProofs ---------------------------
(***************************************************************************)
(* Proofs about Grading: the figures stored by a computation that no       *)
(* change of the transcript overtook are those of the transcript, for      *)
(* every scale, every set of bands and every transcript.                   *)
(***************************************************************************)
EXTENDS Grading, SequenceTheorems, FiniteSums

-----------------------------------------------------------------------------
(***************************************************************************)
(* The scale.                                                              *)
(***************************************************************************)
LEMMA ScaleNumbers ==
  /\ DOMAIN Scale \subseteq Nat /\ IsFiniteSet(DOMAIN Scale) /\ DOMAIN Scale # {}
  /\ \A i \in DOMAIN Scale : Scale[i].min_score \in Int /\ Scale[i].points \in Int
<1>1. DOMAIN Scale = 1..Len(Scale) /\ Len(Scale) \in Nat /\ Len(Scale) # 0
  BY GradingAssumption, EmptySeq
<1>2. IsFiniteSet(DOMAIN Scale)
  BY <1>1, FS_Interval
<1> QED
  BY <1>1, <1>2, GradingAssumption

LEMMA TotalsAreNumbers == Totals \subseteq Nat
  BY GradingAssumption

\* Among any bands of the scale there is a first one and a last one.
LEMMA FirstAndLast ==
  ASSUME NEW S \in SUBSET DOMAIN Scale, S # {}
  PROVE  /\ \E i \in S : \A j \in S : Precedes(i, j)
         /\ \E i \in S : \A j \in S : Precedes(j, i)
<1> DEFINE start == [i \in S |-> Scale[i].min_score]
           place == [i \in S |-> i]
<1>1. IsFiniteSet(S) /\ S \subseteq Nat
  BY ScaleNumbers, FS_Subset
<1>2. \A i \in S : /\ start[i] = Scale[i].min_score /\ start[i] \in Int
                   /\ place[i] = i /\ place[i] \in Int
  BY <1>1, ScaleNumbers
<1> HIDE DEF start, place
<1>3. ASSUME NEW h \in S
      PROVE  LET level == {i \in S : start[i] = start[h]}
             IN  \E f, l \in level : \A i \in level : f <= i /\ i <= l
  <2> DEFINE level == {i \in S : start[i] = start[h]}
  <2>1. level # {} /\ IsFiniteSet(level) /\ level \subseteq S
    BY <1>1, FS_Subset
  <2>2. \A i \in level : place[i] \in Int /\ place[i] = i
    BY <1>2
  <2> HIDE DEF level
  <2>3. PICK f \in level : \A i \in level : place[f] <= place[i]
    BY <2>1, <2>2, SmallestBy
  <2>4. PICK l \in level : \A i \in level : place[l] >= place[i]
    BY <2>1, <2>2, LargestBy
  <2>5. \A i \in level : f <= i /\ i <= l
    BY <2>1, <2>2, <2>3, <2>4, <1>1
  <2> QED
    BY <2>5 DEF level
<1>4. \E i \in S : \A j \in S : Precedes(i, j)
  <2>1. PICK h \in S : \A j \in S : start[h] >= start[j]
    BY <1>1, <1>2, LargestBy
  <2>2. PICK f \in S : start[f] = start[h] /\ \A i \in S : start[i] = start[h] => f <= i
    BY <1>3
  <2>3. \A j \in S : Precedes(f, j)
    BY <1>2, <2>1, <2>2 DEF Precedes
  <2> QED
    BY <2>3
<1>5. \E i \in S : \A j \in S : Precedes(j, i)
  <2>1. PICK h \in S : \A j \in S : start[h] <= start[j]
    BY <1>1, <1>2, SmallestBy
  <2>2. PICK l \in S : start[l] = start[h] /\ \A i \in S : start[i] = start[h] => i <= l
    BY <1>3
  <2>3. \A j \in S : Precedes(j, l)
    BY <1>2, <2>1, <2>2 DEF Precedes
  <2> QED
    BY <2>3
<1> QED
  BY <1>4, <1>5

\* Every score has a grade.
LEMMA GradeOfScale ==
  ASSUME NEW score \in Int
  PROVE  \E i \in DOMAIN Scale : GradeForScore(score) = Scale[i]
<1> DEFINE reached == {i \in DOMAIN Scale : score >= Scale[i].min_score}
<1>1. CASE reached # {}
  <2>1. (CHOOSE i \in reached : \A j \in reached : Precedes(i, j)) \in reached
    BY <1>1, FirstAndLast
  <2> QED
    BY <1>1, <2>1 DEF GradeForScore
<1>2. CASE reached = {}
  <2>1. (CHOOSE i \in DOMAIN Scale : \A j \in DOMAIN Scale : Precedes(j, i)) \in DOMAIN Scale
    BY ScaleNumbers, FirstAndLast
  <2> QED
    BY <1>2, <2>1 DEF GradeForScore
<1> QED
  BY <1>1, <1>2

-----------------------------------------------------------------------------
(***************************************************************************)
(* One transcript.                                                         *)
(***************************************************************************)
\* A row holds the letter its score earns.
GradedScore == {row \in StudentScore : row.grade = GradeForScore(row.total).grade}

Transcript == rows \in Seq(GradedScore)

LEMMA RowFacts ==
  ASSUME Transcript, NEW n \in DOMAIN rows
  PROVE  /\ rows[n] \in StudentScore /\ rows[n].total \in Nat /\ rows[n].course \in Courses
         /\ Units[rows[n].course] \in Nat
         /\ Points(rows[n]) = GradeForScore(rows[n].total).points
         /\ Points(rows[n]) \in Int
<1>1. rows[n] \in StudentScore /\ rows[n].grade = GradeForScore(rows[n].total).grade
  BY DEF Transcript, GradedScore
<1>2. rows[n].total \in Nat /\ rows[n].course \in Courses /\ Units[rows[n].course] \in Nat
  BY <1>1, GradingAssumption DEF StudentScore
<1>3. PICK i \in DOMAIN Scale : GradeForScore(rows[n].total) = Scale[i]
  BY <1>2, GradeOfScale
<1>4. \A j \in DOMAIN Scale : Scale[j].grade = rows[n].grade <=> j = i
  BY <1>1, <1>3, GradingAssumption
<1>5. (CHOOSE j \in DOMAIN Scale : Scale[j].grade = rows[n].grade) = i
  BY <1>4
<1>6. Points(rows[n]) = Scale[i].points /\ Scale[i].points \in Int
  BY <1>5, ScaleNumbers DEF Points
<1> QED
  BY <1>1, <1>2, <1>3, <1>6

LEMMA RowNumbers ==
  ASSUME Transcript
  PROVE  /\ DOMAIN rows \subseteq Nat /\ IsFiniteSet(DOMAIN rows)
         /\ \A c : RowsOf(c) \subseteq DOMAIN rows /\ IsFiniteSet(RowsOf(c))
         /\ \A c \in Attempted : RowsOf(c) # {}
         /\ Attempted \subseteq Courses
<1>1. DOMAIN rows = 1..Len(rows) /\ Len(rows) \in Nat
  BY DEF Transcript
<1>2. IsFiniteSet(DOMAIN rows)
  BY <1>1, FS_Interval
<1>3. \A c : RowsOf(c) \subseteq DOMAIN rows /\ IsFiniteSet(RowsOf(c))
  BY <1>2, FS_Subset DEF RowsOf
<1>4. Attempted \subseteq Courses
  BY RowFacts DEF Attempted
<1>5. \A c \in Attempted : RowsOf(c) # {}
  BY DEF Attempted, RowsOf
<1> QED
  BY <1>1, <1>2, <1>3, <1>4, <1>5

\* Of the attempts at a course one beats all: of those with the most points, the
\* one with the highest score, and the latest of these.
LEMMA SomeBeatsAll ==
  ASSUME Transcript, NEW c \in Attempted
  PROVE  \E m \in RowsOf(c) : \A n \in RowsOf(c) : Beats(m, n)
<1> DEFINE points == [n \in RowsOf(c) |-> Points(rows[n])]
           total == [n \in RowsOf(c) |-> rows[n].total]
           number == [n \in RowsOf(c) |-> n]
<1>1. /\ IsFiniteSet(RowsOf(c)) /\ RowsOf(c) # {} /\ RowsOf(c) \subseteq Nat
      /\ RowsOf(c) \subseteq DOMAIN rows
  BY RowNumbers
<1>2. \A n \in RowsOf(c) : /\ points[n] = Points(rows[n]) /\ points[n] \in Int
                           /\ total[n] = rows[n].total /\ total[n] \in Int
                           /\ number[n] = n /\ number[n] \in Int
  BY <1>1, RowFacts
<1> HIDE DEF points, total, number
<1>3. PICK p \in RowsOf(c) : \A n \in RowsOf(c) : points[p] >= points[n]
  BY <1>1, <1>2, LargestBy
<1> DEFINE Best == {n \in RowsOf(c) : points[n] = points[p]}
<1>4. Best # {} /\ IsFiniteSet(Best) /\ Best \subseteq RowsOf(c)
  BY <1>1, FS_Subset
<1>5. PICK t \in Best : \A n \in Best : total[t] >= total[n]
  <2>1. \A n \in Best : total[n] \in Int
    BY <1>2
  <2> HIDE DEF Best
  <2> QED
    BY <1>4, <2>1, LargestBy
<1> DEFINE Top == {n \in Best : total[n] = total[t]}
<1>6. Top # {} /\ IsFiniteSet(Top) /\ Top \subseteq Best
  BY <1>4, FS_Subset
<1>7. PICK m \in Top : \A n \in Top : number[m] >= number[n]
  <2>1. \A n \in Top : number[n] \in Int
    BY <1>2
  <2> HIDE DEF Top
  <2> QED
    BY <1>6, <2>1, LargestBy
<1>8. m \in RowsOf(c) /\ points[m] = points[p] /\ total[m] = total[t]
  BY <1>7
<1>9. ASSUME NEW n \in RowsOf(c) PROVE Beats(m, n)
  <2>1. CASE points[n] # points[p]
    BY <1>2, <1>3, <1>8, <2>1 DEF Beats
  <2>2. CASE points[n] = points[p] /\ total[n] # total[t]
    BY <1>2, <1>5, <1>8, <2>2 DEF Beats
  <2>3. CASE points[n] = points[p] /\ total[n] = total[t]
    <3>1. m >= n
      BY <1>2, <1>7, <1>8, <2>3
    <3> QED
      BY <1>2, <1>8, <2>3, <3>1 DEF Beats
  <2> QED
    BY <2>1, <2>2, <2>3
<1> QED
  BY <1>8, <1>9

\* The attempt that stands for a course is a best one, and all best ones scored
\* the same.
LEMMA BestIsBest ==
  ASSUME Transcript, NEW c \in Attempted
  PROVE  /\ BestAttempt(c) \in RowsOf(c) /\ IsBest(BestAttempt(c), c)
         /\ \A m \in RowsOf(c) : IsBest(m, c) => rows[m].total = rows[BestAttempt(c)].total
<1> DEFINE best == BestAttempt(c)
<1>1. best \in RowsOf(c) /\ \A n \in RowsOf(c) : Beats(best, n)
  BY SomeBeatsAll DEF BestAttempt, RowsOf
<1> HIDE DEF best
<1>2. \A n \in RowsOf(c) : /\ rows[n].total \in Int /\ Points(rows[n]) \in Int
                           /\ Points(rows[n]) = GradeForScore(rows[n].total).points
  BY RowFacts DEF RowsOf
<1> DEFINE worth == [n \in RowsOf(c) |-> GradeForScore(rows[n].total).points]
<1>3. \A n \in RowsOf(c) : worth[n] = Points(rows[n])
  BY <1>2
<1>4. \A m : IsBest(m, c) <=>
         /\ m \in RowsOf(c)
         /\ \A n \in RowsOf(c) : worth[n] < worth[m] \/ (worth[n] = worth[m] /\ rows[n].total <= rows[m].total)
  BY DEF IsBest
<1> HIDE DEF worth
<1>5. \A m : IsBest(m, c) <=>
         /\ m \in RowsOf(c)
         /\ \A n \in RowsOf(c) : \/ Points(rows[n]) < Points(rows[m])
                                 \/ Points(rows[n]) = Points(rows[m]) /\ rows[n].total <= rows[m].total
  BY <1>3, <1>4
<1>6. IsBest(best, c)
  BY <1>1, <1>2, <1>5 DEF Beats
<1>7. ASSUME NEW m \in RowsOf(c), IsBest(m, c) PROVE rows[m].total = rows[best].total
  BY <1>1, <1>2, <1>5, <1>6, <1>7
<1> QED
  BY <1>1, <1>6, <1>7 DEF best

-----------------------------------------------------------------------------
(***************************************************************************)
(* The averages.                                                           *)
(***************************************************************************)

\* Rounding a quotient that is not negative.
LEMMA RoundNat ==
  ASSUME NEW n \in Nat, NEW d \in Nat, d # 0
  PROVE  /\ (2 * n + d) \div (2 * d) \in Nat
         /\ IsNearest((2 * n + d) \div (2 * d), n, d)
<1> DEFINE a == 2 * n + d
           b == 2 * d
           g == a \div b
<1>1. a \in Nat /\ b \in Nat /\ b > 0
  OBVIOUS
<1>2. g \in Nat /\ b * g <= a /\ a < b * (g + 1)
  <2> HIDE DEF a, b
  <2> QED
    BY <1>1
<1> HIDE DEF g
<1>3. b * g = 2 * (g * d) /\ b * (g + 1) = 2 * (g * d) + 2 * d /\ g * d \in Nat
  <2>1. \A h \in Nat : (2 * d) * h = 2 * (h * d) /\ h * d \in Nat
    OBVIOUS
  <2>2. (g + 1) * d = g * d + d
    BY <1>2
  <2> QED
    BY <1>2, <2>1, <2>2
<1>4. 2 * (n - g * d) = 2 * n - 2 * (g * d)
  BY <1>3
<1>5. IsNearest(g, n, d)
  BY <1>2, <1>3, <1>4 DEF IsNearest
<1> QED
  BY <1>2, <1>5 DEF g

\* Rounding goes to the nearest whole number (grading.services._round).
LEMMA RoundIsNearest ==
  ASSUME NEW n \in Int, NEW d \in Nat, d # 0
  PROVE  Round(n, d) \in Int /\ IsNearest(Round(n, d), n, d)
<1>1. CASE n >= 0
  BY <1>1, RoundNat DEF Round
<1>2. CASE n < 0
  <2> DEFINE m == -n
             g == (2 * m + d) \div (2 * d)
  <2>1. m \in Nat /\ g \in Nat /\ IsNearest(g, m, d)
    <3>1. m \in Nat
      BY <1>2
    <3> QED
      BY <3>1, RoundNat
  <2>2. Round(n, d) = -g
    <3>1. d - 2 * n = 2 * m + d
      OBVIOUS
    <3> QED
      BY <1>2, <3>1 DEF Round
  <2>3. (-g) * d = -(g * d) /\ g * d \in Int
    <3> HIDE DEF g
    <3> QED
      BY <2>1
  <2> HIDE DEF g
  <2>4. 2 * (n - (-g) * d) = -(2 * (m - g * d))
    BY <2>3
  <2>5. -d <= 2 * (m - g * d) /\ 2 * (m - g * d) < d
    BY <2>1 DEF IsNearest
  <2>6. IsNearest(-g, n, d)
    BY <1>2, <2>3, <2>4, <2>5 DEF IsNearest
  <2> QED
    BY <2>1, <2>2, <2>6
<1> QED
  BY <1>1, <1>2

\* The units and the quality points of some rows; and the quality points of their
\* scores, whatever letter was stored.
UnitsOf(numbers) == [n \in numbers |-> Units[rows[n].course]]

QualityOf(numbers) == [n \in numbers |-> Units[rows[n].course] * Points(rows[n])]

EarnedBy(numbers) == [n \in numbers |-> Units[rows[n].course] * GradeForScore(rows[n].total).points]

LEMMA FoldIsSum ==
  ASSUME NEW w
  PROVE  SumFunction(w) = SumOf(w, DOMAIN w)
  BY DEF SumFunction, SumFunctionOnSet, FoldFunctionOnSet, SumOf, MapThenSumSet

LEMMA SumOfNat ==
  ASSUME NEW D, IsFiniteSet(D), NEW w, \A x \in D : w[x] \in Nat
  PROVE  SumOf(w, D) \in Nat
<1>1. SumOf(w, D) \in Int
  BY SumOfInt
<1>2. SumOf(w, {}) <= SumOf(w, D) /\ SumOf(w, {}) = 0
  BY SumOfSubset, SumOfEmpty
<1> QED
  BY <1>1, <1>2

LEMMA AverageIsTrue ==
  ASSUME Transcript, NEW numbers \in SUBSET DOMAIN rows
  PROVE  /\ IsAverage(Average(numbers), numbers)
         /\ Average(numbers) \in Figure
         /\ \A g, h \in Average(numbers) : g = h
<1> DEFINE units == UnitsOf(numbers)
           quality == QualityOf(numbers)
           earned == EarnedBy(numbers)
<1>1. IsFiniteSet(numbers)
  BY RowNumbers, FS_Subset
<1>2. /\ DOMAIN units = numbers /\ DOMAIN quality = numbers /\ DOMAIN earned = numbers
      /\ \A n \in numbers : units[n] \in Nat /\ quality[n] \in Int /\ quality[n] = earned[n]
  <2>1. ASSUME NEW n \in numbers
        PROVE  units[n] \in Nat /\ quality[n] \in Int /\ quality[n] = earned[n]
    <3>1. /\ Units[rows[n].course] \in Nat /\ Points(rows[n]) \in Int
          /\ Points(rows[n]) = GradeForScore(rows[n].total).points
      BY RowFacts
    <3>2. \A i, j \in Int : i * j \in Int
      OBVIOUS
    <3> QED
      BY <3>1, <3>2 DEF UnitsOf, QualityOf, EarnedBy
  <2> QED
    BY <2>1 DEF UnitsOf, QualityOf, EarnedBy
<1> DEFINE u == SumOf(units, numbers)
           p == SumOf(quality, numbers)
<1>3. Average(numbers) = Gpa(SumFunction(quality), SumFunction(units))
  BY DEF Average, QualityOf, UnitsOf
<1>4. IsAverage(Average(numbers), numbers) <=>
         LET w == SumFunction(units)
             q == SumFunction(earned)
         IN  IF w = 0 THEN Average(numbers) = {}
             ELSE \E g \in Average(numbers) : IsNearest(g, 100 * q, PointUnit * w)
  BY DEF IsAverage, UnitsOf, EarnedBy
<1> HIDE DEF units, quality, earned
<1>5. u \in Nat /\ p \in Int
  BY <1>1, <1>2, SumOfNat, SumOfInt
<1>6. SumFunction(units) = u /\ SumFunction(quality) = p /\ SumFunction(earned) = p
  BY <1>1, <1>2, FoldIsSum, SumOfSame
<1> HIDE DEF u, p
<1>7. CASE u = 0
  BY <1>3, <1>4, <1>6, <1>7 DEF Gpa, Figure
<1>8. CASE u # 0
  <2> DEFINE n == 100 * p
             d == PointUnit * u
  <2>1. Average(numbers) = {Round(n, d)}
    BY <1>3, <1>6, <1>8 DEF Gpa
  <2>2. n \in Int /\ d \in Nat /\ d # 0
    <3>1. \A i, j \in Nat \ {0} : i * j \in Nat \ {0}
      OBVIOUS
    <3> QED
      BY <1>5, <1>8, <3>1, GradingAssumption
  <2>3. IsAverage(Average(numbers), numbers) <=> \E g \in Average(numbers) : IsNearest(g, n, d)
    BY <1>4, <1>6, <1>8
  <2> HIDE DEF n, d
  <2>4. Round(n, d) \in Int /\ IsNearest(Round(n, d), n, d)
    BY <2>2, RoundIsNearest
  <2> QED
    BY <2>1, <2>3, <2>4 DEF Figure
<1> QED
  BY <1>7, <1>8

LEMMA TermGpaIsTrue ==
  ASSUME Transcript, NEW t
  PROVE  IsAverage(TermGpa(t), RowsIn(t)) /\ TermGpa(t) \in Figure
<1>1. RowsIn(t) \in SUBSET DOMAIN rows
  BY DEF RowsIn
<1> QED
  BY <1>1, AverageIsTrue DEF TermGpa

\* Of each course one attempt counts, or all of them.
LEMMA CgpaIsTrue ==
  ASSUME Transcript, method \in Methods
  PROVE  /\ \E counted \in SUBSET DOMAIN rows : IsCounted(counted) /\ IsAverage(Cgpa, counted)
         /\ Cgpa \in Figure /\ \A g, h \in Cgpa : g = h
<1> DEFINE best == {BestAttempt(c) : c \in Attempted}
<1>1. CASE method = "HIGHEST_ONLY"
  <2>1. best \in SUBSET DOMAIN rows
    BY BestIsBest, RowNumbers
  <2>2. Cgpa = Average(best)
    BY <1>1 DEF Cgpa
  <2>3. ASSUME NEW c \in Attempted PROVE best \cap RowsOf(c) = {BestAttempt(c)}
    <3>1. \A d \in Attempted : rows[BestAttempt(d)].course = d
      BY BestIsBest DEF RowsOf
    <3>2. BestAttempt(c) \in best \cap RowsOf(c)
      BY BestIsBest
    <3> QED
      BY <3>1, <3>2 DEF RowsOf
  <2>4. IsCounted(best)
    BY <1>1, <2>3, BestIsBest DEF IsCounted
  <2> HIDE DEF best
  <2> QED
    BY <2>1, <2>2, <2>4, AverageIsTrue
<1>2. CASE method = "ALL_ATTEMPTS"
  <2>1. Cgpa = Average(DOMAIN rows) /\ IsCounted(DOMAIN rows)
    BY <1>2 DEF Cgpa, IsCounted
  <2> QED
    BY <2>1, AverageIsTrue
<1> QED
  BY <1>1, <1>2 DEF Methods

\* A course is carried over when its best attempt failed.
LEMMA CarryoversAreTrue ==
  ASSUME Transcript
  PROVE  /\ Carryovers = {c \in Attempted :
                            \E m \in RowsOf(c) : /\ IsBest(m, c)
                                                /\ rows[m].total < Institution.carryover_pass_mark}
         /\ Carryovers \subseteq Courses
<1>1. ASSUME NEW c \in Attempted
      PROVE  rows[BestAttempt(c)].total < Institution.carryover_pass_mark <=>
                \E m \in RowsOf(c) : IsBest(m, c) /\ rows[m].total < Institution.carryover_pass_mark
  BY BestIsBest
<1> QED
  BY <1>1, RowNumbers DEF Carryovers

-----------------------------------------------------------------------------
(***************************************************************************)
(* What follows from the averages.                                         *)
(***************************************************************************)
Met(cgpa) == {b \in Bands : \E g \in cgpa : g >= b.min_cgpa}

LEMMA ClassIsTrue ==
  ASSUME NEW cgpa \in Figure, \A g, h \in cgpa : g = h
  PROVE  IsClass(Classify(cgpa).name, cgpa)
<1> DEFINE starts == [b \in Bands |-> b.min_cgpa]
<1>1. /\ IsFiniteSet(Met(cgpa)) /\ Met(cgpa) \subseteq Bands
      /\ \A b \in Met(cgpa) : starts[b] = b.min_cgpa /\ b.min_cgpa \in Int
  BY GradingAssumption, FS_Subset DEF Met
<1> HIDE DEF starts
<1>2. CASE cgpa = {}
  BY <1>2 DEF Classify, IsClass
<1>3. CASE cgpa # {} /\ Met(cgpa) # {}
  <2> DEFINE top == CHOOSE b \in Met(cgpa) : \A a \in Met(cgpa) : b.min_cgpa >= a.min_cgpa
  <2>1. top \in Met(cgpa) /\ \A a \in Met(cgpa) : top.min_cgpa >= a.min_cgpa
    <3>1. \E b \in Met(cgpa) : \A a \in Met(cgpa) : starts[b] >= starts[a]
      BY <1>1, <1>3, LargestBy
    <3> QED
      BY <1>1, <3>1
  <2>2. Classify(cgpa).name = top.name
    BY <1>3 DEF Classify, Met
  <2> HIDE DEF top
  <2>3. \A a \in Bands : a.min_cgpa > top.min_cgpa => a \notin Met(cgpa)
    BY <1>1, <2>1
  <2> QED
    BY <1>3, <2>1, <2>2, <2>3 DEF IsClass, Met
<1>4. CASE cgpa # {} /\ Met(cgpa) = {}
  BY <1>4 DEF Classify, IsClass, Met
<1> QED
  BY <1>2, <1>3, <1>4

LEMMA ClassTyped ==
  ASSUME NEW cgpa \in Figure
  PROVE  Classify(cgpa) \in [name : {"", "Fail"} \cup {b.name : b \in Bands}, borderline : BOOLEAN]
<1> DEFINE starts == [b \in Bands |-> b.min_cgpa]
<1>1. /\ IsFiniteSet(Met(cgpa)) /\ Met(cgpa) \subseteq Bands
      /\ \A b \in Met(cgpa) : starts[b] = b.min_cgpa /\ b.min_cgpa \in Int
  BY GradingAssumption, FS_Subset DEF Met
<1> HIDE DEF starts
<1>2. Met(cgpa) # {} => (CHOOSE b \in Met(cgpa) : \A a \in Met(cgpa) : b.min_cgpa >= a.min_cgpa) \in Bands
  <2>1. Met(cgpa) # {} => \E b \in Met(cgpa) : \A a \in Met(cgpa) : starts[b] >= starts[a]
    BY <1>1, LargestBy
  <2> QED
    BY <1>1, <2>1
<1> QED
  BY <1>2 DEF Classify, Met

-----------------------------------------------------------------------------
(***************************************************************************)
(* The task.  A run that no change overtook holds the figures of the       *)
(* transcript as it is, and so does a row stored by such a run.            *)
(***************************************************************************)
Figures(t) ==
    [gpa |-> TermGpa(t), cgpa |-> Cgpa, standing |-> StandingFor(Cgpa),
     classification |-> Classify(Cgpa), carryovers |-> Carryovers]

RunsTruly ==
    \A k \in Tasks : ~compute[k].overtaken =>
       /\ compute[k].pc # "idle" => compute[k].cgpa = Cgpa
       /\ compute[k].pc = "store" => compute[k].gpa = TermGpa(compute[k].term)

StoredTruly == \A t \in current : standing[t] = {Figures(t)}

GradingInv == GradingTypeOK /\ Transcript /\ RunsTruly /\ StoredTruly

LEMMA GradingInvSuffices == GradingInv => StandingIsTrue
<1> SUFFICES ASSUME GradingInv, NEW t \in current
             PROVE  LET s == Figures(t)
                    IN  /\ s \in standing[t]
                        /\ IsAverage(s.gpa, RowsIn(t))
                        /\ \E counted \in SUBSET DOMAIN rows : IsCounted(counted) /\ IsAverage(s.cgpa, counted)
                        /\ s.carryovers = {c \in Attempted :
                              \E m \in RowsOf(c) : /\ IsBest(m, c)
                                                  /\ rows[m].total < Institution.carryover_pass_mark}
                        /\ IsClass(s.classification.name, s.cgpa)
  BY DEF StandingIsTrue
<1>1. Transcript /\ method \in Methods /\ standing[t] = {Figures(t)}
  BY DEF GradingInv, GradingTypeOK, StoredTruly
<1>2. IsClass(Classify(Cgpa).name, Cgpa)
  BY <1>1, CgpaIsTrue, ClassIsTrue
<1> QED
  BY <1>1, <1>2, TermGpaIsTrue, CgpaIsTrue, CarryoversAreTrue DEF Figures

LEMMA FiguresStay ==
  ASSUME rows' = rows, method' = method
  PROVE  /\ Cgpa' = Cgpa /\ Carryovers' = Carryovers
         /\ \A t : TermGpa(t)' = TermGpa(t) /\ Figures(t)' = Figures(t)
<1>1. \A numbers : Average(numbers)' = Average(numbers)
  BY DEF Average, Points
<1>2. Attempted' = Attempted /\ \A c : BestAttempt(c)' = BestAttempt(c)
  BY DEF Attempted, BestAttempt, Beats, Points
<1>3. \A t : RowsIn(t)' = RowsIn(t)
  BY DEF RowsIn
<1>4. Cgpa' = Cgpa
  BY <1>1, <1>2 DEF Cgpa
<1>5. Carryovers' = Carryovers
  BY <1>2 DEF Carryovers
<1>6. \A t : TermGpa(t)' = TermGpa(t)
  BY <1>1, <1>3 DEF TermGpa
<1> QED
  BY <1>4, <1>5, <1>6 DEF Figures

LEMMA FiguresTyped ==
  ASSUME GradingInv
  PROVE  /\ Cgpa \in Figure
         /\ \A t : TermGpa(t) \in Figure
         /\ Carryovers \in SUBSET Courses
         /\ \A cgpa \in Figure : /\ Classify(cgpa) \in [name : {"", "Fail"} \cup {b.name : b \in Bands},
                                                       borderline : BOOLEAN]
                                 /\ StandingFor(cgpa) \in {"", "withdrawal", "probation", "good"}
<1>1. Transcript /\ method \in Methods
  BY DEF GradingInv, GradingTypeOK
<1>2. \A cgpa : StandingFor(cgpa) \in {"", "withdrawal", "probation", "good"}
  BY DEF StandingFor
<1> QED
  BY <1>1, <1>2, CgpaIsTrue, TermGpaIsTrue, CarryoversAreTrue, ClassTyped

LEMMA IdleComputeTyped == IdleCompute \in Compute /\ IdleCompute.pc = "idle" /\ ~IdleCompute.overtaken
  BY GradingAssumption DEF IdleCompute, Compute, Figure

LEMMA GradingBegins == GradingInit => GradingInv
<1> SUFFICES ASSUME GradingInit PROVE GradingInv
  OBVIOUS
<1>1. GradingTypeOK
  BY IdleComputeTyped, GradingAssumption DEF GradingInit, GradingTypeOK
<1>2. Transcript
  BY DEF GradingInit, Transcript
<1>3. RunsTruly /\ StoredTruly
  BY IdleComputeTyped DEF GradingInit, RunsTruly, StoredTruly
<1> QED
  BY <1>1, <1>2, <1>3 DEF GradingInv

\* A change of the transcript, whatever the rows become.
LEMMA OvertakeKeeps ==
  ASSUME GradingInv, Overtake, Transcript'
  PROVE  GradingInv'
<1>1. rows' \in Seq(StudentScore)
  BY DEF Transcript, GradedScore
<1>2. GradingTypeOK'
  <2>1. changes' \in 0..MaxChanges
    BY GradingAssumption DEF Overtake, GradingInv, GradingTypeOK
  <2>2. compute' \in [Tasks -> Compute] /\ \A k \in Tasks : compute'[k].overtaken
    BY DEF Overtake, GradingInv, GradingTypeOK, Compute
  <2> QED
    BY <1>1, <2>1, <2>2 DEF Overtake, GradingInv, GradingTypeOK
<1>3. RunsTruly' /\ StoredTruly'
  BY DEF Overtake, RunsTruly, StoredTruly, GradingInv, GradingTypeOK, Compute
<1> QED
  BY <1>2, <1>3 DEF GradingInv

LEMMA RatifyRowKeeps ==
  ASSUME GradingInv, NEW c \in Courses, NEW t \in Terms, NEW total \in Totals, RatifyRow(c, t, total)
  PROVE  GradingInv'
<1> DEFINE row == [course |-> c, term |-> t, total |-> total, grade |-> GradeForScore(total).grade]
<1>1. row \in GradedScore
  <2>1. total \in Int
    BY TotalsAreNumbers
  <2>2. GradeForScore(total).grade \in Letters
    BY <2>1, GradeOfScale DEF Letters
  <2> QED
    BY <2>2 DEF GradedScore, StudentScore
<1>2. rows' = Append(rows, row)
  BY DEF RatifyRow
<1> HIDE DEF row
<1>3. Transcript'
  BY <1>1, <1>2 DEF GradingInv, Transcript
<1> QED
  BY <1>3, OvertakeKeeps DEF RatifyRow

LEMMA AmendRowKeeps ==
  ASSUME GradingInv, NEW n \in DOMAIN rows, NEW total \in Totals, AmendRow(n, total)
  PROVE  GradingInv'
<1> DEFINE row == [rows[n] EXCEPT !.total = total, !.grade = GradeForScore(total).grade]
<1>1. row \in GradedScore
  <2>1. total \in Int
    BY TotalsAreNumbers
  <2>2. GradeForScore(total).grade \in Letters
    BY <2>1, GradeOfScale DEF Letters
  <2>3. rows[n] \in StudentScore
    BY RowFacts DEF GradingInv
  <2> QED
    BY <2>2, <2>3 DEF GradedScore, StudentScore
<1>2. rows' = Append(RemoveAt(rows, n), row)
  BY DEF AmendRow
<1> HIDE DEF row
<1>3. RemoveAt(rows, n) \in Seq(GradedScore)
  <2>1. rows \in Seq(GradedScore) /\ Len(rows) \in Nat /\ n \in 1..Len(rows)
    BY DEF GradingInv, Transcript
  <2>2. SubSeq(rows, 1, n - 1) \in Seq(GradedScore)
    BY <2>1, SubSeqProperties
  <2>3. SubSeq(rows, n + 1, Len(rows)) \in Seq(GradedScore)
    BY <2>1, SubSeqProperties
  <2> QED
    BY <2>2, <2>3, ConcatProperties DEF RemoveAt
<1>4. Transcript'
  BY <1>1, <1>2, <1>3 DEF Transcript
<1> QED
  BY <1>4, OvertakeKeeps DEF AmendRow

\* A run that reads, or is over.
LEMMA RunKeeps ==
  ASSUME GradingInv, NEW k \in Tasks, NEW next \in Compute,
         compute' = [compute EXCEPT ![k] = next],
         UNCHANGED <<method, rows, changes, standing, current>>,
         ~next.overtaken => /\ next.pc # "idle" => next.cgpa = Cgpa
                            /\ next.pc = "store" => next.gpa = TermGpa(next.term)
  PROVE  GradingInv'
<1>1. GradingTypeOK' /\ Transcript'
  BY DEF GradingInv, GradingTypeOK, Transcript
<1>2. Cgpa' = Cgpa /\ \A t : TermGpa(t)' = TermGpa(t) /\ Figures(t)' = Figures(t)
  BY FiguresStay
<1>3. \A j \in Tasks : compute'[j] = IF j = k THEN next ELSE compute[j]
  BY DEF GradingInv, GradingTypeOK
<1>4. RunsTruly'
  BY <1>2, <1>3 DEF GradingInv, RunsTruly
<1>5. StoredTruly'
  BY <1>2 DEF GradingInv, StoredTruly
<1> QED
  BY <1>1, <1>4, <1>5 DEF GradingInv

LEMMA BeginKeeps ==
  ASSUME GradingInv, NEW k \in Tasks, NEW t \in Terms, ComputeStart(k, t)
  PROVE  GradingInv'
<1> DEFINE next == [IdleCompute EXCEPT !.pc = "term", !.term = t, !.cgpa = Cgpa]
<1>1. next \in Compute /\ next.pc = "term" /\ next.cgpa = Cgpa
  BY IdleComputeTyped, FiguresTyped DEF Compute
<1>2. compute' = [compute EXCEPT ![k] = next] /\ UNCHANGED <<method, rows, changes, standing, current>>
  BY DEF ComputeStart
<1> HIDE DEF next
<1> QED
  BY <1>1, <1>2, RunKeeps

LEMMA TermKeeps ==
  ASSUME GradingInv, NEW k \in Tasks, ComputeTerm(k)
  PROVE  GradingInv'
<1> DEFINE next == [compute[k] EXCEPT !.pc = "store", !.gpa = TermGpa(compute[k].term)]
<1>1. compute[k] \in Compute /\ compute[k].pc = "term"
  BY DEF GradingInv, GradingTypeOK, ComputeTerm
<1>2. /\ next \in Compute /\ next.gpa = TermGpa(next.term) /\ next.cgpa = compute[k].cgpa
      /\ next.overtaken = compute[k].overtaken
  BY <1>1, FiguresTyped DEF Compute
<1>3. compute' = [compute EXCEPT ![k] = next] /\ UNCHANGED <<method, rows, changes, standing, current>>
  BY DEF ComputeTerm
<1>4. ~next.overtaken => next.cgpa = Cgpa
  BY <1>1, <1>2 DEF GradingInv, RunsTruly
<1> HIDE DEF next
<1> QED
  BY <1>2, <1>3, <1>4, RunKeeps

LEMMA DeathKeeps ==
  ASSUME GradingInv, NEW k \in Tasks, ComputeDies(k)
  PROVE  GradingInv'
<1>1. compute' = [compute EXCEPT ![k] = IdleCompute] /\ UNCHANGED <<method, rows, changes, standing, current>>
  BY DEF ComputeDies
<1> QED
  BY <1>1, IdleComputeTyped, RunKeeps

LEMMA StoreKeeps ==
  ASSUME GradingInv, NEW k \in Tasks, ComputeStore(k)
  PROVE  GradingInv'
<1> DEFINE run == compute[k]
           figures == [gpa |-> run.gpa, cgpa |-> run.cgpa, standing |-> StandingFor(run.cgpa),
                       classification |-> Classify(run.cgpa), carryovers |-> Carryovers]
<1>1. run \in Compute /\ run.pc = "store" /\ run.term \in Terms
  BY DEF GradingInv, GradingTypeOK, ComputeStore, Compute
<1>2. figures \in AcademicStanding
  BY <1>1, FiguresTyped DEF Compute, AcademicStanding
<1>3. /\ standing' = [standing EXCEPT ![run.term] = {figures}]
      /\ current' = IF run.overtaken THEN current \ {run.term} ELSE current \cup {run.term}
      /\ compute' = [compute EXCEPT ![k] = IdleCompute]
      /\ UNCHANGED <<method, rows, changes>>
  BY DEF ComputeStore
<1>4. ~run.overtaken => figures = Figures(run.term)
  BY <1>1 DEF GradingInv, RunsTruly, Figures
<1> HIDE DEF run, figures
<1>5. GradingTypeOK' /\ Transcript'
  BY <1>1, <1>2, <1>3, IdleComputeTyped DEF GradingInv, GradingTypeOK, Transcript
<1>6. Cgpa' = Cgpa /\ \A t : TermGpa(t)' = TermGpa(t) /\ Figures(t)' = Figures(t)
  BY <1>3, FiguresStay
<1>7. RunsTruly'
  BY <1>3, <1>6, IdleComputeTyped DEF GradingInv, GradingTypeOK, RunsTruly
<1>8. StoredTruly'
  <2>1. current \subseteq Terms /\ standing \in [Terms -> SUBSET AcademicStanding] /\ StoredTruly
    BY DEF GradingInv, GradingTypeOK
  <2> QED
    BY <1>1, <1>3, <1>4, <1>6, <2>1 DEF StoredTruly
<1> QED
  BY <1>5, <1>7, <1>8 DEF GradingInv

LEMMA GradingStep == GradingInv /\ [GradingNext]_gradingVars => GradingInv'
<1> SUFFICES ASSUME GradingInv, [GradingNext]_gradingVars PROVE GradingInv'
  OBVIOUS
<1>1. CASE UNCHANGED gradingVars
  <2>1. GradingTypeOK' /\ Transcript'
    BY <1>1 DEF gradingVars, GradingInv, GradingTypeOK, Transcript
  <2>2. Cgpa' = Cgpa /\ \A t : TermGpa(t)' = TermGpa(t) /\ Figures(t)' = Figures(t)
    BY <1>1, FiguresStay DEF gradingVars
  <2>3. RunsTruly' /\ StoredTruly'
    BY <1>1, <2>2 DEF gradingVars, GradingInv, RunsTruly, StoredTruly
  <2> QED
    BY <2>1, <2>3 DEF GradingInv
<1>2. CASE \E c \in Courses, t \in Terms, total \in Totals : RatifyRow(c, t, total)
  BY <1>2, RatifyRowKeeps
<1>3. CASE \E n \in DOMAIN rows, total \in Totals : AmendRow(n, total)
  BY <1>3, AmendRowKeeps
<1>4. CASE \E k \in Tasks : (\E t \in Terms : ComputeStart(k, t)) \/ ComputeTerm(k) \/ ComputeStore(k) \/ ComputeDies(k)
  BY <1>4, BeginKeeps, TermKeeps, StoreKeeps, DeathKeeps
<1> QED
  BY <1>1, <1>2, <1>3, <1>4 DEF GradingNext

\* What the department task stored and no later change of the transcript overtook
\* is true of the transcript: the averages to the nearest hundredth, the
\* carry-overs and the class (grading.services, grading.tasks).
THEOREM StandingsAreTrue == GradingSpec => [](GradingTypeOK /\ StandingIsTrue)
<1>1. GradingInv => GradingTypeOK /\ StandingIsTrue
  BY GradingInvSuffices DEF GradingInv
<1> QED
  BY <1>1, GradingBegins, GradingStep, PTL DEF GradingSpec
=============================================================================
