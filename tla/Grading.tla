------------------------------- MODULE Grading -------------------------------
(***************************************************************************)
(* The GPA engine of src/backend/grading over one student's transcript,    *)
(* and the department task that stores what it computes while Senate       *)
(* ratifies more of that transcript.                                       *)
(*                                                                         *)
(* Averages are in hundredths of a point, and None is the empty set.  A    *)
(* scale is any list of rows with letters of their own, which is all that  *)
(* Institution.clean asks: a grade may be worth a fraction of a point, or  *)
(* more than a grade above it.  The engine reads the transcript once for   *)
(* each of its three figures, and no transaction joins the reads.          *)
(***************************************************************************)
EXTENDS Integers, Sequences, SequencesExt

CONSTANTS
    Units,         \* credit units of each course
    Terms,
    Totals,        \* scores a row may hold
    Scale,         \* grade_scale: sequence of [grade, min_score, points]
    PointUnit,     \* the part of a grade point that points are counted in
    Bands,         \* classification_bands: set of [name, min_cgpa]
    Institution,   \* the thresholds of one institution
    MaxChanges,    \* bound: ratified rows and amendments
    Tasks          \* runs of compute_department_standing

Courses == DOMAIN Units

Methods == {"ALL_ATTEMPTS", "HIGHEST_ONLY"}

ASSUME GradingAssumption ==
    /\ \A c \in Courses : Units[c] \in Nat
    /\ Terms # {}
    /\ Totals \subseteq Nat
    /\ Scale \in Seq(Range(Scale)) /\ Scale # <<>>
    /\ \A i \in DOMAIN Scale : Scale[i].min_score \in Int /\ Scale[i].points \in Int
    /\ \A i, j \in DOMAIN Scale : Scale[i].grade = Scale[j].grade => i = j
    /\ PointUnit \in Nat \ {0}
    /\ IsFiniteSet(Bands) /\ \A b \in Bands : b.min_cgpa \in Int
    /\ Institution.carryover_pass_mark \in Int
    /\ MaxChanges \in Nat

Letters == {Scale[i].grade : i \in DOMAIN Scale}

StudentScore == [course : Courses, term : Terms, total : Totals, grade : Letters]

Figure == SUBSET Int

Compute == [pc : {"idle", "term", "store"}, term : Terms, cgpa : Figure, gpa : Figure,
            overtaken : BOOLEAN]

AcademicStanding ==
    [gpa : Figure, cgpa : Figure, standing : {"", "withdrawal", "probation", "good"},
     classification : [name : {"", "Fail"} \cup {b.name : b \in Bands}, borderline : BOOLEAN],
     carryovers : SUBSET Courses]

VARIABLES
    method,     \* the institution's carryover_cgpa_method
    rows,       \* the official rows, oldest first
    changes,
    compute,
    standing,   \* the stored AcademicStanding of each term, if any
    current     \* terms whose stored figures no change of rows overtook

gradingVars == <<method, rows, changes, compute, standing, current>>

-----------------------------------------------------------------------------
\* scale_bands: row i comes before row j, the highest boundary first and rows of
\* one boundary as they are listed.
Precedes(i, j) ==
    \/ Scale[i].min_score > Scale[j].min_score
    \/ Scale[i].min_score = Scale[j].min_score /\ i <= j

\* grade_for_score: the first band the score reaches, else the last one.
GradeForScore(score) ==
    LET reached == {i \in DOMAIN Scale : score >= Scale[i].min_score}
    IN  IF reached # {}
        THEN Scale[CHOOSE i \in reached : \A j \in reached : Precedes(i, j)]
        ELSE Scale[CHOOSE i \in DOMAIN Scale : \A j \in DOMAIN Scale : Precedes(j, i)]

\* points_for_letter
Points(row) == Scale[CHOOSE i \in DOMAIN Scale : Scale[i].grade = row.grade].points

\* _round: n / d to a whole number, a half away from zero (ROUND_HALF_UP).
Round(n, d) == IF n >= 0 THEN (2 * n + d) \div (2 * d) ELSE -((d - 2 * n) \div (2 * d))

\* _gpa
Gpa(qualityPoints, creditUnits) ==
    IF creditUnits = 0 THEN {} ELSE {Round(100 * qualityPoints, PointUnit * creditUnits)}

\* _totals, _gpa: of rows given by their numbers.
Average(counted) ==
    Gpa(SumFunction([n \in counted |-> Units[rows[n].course] * Points(rows[n])]),
        SumFunction([n \in counted |-> Units[rows[n].course]]))

RowsIn(t) == {n \in DOMAIN rows : rows[n].term = t}

\* term_summary
TermGpa(t) == Average(RowsIn(t))

\* The key of _best_attempt, row numbers standing for created_at.
Beats(m, n) ==
    \/ Points(rows[m]) > Points(rows[n])
    \/ /\ Points(rows[m]) = Points(rows[n])
       /\ rows[m].total > rows[n].total \/ (rows[m].total = rows[n].total /\ m >= n)

\* Mutant: the latest attempt stands for the course.
BestAttemptLatest(c) ==
    LET attempts == {n \in DOMAIN rows : rows[n].course = c}
    IN  CHOOSE m \in attempts : \A n \in attempts : m >= n

BestAttempt(c) ==
    LET attempts == {n \in DOMAIN rows : rows[n].course = c}
    IN  CHOOSE m \in attempts : \A n \in attempts : Beats(m, n)

Attempted == {rows[n].course : n \in DOMAIN rows}

\* cumulative_summary
Cgpa ==
    IF method = "HIGHEST_ONLY"
    THEN Average({BestAttempt(c) : c \in Attempted})
    ELSE Average(DOMAIN rows)

\* outstanding_carryovers
Carryovers == {c \in Attempted : rows[BestAttempt(c)].total < Institution.carryover_pass_mark}

\* standing_for
StandingFor(cgpa) ==
    CASE cgpa = {} -> ""
      [] \E g \in cgpa : g < Institution.withdrawal_cgpa_threshold -> "withdrawal"
      [] \E g \in cgpa : /\ g >= Institution.withdrawal_cgpa_threshold
                         /\ g < Institution.probation_cgpa_threshold -> "probation"
      [] OTHER -> "good"

\* classify: the first of the bands, from the highest down, that the CGPA reaches.
Classify(cgpa) ==
    LET met == {b \in Bands : \E g \in cgpa : g >= b.min_cgpa}
        near == {b \in Bands : \E g \in cgpa : /\ g < b.min_cgpa
                                              /\ b.min_cgpa - Institution.senate_review_margin <= g}
    IN  [name |-> CASE cgpa = {} -> ""
                    [] met # {} -> (CHOOSE b \in met : \A a \in met : b.min_cgpa >= a.min_cgpa).name
                    [] OTHER -> "Fail",
         borderline |-> near # {}]

-----------------------------------------------------------------------------
IdleCompute == [pc |-> "idle", term |-> CHOOSE t \in Terms : TRUE,
                cgpa |-> {}, gpa |-> {}, overtaken |-> FALSE]

\* A change of the transcript overtakes computations under way and figures stored.
Overtake ==
    /\ changes < MaxChanges
    /\ changes' = changes + 1
    /\ compute' = [k \in Tasks |-> [compute[k] EXCEPT !.overtaken = TRUE]]
    /\ current' = {}
    /\ UNCHANGED <<method, standing>>

\* Senate ratifies a sheet with a row of the student.
RatifyRow(c, t, total) ==
    /\ \A n \in DOMAIN rows : ~(rows[n].course = c /\ rows[n].term = t)
    /\ rows' = Append(rows, [course |-> c, term |-> t, total |-> total,
                             grade |-> GradeForScore(total).grade])
    /\ Overtake

\* An applied amendment puts a new row in an old one's place.
AmendRow(n, total) ==
    /\ rows[n].total # total
    /\ rows' = Append(RemoveAt(rows, n), [rows[n] EXCEPT !.total = total,
                                          !.grade = GradeForScore(total).grade])
    /\ Overtake

ComputeStart(k, t) ==
    /\ compute[k].pc = "idle"
    /\ compute' = [compute EXCEPT ![k] = [IdleCompute EXCEPT !.pc = "term", !.term = t,
                                                             !.cgpa = Cgpa]]
    /\ UNCHANGED <<method, rows, changes, standing, current>>

ComputeTerm(k) ==
    /\ compute[k].pc = "term"
    /\ compute' = [compute EXCEPT ![k].pc = "store", ![k].gpa = TermGpa(compute[k].term)]
    /\ UNCHANGED <<method, rows, changes, standing, current>>

\* outstanding_carryovers, then update_or_create: the last writer wins.
ComputeStore(k) ==
    LET run == compute[k]
    IN  /\ run.pc = "store"
        /\ standing' = [standing EXCEPT ![run.term] =
              {[gpa |-> run.gpa, cgpa |-> run.cgpa, standing |-> StandingFor(run.cgpa),
                classification |-> Classify(run.cgpa), carryovers |-> Carryovers]}]
        /\ current' = IF run.overtaken THEN current \ {run.term} ELSE current \cup {run.term}
        /\ compute' = [compute EXCEPT ![k] = IdleCompute]
        /\ UNCHANGED <<method, rows, changes>>

\* The worker dies in the middle of a department.
ComputeDies(k) ==
    /\ compute[k].pc # "idle"
    /\ compute' = [compute EXCEPT ![k] = IdleCompute]
    /\ UNCHANGED <<method, rows, changes, standing, current>>

GradingInit ==
    /\ method \in Methods
    /\ rows = <<>>
    /\ changes = 0
    /\ compute = [k \in Tasks |-> IdleCompute]
    /\ standing = [t \in Terms |-> {}]
    /\ current = {}

GradingNext ==
    \/ \E c \in Courses, t \in Terms, total \in Totals : RatifyRow(c, t, total)
    \/ \E n \in DOMAIN rows, total \in Totals : AmendRow(n, total)
    \/ \E k \in Tasks : \/ \E t \in Terms : ComputeStart(k, t)
                        \/ ComputeTerm(k) \/ ComputeStore(k) \/ ComputeDies(k)

GradingSpec == GradingInit /\ [][GradingNext]_gradingVars

GradingTypeOK ==
    /\ method \in Methods
    /\ rows \in Seq(StudentScore)
    /\ changes \in 0..MaxChanges
    /\ compute \in [Tasks -> Compute]
    /\ standing \in [Terms -> SUBSET AcademicStanding]
    /\ current \subseteq Terms

-----------------------------------------------------------------------------
(***************************************************************************)
(* What the figures mean, said without computing them.                     *)
(***************************************************************************)
RowsOf(c) == {n \in DOMAIN rows : rows[n].course = c}

\* Of the attempts at a course none is worth more points, and none worth as many
\* scored higher.
IsBest(m, c) ==
    LET worth == [n \in RowsOf(c) |-> GradeForScore(rows[n].total).points]
    IN  /\ m \in RowsOf(c)
        /\ \A n \in RowsOf(c) : \/ worth[n] < worth[m]
                                \/ worth[n] = worth[m] /\ rows[n].total <= rows[m].total

\* The numbers of the rows that count towards the CGPA: all of them, or of each
\* course a best one.
IsCounted(counted) ==
    IF method = "ALL_ATTEMPTS" THEN counted = DOMAIN rows
    ELSE \A c \in Attempted : \E m \in RowsOf(c) : IsBest(m, c) /\ counted \cap RowsOf(c) = {m}

\* No whole number is nearer to n / d than g; of two as near, g is farther from 0.
IsNearest(g, n, d) ==
    LET off == 2 * (n - g * d)
    IN  IF n >= 0 THEN -d <= off /\ off < d ELSE -d < off /\ off <= d

\* gpa is the true average of the rows, to the nearest hundredth.
IsAverage(gpa, numbers) ==
    LET units == SumFunction([n \in numbers |-> Units[rows[n].course]])
        points == SumFunction([n \in numbers |->
                                  Units[rows[n].course] * GradeForScore(rows[n].total).points])
    IN  IF units = 0 THEN gpa = {}
        ELSE \E g \in gpa : IsNearest(g, 100 * points, PointUnit * units)

\* The class is that of the highest band reached, and none if no band is.
IsClass(name, cgpa) ==
    LET Reaches(b) == \E g \in cgpa : g >= b.min_cgpa
    IN  IF cgpa = {} THEN name = ""
        ELSE \/ \E b \in Bands : /\ name = b.name /\ Reaches(b)
                                 /\ \A a \in Bands : a.min_cgpa > b.min_cgpa => ~Reaches(a)
             \/ name = "Fail" /\ \A b \in Bands : ~Reaches(b)

\* Figures stored by a run that nothing overtook are those of the transcript:
\* the averages to the nearest hundredth, the carry-overs the courses whose best
\* attempt failed, and the class the highest band reached (grading.services).
StandingIsTrue ==
    \A t \in current : \E s \in standing[t] :
       /\ IsAverage(s.gpa, RowsIn(t))
       /\ \E counted \in SUBSET DOMAIN rows : IsCounted(counted) /\ IsAverage(s.cgpa, counted)
       /\ s.carryovers = {c \in Attempted :
             \E m \in RowsOf(c) : IsBest(m, c) /\ rows[m].total < Institution.carryover_pass_mark}
       /\ IsClass(s.classification.name, s.cgpa)
=============================================================================
