----------------------------- MODULE ResultCheck -----------------------------
(***************************************************************************)
(* The summaries of src/backend/notifications/resultcheck.py: computed     *)
(* from a student's ratified rows, kept in the cache for a while, dropped  *)
(* by the announcement of a ratification.                                  *)
(*                                                                         *)
(* A student's official rows are known by their version, which counts the  *)
(* ratifications and applied amendments that changed them.  A summary is   *)
(* read in three queries, for the latest term, the cumulative average and  *)
(* the rows of that term, and no transaction holds the rows still between  *)
(* them: each part has the version it was read from.                       *)
(***************************************************************************)
EXTENDS Naturals

CONSTANTS
    Pupils,       \* students who check their results
    Checks,       \* requests the server handles at once
    MaxVersion    \* bound: changes of one student's rows

ASSUME ResultCheckAssumption == MaxVersion \in Nat

Version == 0..MaxVersion

\* What a summary was computed from: the term it names and is about, the
\* cumulative average, and the courses and average of that term.
Summary == [term : Version, cgpa : Version, gpa : Version]

\* A summary of no rows is None, which the cache does not tell from no entry.
NoSummary == [term |-> 0, cgpa |-> 0, gpa |-> 0]

Check == [pc : {"idle", "lookup", "latest", "cumulate", "term", "store", "answered"},
          pupil : Pupils, summary : Summary]

VARIABLES
    official,    \* the version of each student's ratified rows
    announcing,  \* announcement tasks in the broker, by student
    cached,
    check

checkVars == <<official, announcing, cached, check>>

ResultCheckTypeOK ==
    /\ official \in [Pupils -> Version]
    /\ announcing \subseteq Pupils
    /\ cached \in [Pupils -> Summary]
    /\ check \in [Checks -> Check]

-----------------------------------------------------------------------------
IdleCheck ==
    [pc |-> "idle", pupil |-> CHOOSE p \in Pupils : TRUE, summary |-> NoSummary]

\* Senate ratifies a sheet; the announcement is queued on commit, unless the
\* broker refuses it.
PublishResult(p) ==
    /\ official[p] < MaxVersion
    /\ official' = [official EXCEPT ![p] = @ + 1]
    /\ announcing' \in {announcing, announcing \cup {p}}
    /\ UNCHANGED <<cached, check>>

\* An applied amendment changes a ratified row and announces nothing.
AmendResult(p) ==
    /\ official[p] \in 1..(MaxVersion - 1)
    /\ official' = [official EXCEPT ![p] = @ + 1]
    /\ UNCHANGED <<announcing, cached, check>>

\* notify_result_published drops the summary; its worker may die before.
Announce(p) ==
    /\ p \in announcing
    /\ announcing' = announcing \ {p}
    /\ cached' \in {cached, [cached EXCEPT ![p] = NoSummary]}
    /\ UNCHANGED <<official, check>>

\* Mutant: the summary is stored without a timeout.
ExpireNever(p) == FALSE /\ UNCHANGED checkVars

\* RESULT_CHECK_CACHE_SECONDS have passed, or the cache evicts the entry.
Expire(p) ==
    /\ cached[p] # NoSummary
    /\ cached' = [cached EXCEPT ![p] = NoSummary]
    /\ UNCHANGED <<official, announcing, check>>

-----------------------------------------------------------------------------
\* A request that authorise let through.
BeginCheck(c, p) ==
    /\ check[c].pc = "idle"
    /\ check' = [check EXCEPT ![c] = [pc |-> "lookup", pupil |-> p, summary |-> NoSummary]]
    /\ UNCHANGED <<official, announcing, cached>>

Lookup(c) ==
    LET entry == cached[check[c].pupil]
    IN  /\ check[c].pc = "lookup"
        /\ check' = [check EXCEPT ![c].pc = IF entry = NoSummary THEN "latest" ELSE "answered",
                                  ![c].summary = entry]
        /\ UNCHANGED <<official, announcing, cached>>

\* The last row of the transcript tells the term; it is not asked for again.
LatestTerm(c) ==
    LET rows == official[check[c].pupil]
    IN  /\ check[c].pc = "latest"
        /\ check' = [check EXCEPT ![c].pc = IF rows = 0 THEN "store" ELSE "cumulate",
                                  ![c].summary.term = rows]
        /\ UNCHANGED <<official, announcing, cached>>

Cumulate(c) ==
    /\ check[c].pc = "cumulate"
    /\ check' = [check EXCEPT ![c].pc = "term", ![c].summary.cgpa = official[check[c].pupil]]
    /\ UNCHANGED <<official, announcing, cached>>

ReadTerm(c) ==
    /\ check[c].pc = "term"
    /\ check' = [check EXCEPT ![c].pc = "store", ![c].summary.gpa = official[check[c].pupil]]
    /\ UNCHANGED <<official, announcing, cached>>

Store(c) ==
    /\ check[c].pc = "store"
    /\ cached' = [cached EXCEPT ![check[c].pupil] = check[c].summary]
    /\ check' = [check EXCEPT ![c].pc = "answered"]
    /\ UNCHANGED <<official, announcing>>

EndCheck(c) ==
    /\ check[c].pc = "answered"
    /\ check' = [check EXCEPT ![c] = IdleCheck]
    /\ UNCHANGED <<official, announcing, cached>>

-----------------------------------------------------------------------------
ResultCheckInit ==
    /\ official = [p \in Pupils |-> 0]
    /\ announcing = {}
    /\ cached = [p \in Pupils |-> NoSummary]
    /\ check = [c \in Checks |-> IdleCheck]

CheckStep(c) ==
    \/ Lookup(c)
    \/ LatestTerm(c)
    \/ Cumulate(c)
    \/ ReadTerm(c)
    \/ Store(c)
    \/ EndCheck(c)

ResultCheckNext ==
    \/ \E p \in Pupils : PublishResult(p) \/ AmendResult(p) \/ Announce(p) \/ Expire(p)
    \/ \E c \in Checks : (\E p \in Pupils : BeginCheck(c, p)) \/ CheckStep(c)

ResultCheckSpec == ResultCheckInit /\ [][ResultCheckNext]_checkVars

-----------------------------------------------------------------------------
\* Every part was read from the rows as they are.
Current(p) == cached[p] = [term |-> official[p], cgpa |-> official[p], gpa |-> official[p]]

\* A check that read before a change may store its summary after the change was
\* announced, and one that read across it names the old term beside the new
\* averages.  All the same, once a student's rows stay as they are, summaries
\* computed before or in the middle of the last change stop being served for
\* good, whatever became of its announcement (resultcheck.published_summary).
SummariesCatchUp == \A p \in Pupils : <>[](cached[p] = NoSummary \/ Current(p))

=============================================================================
