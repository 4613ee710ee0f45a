------------------------------ MODULE MCRecords ------------------------------
(***************************************************************************)
(* What the requests of src/backend, and two pages of src/frontend, do to  *)
(* the records they share with each other, for TLC.  No module here reads  *)
(* what another writes, so a behaviour keeps to the scene it begins with.  *)
(***************************************************************************)
EXTENDS Proctoring, Grading, Assessments, Content, Receipts, Board, ScoreSheetPage,
        SenateBoard, Papers, TLC

CONSTANTS tabSwitch, noFace, rev, k1, q1, q2

\* Proctoring: two reported signals, or one capture, raise the flag.
MCThreshold == tabSwitch :> 2 @@ noFace :> 1

\* Requests, of whichever component, are told apart and nothing else.
MCSymmetry == Permutations({q1, q2})

-----------------------------------------------------------------------------
\* Grading: the default scale and bands (tenancy/models.py), three courses, one
\* of them without credit units.
MCUnits == "mth" :> 3 @@ "phy" :> 5 @@ "gst" :> 0

MCGrade(letter, least, worth) == [grade |-> letter, min_score |-> least, points |-> worth]

MCScale == <<MCGrade("A", 70, 5), MCGrade("B", 60, 4), MCGrade("C", 50, 3),
             MCGrade("D", 45, 2), MCGrade("E", 40, 1), MCGrade("F", 0, 0)>>

MCBand(name, min_cgpa) == [name |-> name, min_cgpa |-> min_cgpa]

MCBands == {MCBand("First Class", 450), MCBand("Second Class Upper", 350),
            MCBand("Second Class Lower", 240), MCBand("Third Class", 150)}

MCInstitution ==
    [carryover_pass_mark |-> 40, withdrawal_cgpa_threshold |-> 100,
     probation_cgpa_threshold |-> 150, senate_review_margin |-> 5]

\* Assessments: scores on both sides of the range.
MCScores == {-1, 1, 3}

-----------------------------------------------------------------------------
\* Content: one module of two items, moved singly or in a reorder.
MCModuleOf == "i1" :> "m1" @@ "i2" :> "m1"

MCChanges == {[NoChange EXCEPT !.position = 5]}

MCUploads == {NoItem}

\* Board: one reply to one thread, and one announcement.
MCThreadOf == "r1" :> "t1"

\* SenateBoard: two sheets of two faculties.
MCSheetDepartment == "sa" :> "da" @@ "sb" :> "db"

MCDepartmentFaculty == "da" :> "fa" @@ "db" :> "fb"

\* Papers: a question of each way of answering, one refused for its key; texts
\* 0 and 1 read the same, nothing is left of text 2.
MCQuestion(type, options, key) == [type |-> type, options |-> options, key |-> key]

MCPayloads == {MCQuestion("mcq", 2, {1}), MCQuestion("mcq", 2, {2}),
               MCQuestion("multi", 2, {0, 1}), MCQuestion("fill_blank", 0, {1}),
               MCQuestion("short_answer", 0, {})}

MCNormal == 0 :> 1 @@ 1 :> 1 @@ 2 :> 0

MCForm(banks, n, shuffles) == [banks |-> banks, num_questions |-> n,
                               shuffle_questions |-> shuffles, shuffle_options |-> shuffles]

MCForms == {MCForm({"b1"}, 1, TRUE), MCForm({"b1", "b2"}, 2, FALSE)}

MCRaw == {{}, {0}, {1}, {0, 1}}

-----------------------------------------------------------------------------
VARIABLE scene

Scenes == {"proctoring", "grading", "assessments", "content", "receipts",
           "board", "sheet page", "senate board", "papers"}

RecordsInit ==
    /\ scene \in Scenes
    /\ ProctoringInit /\ GradingInit /\ AssessmentsInit /\ ContentInit
    /\ ReceiptsInit /\ BoardInit /\ SheetPageInit /\ SenateBoardInit
    /\ PapersInit
    /\ scene # "grading" => method = "HIGHEST_ONLY"
    /\ scene # "senate board" => awaiting = {}

recordsVars ==
    <<scene, proctoringVars, gradingVars, assessmentVars, contentVars,
      receiptsVars, boardVars, sheetPageVars, senateBoardVars, papersVars>>

RecordsNext ==
    /\ UNCHANGED scene
    /\ \/ /\ scene = "proctoring" /\ ProctoringNext
          /\ UNCHANGED <<gradingVars, assessmentVars, contentVars,
                         receiptsVars, boardVars, sheetPageVars, senateBoardVars, papersVars>>
       \/ /\ scene = "grading" /\ GradingNext
          /\ UNCHANGED <<proctoringVars, assessmentVars, contentVars,
                         receiptsVars, boardVars, sheetPageVars, senateBoardVars, papersVars>>
       \/ /\ scene = "assessments" /\ AssessmentsNext
          /\ UNCHANGED <<proctoringVars, gradingVars, contentVars,
                         receiptsVars, boardVars, sheetPageVars, senateBoardVars, papersVars>>
       \/ /\ scene = "content" /\ ContentNext
          /\ UNCHANGED <<proctoringVars, gradingVars, assessmentVars,
                         receiptsVars, boardVars, sheetPageVars, senateBoardVars, papersVars>>
       \/ /\ scene = "receipts" /\ ReceiptsNext
          /\ UNCHANGED <<proctoringVars, gradingVars, assessmentVars,
                         contentVars, boardVars, sheetPageVars, senateBoardVars, papersVars>>
       \/ /\ scene = "board" /\ BoardNext
          /\ UNCHANGED <<proctoringVars, gradingVars, assessmentVars,
                         contentVars, receiptsVars, sheetPageVars, senateBoardVars, papersVars>>
       \/ /\ scene = "sheet page" /\ SheetPageNext
          /\ UNCHANGED <<proctoringVars, gradingVars, assessmentVars,
                         contentVars, receiptsVars, boardVars, senateBoardVars, papersVars>>
       \/ /\ scene = "senate board" /\ SenateBoardNext
          /\ UNCHANGED <<proctoringVars, gradingVars, assessmentVars,
                         contentVars, receiptsVars, boardVars, sheetPageVars, papersVars>>
       \/ /\ scene = "papers" /\ PapersNext
          /\ UNCHANGED <<proctoringVars, gradingVars, assessmentVars,
                         contentVars, receiptsVars, boardVars, sheetPageVars, senateBoardVars>>

RecordsSpec == RecordsInit /\ [][RecordsNext]_recordsVars

-----------------------------------------------------------------------------
\* Every record holds what its columns can, every screen what its state can.
RecordsTypeOK ==
    /\ ProctoringTypeOK /\ GradingTypeOK /\ AssessmentsTypeOK
    /\ ContentTypeOK /\ ReceiptsTypeOK /\ BoardTypeOK /\ SheetPageTypeOK
    /\ SenateBoardTypeOK /\ PapersTypeOK
=============================================================================
