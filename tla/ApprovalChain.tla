---------------------------- MODULE ApprovalChain ----------------------------
(***************************************************************************)
(* What the results pipeline promises a student, without saying how: a     *)
(* sheet of marks lies on one desk at a time, only the lecturer's desk     *)
(* writes marks, the marks become public after passing every desk, and a   *)
(* public mark changes only by granting a petition that passed every desk. *)
(* There are no rows, actors, audit entries or identifiers here.           *)
(***************************************************************************)
EXTENDS Naturals, Sequences

CONSTANTS Sheets, Students, Marks, NoMark

VARIABLES
    desk,      \* where each sheet lies
    marks,     \* the mark each student has on each sheet, NoMark for none
    petitions  \* the corrections asked for on each sheet, oldest first

chainVars == <<desk, marks, petitions>>

Desks == {"nowhere", "lecturer", "hod", "dean", "senate", "public"}

Petition == [student : Students, mark : Marks,
             desk : {"hod", "dean", "senate", "granted", "refused"}]

ChainTypeOK ==
    /\ desk \in [Sheets -> Desks]
    /\ marks \in [Sheets -> [Students -> Marks \cup {NoMark}]]
    /\ petitions \in [Sheets -> Seq(Petition)]

ChainInit ==
    /\ desk = [s \in Sheets |-> "nowhere"]
    /\ marks = [s \in Sheets |-> [st \in Students |-> NoMark]]
    /\ petitions = [s \in Sheets |-> <<>>]

Open(s) ==
    /\ desk[s] = "nowhere"
    /\ desk' = [desk EXCEPT ![s] = "lecturer"]
    /\ UNCHANGED <<marks, petitions>>

Enter(s, st, mark) ==
    /\ desk[s] = "lecturer"
    /\ marks' = [marks EXCEPT ![s][st] = mark]
    /\ UNCHANGED <<desk, petitions>>

Submit(s) ==
    /\ desk[s] = "lecturer"
    /\ \E st \in Students : marks[s][st] # NoMark
    /\ desk' = [desk EXCEPT ![s] = "hod"]
    /\ UNCHANGED <<marks, petitions>>

Forward(s) ==
    /\ \/ desk[s] = "hod" /\ desk' = [desk EXCEPT ![s] = "dean"]
       \/ desk[s] = "dean" /\ desk' = [desk EXCEPT ![s] = "senate"]
    /\ UNCHANGED <<marks, petitions>>

Publish(batch) ==
    /\ \A s \in batch : desk[s] = "senate"
    /\ desk' = [s \in Sheets |-> IF s \in batch THEN "public" ELSE desk[s]]
    /\ UNCHANGED <<marks, petitions>>

SendBack(s) ==
    /\ desk[s] \in {"hod", "dean", "senate"}
    /\ desk' = [desk EXCEPT ![s] = "lecturer"]
    /\ UNCHANGED <<marks, petitions>>

Ask(s, st, mark) ==
    /\ desk[s] = "public"
    /\ marks[s][st] # NoMark
    /\ petitions' = [petitions EXCEPT ![s] =
                        Append(@, [student |-> st, mark |-> mark, desk |-> "hod"])]
    /\ UNCHANGED <<desk, marks>>

Pass(s, p) ==
    /\ \/ /\ petitions[s][p].desk = "hod"
          /\ petitions' = [petitions EXCEPT ![s][p].desk = "dean"]
       \/ /\ petitions[s][p].desk = "dean"
          /\ petitions' = [petitions EXCEPT ![s][p].desk = "senate"]
    /\ UNCHANGED <<desk, marks>>

Refuse(s, p) ==
    /\ petitions[s][p].desk \in {"hod", "dean", "senate"}
    /\ petitions' = [petitions EXCEPT ![s][p].desk = "refused"]
    /\ UNCHANGED <<desk, marks>>

Grant(s, p) ==
    /\ petitions[s][p].desk = "senate"
    /\ petitions' = [petitions EXCEPT ![s][p].desk = "granted"]
    /\ marks' = [marks EXCEPT ![s][petitions[s][p].student] = petitions[s][p].mark]
    /\ UNCHANGED desk

ChainNext ==
    \/ \E s \in Sheets : Open(s) \/ Submit(s) \/ Forward(s) \/ SendBack(s)
    \/ \E s \in Sheets, st \in Students, mark \in Marks : Enter(s, st, mark) \/ Ask(s, st, mark)
    \/ \E batch \in SUBSET Sheets : Publish(batch)
    \/ \E s \in Sheets : \E p \in DOMAIN petitions[s] : Pass(s, p) \/ Refuse(s, p) \/ Grant(s, p)

ChainSpec == ChainInit /\ [][ChainNext]_chainVars
=============================================================================
