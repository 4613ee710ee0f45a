-------------------------------- MODULE Board --------------------------------
(***************************************************************************)
(* What a class reads and says (src/backend/discussions and                *)
(* src/backend/announcements): threads, their replies, and the             *)
(* announcements of one course in one term.                                *)
(*                                                                         *)
(* Taking down a thread or a reply marks the row, and who did it; deleting *)
(* an announcement removes it. Every request reads the row, decides on     *)
(* what it read, and saves the fields it changes in a later statement, so  *)
(* rows may be taken down in between.                                      *)
(***************************************************************************)
EXTENDS Naturals, FiniteSets

CONSTANTS
    Members,        \* users with a place on the course
    Staff,          \* those who manage it
    Threads, Notices,
    ThreadOf,       \* the thread each reply is written to
    Desks           \* requests handled at once

Replies == DOMAIN ThreadOf

Posts == Threads \cup Replies \cup Notices

ASSUME BoardAssumption ==
    /\ Staff \subseteq Members
    /\ ThreadOf \in [Replies -> Threads]
    /\ Threads \cap Replies = {} /\ Threads \cap Notices = {} /\ Replies \cap Notices = {}
    /\ Members # {} /\ "nobody" \notin Members
    /\ Posts # {}

VARIABLES
    post,       \* the rows
    desk,       \* the requests in progress
    ordinal,    \* created_at of each post, as its place in the order of creation
    activity    \* last_activity_at of each thread, on the same scale

boardVars == <<post, desk, ordinal, activity>>

\* Thread, Reply, Announcement. Replies and announcements are never locked.
Post ==
    [row : {"unborn", "live", "gone"}, author : Members \cup {"nobody"},
     is_locked : BOOLEAN, is_removed : BOOLEAN, removed_by : Members \cup {"nobody"}]

\* The field a request saves; one that saves several is like one that saves each.
\* Nothing here reads the texts or the pin: "body" is any of them.
Saves == {"body", "lock", "unlock", "is_removed", "last_activity_at", "none"}

\* A request that has read "seen" and will now save.
Desk == [pc : {"idle", "insert", "save"}, actor : Members, on : Posts, seen : Post, saves : Saves]

Unborn ==
    [row |-> "unborn", author |-> "nobody", is_locked |-> FALSE,
     is_removed |-> FALSE, removed_by |-> "nobody"]

IdleDesk ==
    [pc |-> "idle", actor |-> CHOOSE u \in Members : TRUE, on |-> CHOOSE p \in Posts : TRUE,
     seen |-> Unborn, saves |-> "none"]

Moderates(u) == u \in Staff

Owns(u, p) == post[p].author = u

\* The row was read live; the request goes on to save.
Decide(d, u, p, saves) ==
    /\ desk[d].pc = "idle"
    /\ desk' = [desk EXCEPT ![d] =
          [pc |-> "save", actor |-> u, on |-> p, seen |-> post[p], saves |-> saves]]
    /\ UNCHANGED <<post, ordinal, activity>>

-----------------------------------------------------------------------------
\* create_thread, create_announcement.
Start(u, p) ==
    /\ p \in Threads \/ (p \in Notices /\ Moderates(u))
    /\ post[p].row = "unborn"
    /\ post' = [post EXCEPT ![p] =
          [Unborn EXCEPT !.row = "live", !.author = u]]
    /\ LET now == Cardinality({q \in Posts : post[q].row # "unborn"}) + 1
       IN  /\ ordinal' = [ordinal EXCEPT ![p] = now]
           /\ activity' = IF p \in Threads THEN [activity EXCEPT ![p] = now] ELSE activity
    /\ UNCHANGED desk

\* create_reply up to its insert: the thread as it was read is neither removed
\* nor, for a student, locked.
CheckReply(d, u, r) ==
    LET t == ThreadOf[r]
    IN  /\ desk[d].pc = "idle"
        /\ post[t].row = "live" /\ ~post[t].is_removed
        /\ post[t].is_locked => Moderates(u)
        /\ post[r].row = "unborn" /\ \A e \in Desks : desk[e].pc = "idle" \/ desk[e].on # r
        /\ desk' = [desk EXCEPT ![d] =
              [pc |-> "insert", actor |-> u, on |-> r, seen |-> post[t], saves |-> "none"]]
        /\ UNCHANGED <<post, ordinal, activity>>

InsertReply(d) ==
    LET r == desk[d].on
        now == Cardinality({q \in Posts : post[q].row # "unborn"}) + 1
    IN  /\ desk[d].pc = "insert"
        /\ post' = [post EXCEPT ![r] = [Unborn EXCEPT !.row = "live", !.author = desk[d].actor]]
        /\ ordinal' = [ordinal EXCEPT ![r] = now]
        /\ desk' = [desk EXCEPT ![d] = [@ EXCEPT !.pc = "save", !.saves = "last_activity_at"]]
        /\ UNCHANGED activity

\* update_thread: authors rewrite their words, moderators also pin and lock.
EditThread(d, u, t, saves) ==
    /\ t \in Threads /\ post[t].row = "live" /\ ~post[t].is_removed
    /\ Owns(u, t) \/ Moderates(u)
    /\ saves = "body" \/ (saves \in {"lock", "unlock"} /\ Moderates(u))
    /\ Decide(d, u, t, saves)

\* update_reply: only the author.
EditReply(d, u, r) ==
    /\ r \in Replies /\ post[r].row = "live" /\ ~post[r].is_removed
    /\ Owns(u, r)
    /\ Decide(d, u, r, "body")

\* update_announcement.
EditNotice(d, u, a, saves) ==
    /\ a \in Notices /\ post[a].row = "live"
    /\ Moderates(u)
    /\ saves = "body"
    /\ Decide(d, u, a, saves)

\* remove_thread, remove_reply: nothing to do for a row read as removed.
TakeDown(d, u, p) ==
    /\ p \in Threads \cup Replies /\ post[p].row = "live" /\ ~post[p].is_removed
    /\ Owns(u, p) \/ Moderates(u)
    /\ Decide(d, u, p, "is_removed")

\* delete_announcement.
DeleteNotice(u, a) ==
    /\ a \in Notices /\ post[a].row = "live"
    /\ Moderates(u)
    /\ post' = [post EXCEPT ![a].row = "gone"]
    /\ UNCHANGED <<desk, ordinal, activity>>

-----------------------------------------------------------------------------
\* The row after a request saved its fields over "row".
Written(d, row) ==
    LET saves == desk[d].saves
    IN  CASE saves \in {"lock", "unlock"} -> [row EXCEPT !.is_locked = saves = "lock"]
          [] saves = "is_removed" -> [row EXCEPT !.is_removed = TRUE, !.removed_by = desk[d].actor]
          [] OTHER -> row

\* Mutant: save() of the whole row as it was read, which also inserts it anew.
SavedWhole(d) ==
    LET p == desk[d].on
    IN  IF desk[d].saves = "last_activity_at" THEN post
        ELSE [post EXCEPT ![p] = Written(d, desk[d].seen)]

\* save(update_fields=...): an error for a row that is gone.
Saved(d) ==
    LET p == desk[d].on
    IN  IF post[p].row # "live" THEN post
        ELSE [post EXCEPT ![p] = Written(d, @)]

Save(d) ==
    LET p == desk[d].on
    IN  /\ desk[d].pc = "save"
        /\ post' = Saved(d)
        /\ activity' = IF desk[d].saves = "last_activity_at"
                       THEN [activity EXCEPT ![ThreadOf[p]] = ordinal[p]] ELSE activity
        /\ desk' = [desk EXCEPT ![d] = IdleDesk]
        /\ UNCHANGED ordinal

\* The process dies between the read and the write.
DeskDies(d) ==
    /\ desk[d].pc # "idle"
    /\ desk' = [desk EXCEPT ![d] = IdleDesk]
    /\ UNCHANGED <<post, ordinal, activity>>

-----------------------------------------------------------------------------
BoardInit ==
    /\ post = [p \in Posts |-> Unborn]
    /\ desk = [d \in Desks |-> IdleDesk]
    /\ ordinal = [p \in Posts |-> 0]
    /\ activity = [t \in Threads |-> 0]

BoardNext ==
    \E u \in Members :
       \/ \E p \in Posts : Start(u, p)
       \/ \E a \in Notices : DeleteNotice(u, a)
       \/ \E d \in Desks :
             \/ \E r \in Replies : CheckReply(d, u, r) \/ EditReply(d, u, r)
             \/ \E t \in Threads, saves \in Saves : EditThread(d, u, t, saves)
             \/ \E a \in Notices, saves \in Saves : EditNotice(d, u, a, saves)
             \/ \E p \in Posts : TakeDown(d, u, p)
             \/ InsertReply(d)
             \/ Save(d)
             \/ DeskDies(d)

BoardSpec == BoardInit /\ [][BoardNext]_boardVars

-----------------------------------------------------------------------------
BoardTypeOK ==
    /\ post \in [Posts -> Post]
    /\ desk \in [Desks -> Desk]
    /\ ordinal \in [Posts -> Nat]
    /\ activity \in [Threads -> Nat]

\* What was taken down stays down, whatever requests had read it before: no edit,
\* pin, lock or reply that was under way brings a removed thread or reply or a
\* deleted announcement back (discussions.services.update_thread, update_reply,
\* announcements.services.update_announcement).
RemovalStands ==
    [][\A p \in Posts :
          /\ post[p].is_removed => post'[p].is_removed
          /\ post[p].row = "gone" => post'[p].row = "gone"]_boardVars
=============================================================================
