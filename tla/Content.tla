------------------------------- MODULE Content -------------------------------
(***************************************************************************)
(* Learning material of one course in one term (src/backend/content):      *)
(* modules, the items inside them, and the order lecturers give to both.   *)
(*                                                                         *)
(* A curator is a request of a lecturer. Only a reorder runs in a          *)
(* transaction: the rows it has saved are locked, and unseen by others,    *)
(* until it commits. Every other request reads in one statement and writes *)
(* in a later one. Receipts of what students opened are Receipts.tla.      *)
(***************************************************************************)
EXTENDS Integers, FiniteSets, Sequences, SequencesExt, FiniteSetsExt

CONSTANTS
    Modules,
    ModuleOf,      \* the module each item is created in
    Changes,       \* the PATCH bodies the lecturers send
    Uploads,       \* the payloads items are created with
    Curators

ContentItems == DOMAIN ModuleOf

Shelved == Modules \cup ContentItems

\* Siblings share a shelf: the modules of the term, the items of a module.
ShelfOf(e) == IF e \in Modules THEN "term" ELSE ModuleOf[e]

Shelves == {"term"} \cup Modules

Kind == {"file", "page", "link", "video"}
Field == {"file", "url", "body"}

\* ContentItem: what it carries is the set of its payload fields that are not empty.
ContentItem == [kind : Kind, carries : SUBSET Field]

\* A PATCH: fields given a value, text fields given as the empty string.
\* UpdateItemSerializer.
Change ==
    [kind : Kind \cup {"same"}, gives : SUBSET Field, blanks : SUBSET {"url", "body"},
     published : {"yes", "no", "same"}, position : Nat \cup {-1}]

ASSUME ContentAssumption ==
    /\ IsFiniteSet(Modules) /\ IsFiniteSet(ContentItems)
    /\ ModuleOf \in [ContentItems -> Modules]
    /\ Modules \cap ContentItems = {} /\ "term" \notin Modules
    /\ Changes \subseteq Change /\ Uploads \subseteq ContentItem

VARIABLES
    present,     \* rows in the database
    created,     \* rows ever inserted: an id is never used again
    position,
    published,
    content,     \* kind and payload of each item
    curator,
    settled      \* the place of each row in the last order committed for its shelf,
                 \* 0 when it is not in it or was moved singly since

contentVars == <<present, created, position, published, content, curator, settled>>

Curator ==
    [pc : {"idle", "insert", "update", "reorder"}, on : Shelved \cup Shelves,
     top : Nat, upload : ContentItem, change : Change, order : Seq(Shelved), saved : Nat]

NoItem == [kind |-> "page", carries |-> {"body"}]
NoChange == [kind |-> "same", gives |-> {}, blanks |-> {}, published |-> "same", position |-> -1]
IdleCurator ==
    [pc |-> "idle", on |-> "term", top |-> 0, upload |-> NoItem, change |-> NoChange,
     order |-> <<>>, saved |-> 0]

Siblings(shelf) == {e \in present : ShelfOf(e) = shelf}

SavedBy(c) == {curator[c].order[k] : k \in 1..curator[c].saved}

\* A row saved by an open transaction makes every other writer wait.
Locked(e) == \E c \in Curators : curator[c].pc = "reorder" /\ e \in SavedBy(c)

\* _next_position: the aggregate reads committed rows.
NextPosition(shelf) == Max({0} \cup {position[e] : e \in Siblings(shelf)}) + 10

\* _validate_payload: an empty value in the request reads as "keep what is stored".
PayloadAccepted(kind, gives, stored) ==
    LET has == gives \cup stored
    IN  CASE kind = "file" -> "file" \in has
          [] kind = "page" -> "body" \in has
          [] kind = "link" -> "url" \in has
          [] kind = "video" -> has \cap {"file", "url"} # {}

-----------------------------------------------------------------------------
\* create_module, create_item: check and position, then the insert.
CheckCreate(c, e, up) ==
    /\ curator[c].pc = "idle"
    /\ e \notin created
    /\ e \in ContentItems => ModuleOf[e] \in present /\ PayloadAccepted(up.kind, up.carries, {})
    /\ curator' = [curator EXCEPT ![c] =
          [IdleCurator EXCEPT !.pc = "insert", !.on = e, !.top = NextPosition(ShelfOf(e)), !.upload = up]]
    /\ created' = created \cup {e}
    /\ UNCHANGED <<present, position, published, content, settled>>

\* The foreign key refuses an item whose module is gone.
InsertRow(c) ==
    LET e == curator[c].on
    IN  /\ curator[c].pc = "insert"
        /\ IF e \in ContentItems /\ ModuleOf[e] \notin present
           THEN UNCHANGED <<present, position, content>>
           ELSE /\ present' = present \cup {e}
                /\ position' = [position EXCEPT ![e] = curator[c].top]
                /\ content' = IF e \in ContentItems
                              THEN [content EXCEPT ![e] = curator[c].upload] ELSE content
        /\ curator' = [curator EXCEPT ![c] = IdleCurator]
        /\ UNCHANGED <<created, published, settled>>

\* update_item and update_module up to their save, on the row as it was read.
CheckUpdate(c, e, ch) ==
    LET kind == IF ch.kind = "same" THEN content[e].kind ELSE ch.kind
    IN  /\ curator[c].pc = "idle"
        /\ e \in present
        /\ IF e \in ContentItems
           THEN PayloadAccepted(kind, ch.gives, content[e].carries)
           ELSE ch.kind = "same" /\ ch.gives \cup ch.blanks = {}
        /\ curator' = [curator EXCEPT ![c] =
              [IdleCurator EXCEPT !.pc = "update", !.on = e, !.change = ch]]
        /\ UNCHANGED <<present, created, position, published, content, settled>>

\* save(update_fields): only the fields of the request; nothing when the row is gone.
StoreUpdate(c) ==
    LET e == curator[c].on
        ch == curator[c].change
    IN  /\ curator[c].pc = "update"
        /\ ~Locked(e)
        /\ curator' = [curator EXCEPT ![c] = IdleCurator]
        /\ IF e \notin present
           THEN UNCHANGED <<position, published, content, settled>>
           ELSE /\ published' = CASE ch.published = "yes" -> published \cup {e}
                                  [] ch.published = "no" -> published \ {e}
                                  [] OTHER -> published
                /\ content' = IF e \notin ContentItems THEN content ELSE
                     [content EXCEPT ![e] =
                        [kind |-> IF ch.kind = "same" THEN @.kind ELSE ch.kind,
                         carries |-> (@.carries \cup ch.gives) \ ch.blanks]]
                /\ IF ch.position = -1
                   THEN UNCHANGED <<position, settled>>
                   ELSE /\ position' = [position EXCEPT ![e] = ch.position]
                        /\ settled' = [settled EXCEPT ![e] = 0]
        /\ UNCHANGED <<present, created>>

\* delete_module, delete_item: what is inside, and the receipts, go with the row.
DeleteRow(e) ==
    LET gone == {e} \cup {i \in ContentItems : ModuleOf[i] = e}
    IN  /\ e \in present
        /\ \A x \in gone : ~Locked(x)
        /\ present' = present \ gone
        /\ published' = published \ gone
        /\ UNCHANGED <<created, position, content, curator, settled>>

-----------------------------------------------------------------------------
\* reorder_modules, reorder_items: every sibling exactly once.
ReadSiblings(c, shelf) ==
    /\ curator[c].pc = "idle"
    /\ Siblings(shelf) # {}
    /\ \E order \in SetToSeqs(Siblings(shelf)) :
          curator' = [curator EXCEPT ![c] =
             [IdleCurator EXCEPT !.pc = "reorder", !.on = shelf, !.order = order]]
    /\ UNCHANGED <<present, created, position, published, content, settled>>

Listed(order) == {order[k] : k \in 1..Len(order)}

PlaceIn(order, e) == CHOOSE k \in 1..Len(order) : order[k] = e

\* The rows of a shelf in the order given to them, and no others of the shelf.
Ordered(shelf, order) ==
    [e \in Shelved |-> IF ShelfOf(e) # shelf THEN settled[e]
                       ELSE IF e \in Listed(order) THEN PlaceIn(order, e) ELSE 0]

\* Mutant: each row is saved outside a transaction, so it is visible at once and unlocked.
SavePositionAlone(c) ==
    LET e == curator[c].order[curator[c].saved + 1]
        last == curator[c].saved + 1 = Len(curator[c].order)
    IN  /\ curator[c].pc = "reorder"
        /\ curator[c].saved < Len(curator[c].order)
        /\ position' = [position EXCEPT ![e] = 10 * (curator[c].saved + 1)]
        /\ curator' = [curator EXCEPT ![c] =
              IF last THEN IdleCurator ELSE [@ EXCEPT !.saved = curator[c].saved + 1]]
        /\ settled' = IF last THEN Ordered(curator[c].on, curator[c].order) ELSE settled
        /\ UNCHANGED <<present, created, published, content>>

\* One save of the loop: it waits for a row another transaction has saved, and
\* fails the whole request when the row is gone.
SavePosition(c) ==
    LET e == curator[c].order[curator[c].saved + 1]
    IN  /\ curator[c].pc = "reorder"
        /\ curator[c].saved < Len(curator[c].order)
        /\ ~Locked(e)
        /\ curator' = [curator EXCEPT ![c] =
              IF e \in present THEN [@ EXCEPT !.saved = curator[c].saved + 1] ELSE IdleCurator]
        /\ UNCHANGED <<present, created, position, published, content, settled>>

CommitOrder(c) ==
    LET order == curator[c].order
    IN  /\ curator[c].pc = "reorder"
        /\ curator[c].saved = Len(order)
        /\ position' = [e \in Shelved |->
              IF e \in Listed(order) THEN 10 * PlaceIn(order, e) ELSE position[e]]
        /\ settled' = Ordered(curator[c].on, order)
        /\ curator' = [curator EXCEPT ![c] = IdleCurator]
        /\ UNCHANGED <<present, created, published, content>>

\* Rolled back: a deadlock with another reorder, or the death of the process.
CuratorAborts(c) ==
    /\ curator[c].pc # "idle"
    /\ curator' = [curator EXCEPT ![c] = IdleCurator]
    /\ UNCHANGED <<present, created, position, published, content, settled>>

-----------------------------------------------------------------------------
ContentInit ==
    /\ present = {} /\ created = {} /\ published = {}
    /\ position = [e \in Shelved |-> 0]
    /\ content = [i \in ContentItems |-> NoItem]
    /\ curator = [c \in Curators |-> IdleCurator]
    /\ settled = [e \in Shelved |-> 0]

ContentNext ==
    \/ \E c \in Curators :
          \/ \E e \in Shelved, up \in Uploads : CheckCreate(c, e, up)
          \/ InsertRow(c)
          \/ \E e \in Shelved, ch \in Changes : CheckUpdate(c, e, ch)
          \/ StoreUpdate(c)
          \/ \E s \in Shelves : ReadSiblings(c, s)
          \/ SavePosition(c)
          \/ CommitOrder(c)
          \/ CuratorAborts(c)
    \/ \E e \in Shelved : DeleteRow(e)

ContentSpec == ContentInit /\ [][ContentNext]_contentVars

-----------------------------------------------------------------------------
ContentTypeOK ==
    /\ present \subseteq created /\ created \subseteq Shelved /\ published \subseteq present
    /\ position \in [Shelved -> Nat] /\ settled \in [Shelved -> Nat]
    /\ content \in [ContentItems -> ContentItem]
    /\ curator \in [Curators -> Curator]

\* Whatever requests run at once, the rows a committed reorder listed stand in
\* its order until one of them is moved singly or another reorder commits; they
\* never show a mixture of two orders (services.reorder_modules, reorder_items).
OrderStands ==
    \A d, e \in present :
       ShelfOf(d) = ShelfOf(e) /\ 0 < settled[d] /\ settled[d] < settled[e]
          => position[d] < position[e]

\* What the module's opening comment and the test "each kind demands its payload"
\* say of every write: an item carries what its kind needs (services._validate_payload).
ItemsCarryPayload ==
    \A i \in ContentItems \cap present : PayloadAccepted(content[i].kind, {}, content[i].carries)
=============================================================================
