--------------------------- MODULE CollectionsDesk ---------------------------
(***************************************************************************)
(* The studio's page of collections over the endpoints that list, create,  *)
(* change and delete them.  The page holds each row as an answer gave it,  *)
(* draws all rows anew after every change, and sends with a save the       *)
(* version of the row the text was typed into.  Other windows of the       *)
(* studio write the same tab, and every write has its row of the AuditLog. *)
(*                                                                         *)
(* The version of a row is the row itself (the hash has no collisions).    *)
(* Each text typed is a new one: that a row changes and changes back while *)
(* a save is under way, which no hash can tell, is left out.               *)
(***************************************************************************)
EXTENDS Naturals, Sequences, SequencesExt, FiniteSets

CONSTANTS Slugs,        \* what a collection may be called in its address
          FirstSlugs,   \* those the page was rendered with
          Calls,      \* requests under way
          MaxCalls, MaxTexts, MaxElsewhere, MaxUpsets   \* bounds

ASSUME SlugsAssumption == FirstSlugs \subseteq Slugs /\ IsFiniteSet(FirstSlugs)

VARIABLES collections,  \* the rows of the tab
          audit,        \* the AuditLog, oldest first
          page,         \* the page's collections, by the id they were asked for
          typed,        \* what stands in an open panel, and over what it was typed
          call,         \* the requests, from the page and back to it
          texts, calls, elsewhere, upsets,
          twice,        \* two rows had one id
          blind         \* a save replaced what its author had not seen

collectionsVars == <<collections, audit, page, typed, call, texts, calls, elsewhere, upsets, twice, blind>>

NoCall == [at |-> "none"]
None == <<>>
Fields == {"name", "description"}
Row(id, name, description) == [id |-> id, name |-> name, description |-> description]

CollectionsInit ==
    /\ collections = [i \in DOMAIN SetToSeq(FirstSlugs) |-> Row(SetToSeq(FirstSlugs)[i], 0, 0)]
    /\ audit = <<>>
    /\ page = [id \in FirstSlugs |-> Row(id, 0, 0)]
    /\ typed = <<>>
    /\ call = [r \in Calls |-> NoCall]
    /\ texts = 0 /\ calls = 0 /\ elsewhere = 0 /\ upsets = 0
    /\ twice = FALSE /\ blind = FALSE

-----------------------------------------------------------------------------
\* The page.  A panel is typed into; drawing the rows anew empties them all.
Type ==
    /\ texts < MaxTexts /\ texts' = texts + 1
    /\ \E key \in DOMAIN page \ DOMAIN typed, fields \in (SUBSET Fields) \ {{}} :
          typed' = [k \in DOMAIN typed \cup {key} |->
                       IF k = key THEN [cells |-> [f \in Fields |-> IF f \in fields THEN texts + 1 ELSE page[key][f]],
                                        over |-> page[key]]
                       ELSE typed[k]]
    /\ UNCHANGED <<collections, audit, page, call, calls, elsewhere, upsets, twice, blind>>

renderCollections == typed' = <<>>

Post(r, request) ==
    /\ call[r] = NoCall /\ calls < MaxCalls /\ calls' = calls + 1
    /\ call' = [call EXCEPT ![r] = request]
    /\ UNCHANGED <<collections, audit, page, typed, elsewhere, upsets, twice, blind>>

Request(kind, id, version, cells, over) ==
    [at |-> "sent", heard |-> TRUE, kind |-> kind, id |-> id, version |-> version, cells |-> cells, over |-> over]

\* The row of the table that is found under an id is one that bears it, of the collection that is so
\* kept or of another whose answer strayed.
Drawn(id) == {key \in DOMAIN page : page[key].id = id}
InRow(key) == IF key \in DOMAIN typed THEN typed[key].cells ELSE [f \in Fields |-> page[key][f]]
Over(key) == IF key \in DOMAIN typed THEN typed[key].over ELSE page[key]

\* Enter in the field of the name saves too, whatever the buttons say.
saveCollection(r) == \E id \in DOMAIN page : \E key \in Drawn(id) :
    Post(r, Request("save", id, page[key], InRow(key), Over(key))) /\ UNCHANGED texts

deleteCollection(r) == \E id \in DOMAIN page : \E key \in Drawn(id) :
    Post(r, Request("delete", id, page[key], None, page[key])) /\ UNCHANGED texts

\* The name asked for gives the id.
addCollection(r) == \E id \in Slugs :
    /\ texts < MaxTexts /\ texts' = texts + 1
    /\ Post(r, Request("create", id, None, [f \in Fields |-> texts + 1], None))

-----------------------------------------------------------------------------
\* The endpoints.
Bearing(id) == {i \in DOMAIN collections : collections[i].id = id}
First(id) == CHOOSE i \in Bearing(id) : \A j \in Bearing(id) : i <= j
Reply(r, status, answer) ==
    call' = [call EXCEPT ![r] = [at |-> status, heard |-> @.heard, kind |-> @.kind, id |-> @.id, answer |-> answer]]

\* The audit row holds the fields that change, as they were in the snapshot and as they will be.
diffFields(before, after) == [f \in {g \in Fields : before[g] # after[g]} |-> [before |-> before[f], after |-> after[f]]]

Going(r, i, change, cells) ==
    call' = [call EXCEPT ![r] = [at |-> "queued", heard |-> @.heard, kind |-> @.kind, id |-> @.id, version |-> @.version,
                                 over |-> @.over, row |-> i, cells |-> cells, change |-> change]]

\* The whole row is decided here, from a snapshot that is not yet locked.
Check(r) ==
    LET q == call[r]
        current == collections[First(q.id)]
    IN
    /\ q.at = "sent"
    /\ CASE q.kind = "create" ->
              IF Bearing(q.id) # {} THEN Reply(r, "conflict", None)
              ELSE Going(r, 0, [f \in Fields |-> [before |-> 0, after |-> q.cells[f]]], q.cells)
         [] q.kind # "create" /\ Bearing(q.id) = {} -> Reply(r, "refused", None)
         [] q.kind = "save" /\ Bearing(q.id) # {} ->
              IF diffFields(current, q.cells) = <<>> THEN Reply(r, "unchanged", None)
              ELSE Going(r, First(q.id), diffFields(current, q.cells), q.cells)
         [] OTHER -> Going(r, First(q.id), <<>>, q.cells)
    /\ UNCHANGED <<collections, audit>>

\* Another collection is called so already.
Clashes(r) ==
    /\ call[r].at = "sent" /\ call[r].kind \in {"save", "create"} /\ Reply(r, "conflict", None)
    /\ UNCHANGED <<collections, audit>>

\* Under the lock the row is read again and compared with the version that came with the request.
VersionOfId(q) == q.row \in DOMAIN collections /\ collections[q.row].id = q.id
SameVersion(q) == q.row \in DOMAIN collections /\ collections[q.row] = q.version

Cells(q) == Row(q.id, q.cells["name"], q.cells["description"])
Entry(q) == [kind |-> q.kind, id |-> q.id, change |-> q.change]

Write(r) ==
    LET q == call[r] IN
    /\ q.at = "queued"
    /\ IF q.kind # "create" /\ ~SameVersion(q)
         THEN Reply(r, "conflict", None) /\ UNCHANGED <<collections, audit, twice, blind>>
         ELSE /\ audit' = Append(audit, Entry(q))
              /\ collections' = CASE q.kind = "create" -> Append(collections, Cells(q))
                                  [] q.kind = "delete" -> RemoveAt(collections, q.row)
                                  [] OTHER -> [collections EXCEPT ![q.row] = Cells(q)]
              /\ twice' = (twice \/ (q.kind = "create" /\ Bearing(q.id) # {}))
              /\ blind' = (blind \/ (q.kind # "create" /\ collections[q.row] # q.over))
              /\ IF q.kind = "delete" THEN Reply(r, "ok", None)
                 ELSE call' = [call EXCEPT ![r] = [at |-> "written", heard |-> @.heard, kind |-> @.kind, id |-> @.id,
                                                   row |-> IF q.kind = "create" THEN Len(collections') ELSE @.row]]

\* The row is read back by its number when the lock is free.
freshCollection(r) ==
    /\ call[r].at = "written"
    /\ IF call[r].row \in DOMAIN collections THEN Reply(r, "ok", collections[call[r].row]) ELSE Reply(r, "refused", None)
    /\ UNCHANGED <<collections, audit>>

\* GET lists the tab.
List(r) ==
    /\ call[r].at = "asked"
    /\ call' = [call EXCEPT ![r] = [at |-> "listed", heard |-> @.heard, rows |-> collections]]
    /\ UNCHANGED <<collections, audit>>

Handle(r) ==
    /\ \/ (Check(r) \/ Clashes(r) \/ freshCollection(r) \/ List(r)) /\ UNCHANGED <<twice, blind>>
       \/ Write(r)
    /\ UNCHANGED <<page, typed, texts, calls, elsewhere, upsets>>

-----------------------------------------------------------------------------
\* The answer at the page.
Keep(key, row) == [k \in DOMAIN page \cup {key} |-> IF k = key THEN row ELSE page[k]]

Took(r) ==
    LET q == call[r] IN
    /\ q.at = "ok" /\ call' = [call EXCEPT ![r] = NoCall]
    /\ page' = CASE q.kind = "delete" -> [k \in DOMAIN page \ {q.id} |-> page[k]]
                 [] q.kind = "create" -> Keep(q.answer.id, q.answer)
                 [] OTHER -> Keep(q.id, q.answer)
    /\ renderCollections

\* After a conflict the page asks for the list; anything else is told, and the text stays.
Refused(r) ==
    /\ call[r].at \in {"conflict", "refused", "unchanged"}
    /\ call' = [call EXCEPT ![r] = IF @.at = "conflict" /\ @.kind # "create" THEN [at |-> "asked", heard |-> TRUE] ELSE NoCall]
    /\ UNCHANGED <<page, typed>>

ById(rows) ==
    [id \in {rows[i].id : i \in DOMAIN rows} |-> rows[CHOOSE i \in DOMAIN rows : rows[i].id = id]]

refreshAroundThePanels(r) ==
    /\ call[r].at = "listed" /\ call' = [call EXCEPT ![r] = NoCall]
    /\ page' = ById(call[r].rows)
    /\ typed' = [k \in DOMAIN typed \cap DOMAIN page' |-> typed[k]]

refresh(r) ==
    /\ call[r].at = "listed" /\ call' = [call EXCEPT ![r] = NoCall]
    /\ page' = ById(call[r].rows)
    /\ renderCollections

Hear(r) ==
    /\ IF call[r].at = "none" \/ call[r].heard THEN Took(r) \/ Refused(r) \/ refresh(r)
       ELSE /\ call[r].at \in {"ok", "conflict", "refused", "unchanged", "listed"}
            /\ call' = [call EXCEPT ![r] = NoCall] /\ UNCHANGED <<page, typed>>
    /\ UNCHANGED <<collections, audit, texts, calls, elsewhere, upsets, twice, blind>>

\* An endpoint fails, and what it has written stays written; or the page gives up on a call, which goes on.
Upset(r) ==
    /\ upsets < MaxUpsets /\ upsets' = upsets + 1
    /\ \/ call[r].at \in {"sent", "queued", "written"} /\ Reply(r, "refused", None)
       \/ call[r].at # "none" /\ call[r].heard /\ call' = [call EXCEPT ![r].heard = FALSE]
    /\ UNCHANGED <<collections, audit, page, typed, texts, calls, elsewhere, twice, blind>>

\* Another window of the studio changes, or deletes, a row it has just read.
Elsewhere ==
    /\ elsewhere < MaxElsewhere /\ elsewhere' = elsewhere + 1
    /\ \E i \in DOMAIN collections :
         \/ /\ texts < MaxTexts /\ texts' = texts + 1
            /\ \E f \in Fields :
                 LET row == [collections[i] EXCEPT ![f] = texts + 1] IN
                 /\ collections' = [collections EXCEPT ![i] = row]
                 /\ audit' = Append(audit, [kind |-> "save", id |-> row.id, change |-> diffFields(collections[i], row)])
         \/ /\ collections' = RemoveAt(collections, i) /\ UNCHANGED texts
            /\ audit' = Append(audit, [kind |-> "delete", id |-> collections[i].id, change |-> <<>>])
    /\ UNCHANGED <<page, typed, call, calls, upsets, twice, blind>>

CollectionsNext ==
    \/ Type \/ Elsewhere
    \/ \E r \in Calls : saveCollection(r) \/ deleteCollection(r) \/ addCollection(r) \/ Handle(r) \/ Hear(r) \/ Upset(r)

CollectionsSpec == CollectionsInit /\ [][CollectionsNext]_collectionsVars

-----------------------------------------------------------------------------
\* What a save or a deletion replaces is what its author had on screen, whatever answers and lists
\* arrived, late or in another order, between the typing and the click.
NothingReplacedUnseen == ~blind

\* What the first n entries of a log tell of a field of a collection, and whether the collection is there.
Newest(entries) == CHOOSE i \in entries : \A j \in entries : j <= i

ToldCell(log, n, id, f) ==
    LET changed == {i \in 1..n : log[i].id = id /\ f \in DOMAIN log[i].change}
    IN  IF changed = {} THEN 0 ELSE log[Newest(changed)].change[f].after

ToldThere(log, n, id) ==
    LET about == {i \in 1..n : log[i].id = id}
    IN  IF about = {} THEN id \in FirstSlugs ELSE log[Newest(about)].kind # "delete"

\* Read from its start, the AuditLog tells the tab: each row the fields of the last entry that changed
\* them, no row that was deleted; and what an entry says was there before was there.
AuditTellsTheTab ==
    ~twice =>
        /\ \A id \in Slugs : Bearing(id) # {} <=> ToldThere(audit, Len(audit), id)
        /\ \A i \in DOMAIN collections, f \in Fields :
              collections[i][f] = ToldCell(audit, Len(audit), collections[i].id, f)
        /\ \A i \in DOMAIN audit : audit[i].kind = "save" =>
              \A f \in DOMAIN audit[i].change : audit[i].change[f].before = ToldCell(audit, i - 1, audit[i].id, f)
=============================================================================
