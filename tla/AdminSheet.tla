----------------------------- MODULE AdminSheet -----------------------------
(***************************************************************************)
(* The studio's edits of the spreadsheet (pages/api/admin, admin/read.ts,  *)
(* admin/write.ts): products, collections and customers are rows addressed *)
(* by their number, which any deletion or top insertion shifts.  A handler *)
(* decides on a snapshot read outside the lock, then under the lock reads  *)
(* the row again, compares it with what the editor saw, and writes row and *)
(* audit entry in one atomic batch.                                        *)
(*                                                                         *)
(* A row's version token is the row itself (the hash has no collisions);   *)
(* ids are compared as they are (the code ignores case).  Nobody else      *)
(* writes these tabs, and a batch given up on has landed or never will.    *)
(* Drive files, audit entries and the bust that follows are left out.      *)
(***************************************************************************)
EXTENDS AsyncMutex, SequencesExt

CONSTANTS
    Ids,       \* product ids a create may ask for or be given
    Names,     \* collection names; a collection is created under the id of its name
    Codes,     \* customer codes
    Initial,   \* the sheet at the start
    MaxWrites  \* bound on the commits asked for

Tabs == {"Products", "Collections", "Customers"}

VARIABLES
    sheet,  \* the rows of each tab
    form,   \* the row each editor's browser shows
    pc,     \* how far each request is
    job     \* what each request is to write

adminVars == <<lockVars, sheet, form, pc, job>>

\* A product's body is the commit that wrote it and the collections it names, a
\* collection's its name, a customer's the commit that wrote it.
RowOf(tab) ==
    CASE tab = "Products"    -> [id : Ids, body : [val : Nat, names : SUBSET Names]]
      [] tab = "Collections" -> [id : Names, body : Names]
      [] tab = "Customers"   -> [id : Codes, body : Nat]

ASSUME AdminConstants ==
    \A s \in Initial :
        /\ DOMAIN s = Tabs
        /\ \A tab \in Tabs : s[tab] \in Seq(RowOf(tab))
        /\ \A j, k \in DOMAIN s["Customers"] :
              s["Customers"][j].id = s["Customers"][k].id => j = k

NoForm == [tab |-> "none"]
NoJob == [kind |-> "none"]

-----------------------------------------------------------------------------
(* the snapshot: fetchAdminSnapshot(), findRugById() ...                   *)

IdsOf(tab) == {row.id : row \in ToSet(sheet[tab])}
CollectionNames == {row.body : row \in ToSet(sheet["Collections"])}

\* The collections a product may be saved with: every one it asks for must be in the tab.
resolveCollections == SUBSET CollectionNames

\* The parsers drop a row whose id an earlier row has.
Listed(tab) == {k \in DOMAIN sheet[tab] : \A j \in 1..(k - 1) : sheet[tab][j].id # sheet[tab][k].id}

-----------------------------------------------------------------------------
(* what a commit does: one batchUpdate                                     *)

\* Mutants of StillThere: the code of a new customer is not looked up again; the id is
\* compared and the version token is not.
StillThereWithoutPrecheck(j) ==
    CASE j.kind \in {"update", "delete"} -> j.at \in DOMAIN sheet[j.tab] /\ sheet[j.tab][j.at] = j.version
      [] j.kind = "cells" ->
            \A u \in j.updates : u.at \in DOMAIN sheet["Products"] /\ sheet["Products"][u.at].id = u.id
      [] OTHER                           -> TRUE
StillThereById(j) ==
    CASE j.kind \in {"update", "delete"} ->
            j.at \in DOMAIN sheet[j.tab] /\ sheet[j.tab][j.at].id = j.version.id
      [] j.kind = "insertTop"            -> j.row.id \notin IdsOf(j.tab)
      [] j.kind = "cells" ->
            \A u \in j.updates : u.at \in DOMAIN sheet["Products"] /\ sheet["Products"][u.at].id = u.id
      [] OTHER                           -> TRUE

\* The rows a job addresses are still the ones it is about.
StillThere(j) ==
    CASE j.kind \in {"update", "delete"} -> j.at \in DOMAIN sheet[j.tab] /\ sheet[j.tab][j.at] = j.version
      [] j.kind = "insertTop"            -> j.row.id \notin IdsOf(j.tab)
      [] j.kind = "cells" ->
            \A u \in j.updates : u.at \in DOMAIN sheet["Products"] /\ sheet["Products"][u.at].id = u.id
      [] OTHER                           -> TRUE

\* The rows of job j's tab once it is written.
Written(j) ==
    LET rows == sheet[j.tab]
    IN  CASE j.kind = "update"    -> [rows EXCEPT ![j.at].body = j.body]
          [] j.kind = "delete"    -> RemoveAt(rows, j.at)
          [] j.kind = "insert"    -> Append(rows, j.row)
          [] j.kind = "insertTop" -> <<j.row>> \o rows
          [] j.kind = "cells"     ->
                [k \in DOMAIN rows |->
                    LET us == {u \in j.updates : u.at = k}
                    IN  IF us = {} THEN rows[k]
                        ELSE [rows[k] EXCEPT !.body.names = (CHOOSE u \in us : TRUE).names]]

-----------------------------------------------------------------------------
AdminInit ==
    /\ LockInit
    /\ sheet \in Initial
    /\ form = [r \in Requests |-> NoForm]
    /\ pc = [r \in Requests |-> "idle"]
    /\ job = [r \in Requests |-> NoJob]

Idle(r) == pc[r] = "idle"

\* A page shows the rows of a fresh snapshot; the editor opens one of them.
Open(r) ==
    /\ Idle(r)
    /\ \E tab \in Tabs : \E k \in Listed(tab) :
         form' = [form EXCEPT ![r] = [tab |-> tab, row |-> sheet[tab][k]]]
    /\ UNCHANGED <<lockVars, sheet, pc, job>>

\* The editor gives up, or the handler refuses (404, 409, 422) before it asks for the lock.
Close(r) ==
    /\ Idle(r)
    /\ form[r] # NoForm
    /\ form' = [form EXCEPT ![r] = NoForm]
    /\ UNCHANGED <<lockVars, sheet, pc, job>>

\* The handler has its snapshot and joins the lock, in one run of JavaScript.
Ask(r, j) ==
    /\ Idle(r)
    /\ tail < MaxWrites
    /\ Run(r)
    /\ pc' = [pc EXCEPT ![r] = "queued"]
    /\ job' = [job EXCEPT ![r] = j]
    /\ UNCHANGED <<sheet, form>>

Insert(kind, tab, row) == [kind |-> kind, tab |-> tab, row |-> row]

\* rug.create: an id typed or numbered that the snapshot has not, collections it has.
RugCreate(r) ==
    /\ form[r] = NoForm
    /\ \E id \in Ids \ IdsOf("Products"), names \in resolveCollections :
         Ask(r, Insert("insert", "Products", [id |-> id, body |-> [val |-> tail + 1, names |-> names]]))

\* collection.create: by a name no other collection has, now or as its id.
CollectionCreate(r) ==
    /\ form[r] = NoForm
    /\ \E name \in Names \ (CollectionNames \cup IdsOf("Collections")) :
         Ask(r, Insert("insert", "Collections", [id |-> name, body |-> name]))

\* client.create: under a code the snapshot has not.
ClientCreate(r) ==
    /\ form[r] = NoForm
    /\ \E code \in Codes \ IdsOf("Customers") :
         Ask(r, Insert("insertTop", "Customers", [id |-> code, body |-> tail + 1]))

\* Row k of the snapshot has the id on the editor's form; the version is the form's.
Found(r, tab, k) ==
    /\ form[r].tab = tab
    /\ k \in Listed(tab)
    /\ sheet[tab][k].id = form[r].row.id

Update(r, k, body) ==
    [kind |-> "update", tab |-> form[r].tab, at |-> k, version |-> form[r].row, body |-> body]

Delete(r, k) ==
    [kind |-> "delete", tab |-> form[r].tab, at |-> k, version |-> form[r].row]

\* rug.update
RugUpdate(r) ==
    \E k \in Listed("Products"), names \in resolveCollections :
        /\ Found(r, "Products", k)
        /\ Ask(r, Update(r, k, [val |-> tail + 1, names |-> names]))

\* collection.update: another name, one no other collection has.  Products keep the old one.
CollectionUpdate(r) ==
    \E k \in Listed("Collections"), name \in Names \ CollectionNames :
        /\ Found(r, "Collections", k)
        /\ Ask(r, Update(r, k, name))

\* client.update and client.status
ClientUpdate(r) ==
    \E k \in Listed("Customers") :
        /\ Found(r, "Customers", k)
        /\ Ask(r, Update(r, k, tail + 1))

\* rug.delete and client.delete
RowDelete(r) ==
    \E tab \in {"Products", "Customers"} : \E k \in Listed(tab) :
        /\ Found(r, tab, k)
        /\ Ask(r, Delete(r, k))

\* The cells to rewrite: what each product of the snapshot names, without this name.
DetachUpdates(name) ==
    {[at |-> k, id |-> sheet["Products"][k].id, names |-> sheet["Products"][k].body.names \ {name}] :
        k \in {i \in Listed("Products") : name \in sheet["Products"][i].body.names}}

\* collection.delete: the row first, then the cascade, both from one snapshot.
CollectionDelete(r) ==
    \E k \in Listed("Collections") :
        LET name == sheet["Collections"][k].body
        IN  /\ Found(r, "Collections", k)
            /\ Ask(r, [kind |-> "delete", tab |-> "Collections", at |-> k, version |-> form[r].row,
                       name |-> name, updates |-> DetachUpdates(name)])

-----------------------------------------------------------------------------
(* under the lock                                                          *)

Answered(r) ==
    /\ pc' = [pc EXCEPT ![r] = "idle"]
    /\ job' = [job EXCEPT ![r] = NoJob]
    /\ form' = [form EXCEPT ![r] = NoForm]

\* The re-read: every row the job addresses is as expected.
Recheck(r) ==
    /\ pc[r] = "queued"
    /\ Holds(r)
    /\ StillThere(job[r])
    /\ pc' = [pc EXCEPT ![r] = "checked"]
    /\ UNCHANGED <<lockVars, sheet, form, job>>

\* The re-read finds something else (409) or fails (503): nothing is written.
RecheckFails(r) ==
    /\ pc[r] = "queued"
    /\ Release(r)
    /\ Answered(r)
    /\ UNCHANGED sheet

HasCascade(j) == j.tab = "Collections" /\ j.kind = "delete" /\ j.updates # {}

\* The batch lands.  A deleted collection goes on to its products.
Commit(r) ==
    LET j == job[r]
    IN  /\ pc[r] = "checked"
        /\ Release(r)
        /\ sheet' = [sheet EXCEPT ![j.tab] = Written(j)]
        /\ \/ HasCascade(j) /\ pc' = [pc EXCEPT ![r] = "detach"] /\ UNCHANGED <<form, job>>
           \/ ~HasCascade(j) /\ Answered(r)

\* The batch fails, with or without its effect; the cascade is not tried.
CommitFails(r) ==
    LET j == job[r]
    IN  /\ pc[r] = "checked"
        /\ Release(r)
        /\ \/ sheet' = [sheet EXCEPT ![j.tab] = Written(j)]
           \/ UNCHANGED sheet
        /\ Answered(r)

\* The cascade asks for the lock again, after whoever came meanwhile.
Detach(r) ==
    /\ pc[r] = "detach"
    /\ Run(r)
    /\ pc' = [pc EXCEPT ![r] = "queued"]
    /\ job' = [job EXCEPT ![r] = [kind |-> "cells", tab |-> "Products",
                                  name |-> job[r].name, updates |-> job[r].updates]]
    /\ UNCHANGED <<sheet, form>>

-----------------------------------------------------------------------------
Browse(r) == Open(r) \/ Close(r)

Decide(r) ==
    \/ RugCreate(r) \/ RugUpdate(r) \/ RowDelete(r)
    \/ CollectionCreate(r) \/ CollectionUpdate(r) \/ CollectionDelete(r)
    \/ ClientCreate(r) \/ ClientUpdate(r)

Work(r) == Recheck(r) \/ RecheckFails(r) \/ Commit(r) \/ CommitFails(r) \/ Detach(r)

AdminNext == \E r \in Requests : Browse(r) \/ Decide(r) \/ Work(r)

AdminSpec == AdminInit /\ [][AdminNext]_adminVars

\* Every call to the sheet ends, in an answer or a timeout.
FairAdminSpec == AdminSpec /\ \A r \in Requests : WF_adminVars(Work(r))

-----------------------------------------------------------------------------
(* properties                                                              *)

AdminTypeOK ==
    /\ LockTypeOK
    /\ DOMAIN sheet = Tabs
    /\ \A tab \in Tabs : sheet[tab] \in Seq(RowOf(tab))
    /\ \A r \in Requests : form[r] # NoForm => form[r].row \in RowOf(form[r].tab)
    /\ pc \in [Requests -> {"idle", "queued", "checked", "detach"}]

\* From the re-read to the write nothing moves: the row numbers of the batch still mean
\* the rows that were compared, whatever else is queued or answered in between.
CheckedStillThere == \A r \in Requests : pc[r] = "checked" => StillThere(job[r])

\* An edit is replaced or removed only by someone who had it on screen: "409 on a stale
\* version".  The cascade, which rewrites one cell, is the exception.
NoLostUpdate ==
    [][\A tab \in Tabs : \A row \in ToSet(sheet[tab]) \ ToSet(sheet'[tab]) :
         \E r \in Requests :
            /\ pc[r] = "checked"
            /\ job[r].kind = "cells" \/ form[r] = [tab |-> tab, row |-> row]]_adminVars

UniqueIn(tab) == \A j, k \in DOMAIN sheet[tab] : sheet[tab][j].id = sheet[tab][k].id => j = k

\* Two customers never get one private link: the code is looked up again under the lock.
CodesUnique == UniqueIn("Customers")

\* Whatever fails, every request is answered and the lock moves on.
AdminRequestsAnswered == \A r \in Requests : ~Idle(r) ~> Idle(r)

\* "Ids are unique, so a shifted row can never impersonate the target" (write.ts).
ProductIdsUnique == UniqueIn("Products")

\* The cascade takes one name and "the other collections on that product survive
\* untouched" (collections/[id]/delete.ts).  See MCAdminCascade.cfg.
CascadeKeepsOthers ==
    [][\A r \in Requests :
         pc[r] = "checked" /\ job[r].kind = "cells" /\ sheet' # sheet =>
            \A k \in DOMAIN sheet["Products"] :
               sheet["Products"][k].body.names \ sheet'["Products"][k].body.names \subseteq {job[r].name}]_adminVars
=============================================================================
