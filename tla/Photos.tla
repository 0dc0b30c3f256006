------------------------------- MODULE Photos -------------------------------
(***************************************************************************)
(* One product's photographs, between the sheet and Drive: the import of a *)
(* new product (the add form's two calls: photos, then the row), the retry *)
(* that finishes an import, and the hard delete (lib/drive/commit.ts,      *)
(* folder.ts, upload.ts, client.ts; api/admin/photos, rugs, retry, delete).*)
(* A folder is numbered by its creation, a photo by its place on the       *)
(* supplier's page, which offers the same ones each time.  A file in "All  *)
(* Images" is a photo under a name; an import knows it by its name alone.  *)
(* Reads are retried and writes are not, so a write may take effect and    *)
(* fail.  Left out: the copy of the first photo, which nothing reads; a    *)
(* product saved without photos or without an id; and a retry that writes  *)
(* nothing, for want of a source, of a page or of photos on it.            *)
(***************************************************************************)
EXTENDS Naturals, Sequences, FiniteSets

CONSTANTS
    Requests,
    N,                      \* photos the page offers
    Slugs,                  \* slugs the row may have: 1 is what the add form makes of the name
    UPLOAD_CONCURRENCY,
    MaxImports, MaxFaults, MaxRenames     \* bounds

ASSUME PhotosConstants ==
    N \in Nat \ {0} /\ UPLOAD_CONCURRENCY \in Nat \ {0} /\ Slugs \subseteq Nat \ {0} /\ 1 \in Slugs

VARIABLES
    folders,        \* product folders (in 0) and the "All Images" inside them, as they were made
    held,           \* how many files of each photo each folder holds under each name
    root,           \* the photos folder: "none", "private" or "shared"
    resolved,       \* this process knows it
    resolving,      \* the call of the lookup under way
    row,            \* the product's row in the sheet: its card photo, status, folder and slug
    name,           \* the product's name, part of its folder's name
    req,            \* what each request is doing
    imports, faults, renames,
    asked,          \* history: the photos asked for of the import that completed the row
    skipped,        \* history: an import left out a photo of the page before one it sent
    renumbered,     \* history: an import sent photos under another slug than the add form's
    blind,          \* history: an import began without knowing what was in Drive or on its way
    deleted         \* history: a delete reached Drive

driveVars == <<folders, held>>
rootVars == <<root, resolved, resolving>>
bounds == <<imports, faults, renames>>
sentVars == <<skipped, renumbered, blind>>
photosVars == <<driveVars, rootVars, row, name, req, bounds, asked, sentVars, deleted>>

Places == 1..N
NoRow == [primary |-> 0, status |-> "none", folder |-> 0, slug |-> 0]
Resting == [at |-> "rest"]

\* The version of a row is a digest of its cells.
version == <<row, name>>

\* The photos of the page, and those that are ticked of them, in its order.
Page == [i \in Places |-> i]
Ticked == {s \in UNION {[1..k -> Places] : k \in Places} : \A i, j \in DOMAIN s : i < j => s[i] < s[j]}

\* The name of a file without its extension: the photo's place in the request, after the slug.
photoName(prefix, i) == IF i = 1 THEN <<0, 1>> ELSE <<prefix, i>>
Names == {photoName(prefix, i) : prefix \in Slugs, i \in Places}

PhotosInit ==
    /\ folders = <<>> /\ held = <<>>
    /\ root \in {"none", "shared"} /\ resolved = FALSE /\ resolving = "no"
    /\ row = NoRow /\ name = 1
    /\ req = [q \in Requests |-> Resting]
    /\ imports = 0 /\ faults = 0 /\ renames = 0
    /\ asked = {} /\ skipped = FALSE /\ renumbered = FALSE /\ blind = FALSE /\ deleted = FALSE

-----------------------------------------------------------------------------
(* Drive                                                                   *)

Fault == faults < MaxFaults /\ faults' = faults + 1

\* Deleting a folder takes what is in it.
Gone(f) == folders[f].gone \/ (folders[f].in # 0 /\ folders[folders[f].in].gone)
Children(in, label) ==
    {f \in DOMAIN folders : folders[f].in = in /\ folders[f].label = label /\ ~Gone(f)}

\* Of several folders with one name, the one Drive lists first is taken: the same one each time.
Oldest(fs) == CHOOSE f \in fs : \A g \in fs : f <= g

CreateFolder(in, label) ==
    /\ in # 0 => ~Gone(in)
    /\ folders' = Append(folders, [in |-> in, label |-> label, gone |-> FALSE])
    /\ held' = Append(held, [x \in Names \X Places |-> 0])

Store(f, n, p) ==
    /\ ~Gone(f)
    /\ held' = [held EXCEPT ![f][<<n, p>>] = IF @ = 2 THEN 2 ELSE @ + 1]
    /\ UNCHANGED folders

\* A call about a folder fails by itself, or because the folder was deleted.
FaultIn(f) == Fault \/ (f # 0 /\ Gone(f) /\ UNCHANGED faults)

\* A folder holds a photo under a name; the names in a folder.
Holds(f, n, p) == ~Gone(f) /\ held[f][<<n, p>>] > 0
In(f) == {n \in Names : \E p \in Places : Holds(f, n, p)}

-----------------------------------------------------------------------------
(* the photos folder: one lookup at a time, remembered when it succeeds    *)

Release(at) ==
    req' = [q \in Requests |-> IF req[q].at = "root" THEN [req[q] EXCEPT !.at = at] ELSE req[q]]

Resolve ==
    /\ \/ resolving = "list" /\ root # "shared"
          /\ resolving' = (IF root = "none" THEN "create" ELSE "share") /\ UNCHANGED <<root, resolved, req>>
       \/ resolving = "create" /\ root' = "private" /\ resolving' = "share" /\ UNCHANGED <<resolved, req>>
       \/ /\ resolving = "share" \/ (resolving = "list" /\ root = "shared")
          /\ root' = "shared" /\ resolved' = TRUE /\ resolving' = "no"
          /\ Release("product")
    /\ UNCHANGED <<driveVars, row, name, bounds, asked, sentVars, deleted>>

\* Everyone waiting fails with it; the next request looks again, and heals what was left.
ResolveFails ==
    /\ resolving # "no"
    /\ Fault
    /\ resolving' = "no"
    /\ \/ UNCHANGED root
       \/ resolving = "create" /\ root' = "private"
       \/ resolving = "share" /\ root' = "shared"
    /\ Release("row")
    /\ UNCHANGED <<driveVars, resolved, row, name, imports, renames, asked, sentVars, deleted>>

-----------------------------------------------------------------------------
(* commitPhotos                                                            *)

Begin(q, kind, sends) ==
    /\ req[q] = Resting
    /\ \/ imports < MaxImports /\ imports' = imports + 1
       \/ /\ imports = MaxImports /\ UNCHANGED imports
          /\ row.status = "pending" /\ \A o \in Requests : req[o] = Resting
    /\ req' = [req EXCEPT ![q] =
                 [at |-> IF resolved THEN "product" ELSE "root", kind |-> kind, product |-> 0, all |-> 0,
                  sends |-> sends, fate |-> [i \in Places |-> "open"], version |-> version]]
    /\ resolving' = IF resolved \/ resolving # "no" THEN resolving ELSE "list"
    /\ UNCHANGED <<driveVars, root, resolved, row, name, faults, renames, asked, sentVars, deleted>>

\* The add form sends the photos that are ticked, of a product that has no row yet.
Add(q) == row = NoRow /\ \E sends \in Ticked : Begin(q, "add", sends)

\* Mutant of Retry: an import that made no folder cannot be finished.
RetryFiled(q) == row.folder # 0 /\ Begin(q, "retry", Page)

\* "Finish photo import", on the row as it is now: with every photo of the page.
Retry(q) == row # NoRow /\ Begin(q, "retry", Page)

\* The add form makes the slug of the name; the row's own may be numbered, or typed since.
namePrefix(q) == IF req[q].kind = "retry" THEN req[q].version[1].slug ELSE 1
FileName(q, i) == photoName(namePrefix(q), i)

\* What it is about to send is told apart from what is there and on its way.
Remember(q, all, existing) ==
    /\ skipped' = (skipped \/ \E i \in DOMAIN req[q].sends : req[q].sends[i] # i)
    /\ renumbered' = (renumbered \/ namePrefix(q) # 1)
    /\ blind' = (\/ blind
                 \/ \E f \in DOMAIN folders : \E n \in In(f) : f # all \/ n \notin existing
                 \/ \E o \in Requests \ {q} : req[o].at = "photos")

\* Mutant of StartPhotos: what is there already is uploaded again.
StartAllPhotos(q, all, existing) ==
    /\ req' = [req EXCEPT ![q] = [@ EXCEPT !.at = "photos", !.all = all]]
    /\ Remember(q, all, existing)

\* The transfers start; where a file has the name already, it is taken for the photo.
StartPhotos(q, all, existing) ==
    /\ req' = [req EXCEPT ![q] = [@ EXCEPT
                 !.at = "photos", !.all = all,
                 !.fate = [i \in Places |-> IF FileName(q, i) \in existing THEN "reused" ELSE "open"]]]
    /\ Remember(q, all, existing)

\* A retry lists the folder before it uploads.
Found(q, all) ==
    IF req[q].kind = "retry"
    THEN req' = [req EXCEPT ![q] = [@ EXCEPT !.at = "list", !.all = all]] /\ UNCHANGED sentVars
    ELSE StartPhotos(q, all, {})

FolderName(q) == req[q].version[2]
Goto(q, at) == req' = [req EXCEPT ![q].at = at]

\* ensureChild, for the product's folder and the one inside it: the first that has the name, or a new one.
EnsureChild(q) ==
    /\ \/ /\ req[q].at = "product"
          /\ IF Children(0, FolderName(q)) = {} THEN Goto(q, "make product")
             ELSE req' = [req EXCEPT ![q] = [@ EXCEPT !.at = "all", !.product = Oldest(Children(0, FolderName(q)))]]
          /\ UNCHANGED <<driveVars, sentVars>>
       \/ /\ req[q].at = "make product"
          /\ CreateFolder(0, FolderName(q))
          /\ req' = [req EXCEPT ![q] = [@ EXCEPT !.at = "all", !.product = Len(folders')]]
          /\ UNCHANGED sentVars
       \/ /\ req[q].at = "all"
          /\ IF Children(req[q].product, 0) = {} THEN Goto(q, "make all") /\ UNCHANGED sentVars
             ELSE Found(q, Oldest(Children(req[q].product, 0)))
          /\ UNCHANGED driveVars
       \/ /\ req[q].at = "make all"
          /\ CreateFolder(req[q].product, 0)
          /\ Found(q, Len(folders'))
    /\ UNCHANGED <<rootVars, row, name, bounds, asked, deleted>>

\* No folder, no upload: what was made stays, and the row is not told of it.
EnsureChildFails(q) ==
    /\ req[q].at \in {"product", "make product", "all", "make all"}
    /\ req' = [req EXCEPT ![q] = [@ EXCEPT !.at = "row", !.product = 0]]
    /\ \/ FaultIn(req[q].product) /\ UNCHANGED driveVars
       \/ req[q].at = "make product" /\ Fault /\ CreateFolder(0, FolderName(q))
       \/ req[q].at = "make all" /\ Fault /\ CreateFolder(req[q].product, 0)
    /\ UNCHANGED <<rootVars, row, name, imports, renames, asked, sentVars, deleted>>

\* What an earlier run already uploaded, by the names without their extensions.  A listing that
\* fails is not fatal: the photos are uploaded again.
List(q) ==
    /\ req[q].at = "list"
    /\ \/ StartPhotos(q, req[q].all, In(req[q].all)) /\ UNCHANGED faults
       \/ FaultIn(req[q].all) /\ StartPhotos(q, req[q].all, {})
    /\ UNCHANGED <<driveVars, rootVars, row, name, imports, renames, asked, deleted>>

\* The workers take the open photos in order.
Open(q) == {i \in Places : req[q].at = "photos" /\ i \in DOMAIN req[q].sends /\ req[q].fate[i] = "open"}
Sending(q) == {i \in Open(q) : Cardinality({o \in Open(q) : o < i}) < UPLOAD_CONCURRENCY}
Outcome(q, i, s) == req' = [req EXCEPT ![q] = [@ EXCEPT !.fate[i] = s]]
StoreOf(q, i) == Store(req[q].all, FileName(q, i), req[q].sends[i])

Uploaded(q, i) ==
    /\ i \in Sending(q)
    /\ StoreOf(q, i)
    /\ Outcome(q, i, "landed")
    /\ UNCHANGED <<rootVars, row, name, bounds, asked, sentVars, deleted>>

\* The download or the upload failed, or the answer was lost after the file was stored.
UploadFails(q, i) ==
    /\ i \in Sending(q)
    /\ Outcome(q, i, "failed")
    /\ \/ FaultIn(req[q].all) /\ UNCHANGED driveVars
       \/ Fault /\ StoreOf(q, i)
    /\ UNCHANGED <<rootVars, row, name, imports, renames, asked, sentVars, deleted>>

Committed(q) ==
    /\ req[q].at = "photos" /\ Open(q) = {}
    /\ req' = [req EXCEPT ![q] = IF @.kind = "nobody" THEN Resting ELSE [@ EXCEPT !.at = "row"]]
    /\ UNCHANGED <<driveVars, rootVars, row, name, bounds, asked, sentVars, deleted>>

\* The form stops waiting for the photos and saves the row without them; the server goes on.
GiveUp(q) ==
    /\ req[q].at = "photos" /\ req[q].kind = "add"
    /\ Fault
    /\ row = NoRow
    /\ \E new \in Slugs : row' = [NoRow EXCEPT !.status = "pending", !.slug = new]
    /\ req' = [req EXCEPT ![q].kind = "nobody"]
    /\ UNCHANGED <<driveVars, rootVars, name, imports, renames, asked, sentVars, deleted>>

-----------------------------------------------------------------------------
(* the row                                                                 *)

ids(q) == {i \in DOMAIN req[q].sends : req[q].fate[i] \in {"reused", "landed"}}

\* Mutant of complete: some photo is enough.
completeWithSome(q) == ids(q) # {}

complete(q) == ids(q) = DOMAIN req[q].sends

\* The photo of the card.  A first photo that landed now takes its place; otherwise the row keeps
\* the one it shows.
primary(q) ==
    IF req[q].fate[1] = "landed" THEN 1
    ELSE IF row.primary # 0 THEN row.primary
    ELSE IF ids(q) = {} THEN 0 ELSE CHOOSE i \in ids(q) : \A o \in ids(q) : i <= o

\* The folder is told of with the photos in it: an add none of whose photos landed is an error.
toldFolder(q) == req[q].product # 0 /\ (req[q].kind = "retry" \/ ids(q) # {})

\* The new row, under a slug that no other row has, or the update of the version that was read.
WriteRow(q) ==
    /\ req[q].at = "row"
    /\ \E new \in Slugs \cup {row.slug} :
          /\ \/ req[q].kind = "add" /\ row = NoRow /\ new # row.slug
             \/ req[q].kind = "retry" /\ row # NoRow /\ version = req[q].version /\ new = row.slug
          /\ row' = [primary |-> primary(q), status |-> IF complete(q) THEN "complete" ELSE "pending",
                     folder |-> IF toldFolder(q) THEN req[q].product ELSE row.folder, slug |-> new]
    /\ asked' = IF complete(q) THEN {req[q].sends[i] : i \in DOMAIN req[q].sends} ELSE {}
    /\ req' = [req EXCEPT ![q] = Resting]
    /\ UNCHANGED <<driveVars, rootVars, name, bounds, sentVars, deleted>>

\* Taken id, changed row, or the sheet fails: an answer of 4xx or 5xx.
RowRefused(q) ==
    /\ req[q].at = "row"
    /\ \/ req[q].kind = "add" /\ row # NoRow /\ UNCHANGED faults
       \/ req[q].kind = "retry" /\ (row = NoRow \/ version # req[q].version) /\ UNCHANGED faults
       \/ req[q].kind # "delete" /\ Fault
    /\ req' = [req EXCEPT ![q] = Resting]
    /\ UNCHANGED <<driveVars, rootVars, row, name, imports, renames, asked, sentVars, deleted>>

\* An edit of the row, to another name or to another slug.
Rename ==
    /\ row # NoRow /\ renames < MaxRenames
    /\ renames' = renames + 1
    /\ \/ name' = name + 1 /\ UNCHANGED row
       \/ \E new \in Slugs \ {row.slug} : row' = [row EXCEPT !.slug = new] /\ UNCHANGED name
    /\ UNCHANGED <<driveVars, rootVars, req, imports, faults, asked, sentVars, deleted>>

-----------------------------------------------------------------------------
(* the hard delete: Drive first, whatever fails there, then the row        *)

Delete(q) ==
    /\ req[q] = Resting /\ row # NoRow /\ ~deleted
    /\ req' = [req EXCEPT ![q] = [at |-> "delete", kind |-> "delete", version |-> version]]
    /\ UNCHANGED <<driveVars, rootVars, row, name, bounds, asked, sentVars, deleted>>

\* The folder the row named when it was read, and the photos outside it, which it names too.
DeleteFiles(q) ==
    LET f == req[q].version[1].folder
    IN  /\ req[q].at = "delete"
        /\ Goto(q, "row")
        /\ deleted' = TRUE
        /\ \/ /\ folders' = IF f = 0 THEN folders ELSE [folders EXCEPT ![f].gone = TRUE]
              /\ UNCHANGED faults
           \/ Fault /\ UNCHANGED folders
        /\ UNCHANGED <<held, rootVars, row, name, imports, renames, asked, sentVars>>

DeleteRow(q) ==
    /\ req[q].at = "row" /\ req[q].kind = "delete"
    /\ \/ version = req[q].version /\ row' = NoRow /\ UNCHANGED faults
       \/ version # req[q].version /\ UNCHANGED <<row, faults>>
       \/ Fault /\ UNCHANGED row
    /\ req' = [req EXCEPT ![q] = Resting]
    /\ UNCHANGED <<driveVars, rootVars, name, imports, renames, asked, sentVars, deleted>>

\* The process stops: the requests are lost, with what it remembered.
Crash ==
    /\ Fault
    /\ \E q \in Requests : req[q] # Resting
    /\ req' = [q \in Requests |-> Resting]
    /\ resolved' = FALSE /\ resolving' = "no"
    /\ UNCHANGED <<driveVars, root, row, name, imports, renames, asked, sentVars, deleted>>

-----------------------------------------------------------------------------
Answered(q) ==
    \/ EnsureChild(q) \/ EnsureChildFails(q) \/ List(q) \/ Committed(q)
    \/ \E i \in Places : Uploaded(q, i) \/ UploadFails(q, i)
    \/ WriteRow(q) \/ RowRefused(q) \/ DeleteFiles(q) \/ DeleteRow(q)

PhotosNext ==
    \/ Resolve \/ ResolveFails \/ Rename \/ Crash
    \/ \E q \in Requests : Add(q) \/ Retry(q) \/ Delete(q) \/ GiveUp(q) \/ Answered(q)

\* While there are calls under way one of them ends, and the studio presses "Finish photo import"
\* while the row asks for it.
PhotosFairness ==
    /\ WF_photosVars(Resolve \/ ResolveFails \/ \E q \in Requests : Answered(q))
    /\ WF_photosVars(\E q \in Requests : row.status = "pending" /\ Retry(q))
PhotosSpec == PhotosInit /\ [][PhotosNext]_photosVars /\ PhotosFairness

-----------------------------------------------------------------------------
\* A row marked complete names a folder with every photo its import was asked for in it, whatever
\* failed on the way there, but for one whose number a photo sent before by an add form that had left
\* one out has taken; and a photo the card shows lies in a folder anyone can read: until a delete has
\* been to Drive (commit.ts:112-133, 155-161, folder.ts:68-97, retry.ts:91-129, rug-form.ts:467-470).
RowIsTrue ==
    ~deleted =>
        /\ row.primary # 0 => root = "shared"
        /\ row.status = "complete" =>
              \E all \in Children(row.folder, 0) : \A p \in asked :
                  \/ \E n \in Names : Holds(all, n, p)
                  \/ skipped /\ \E n \in Names, o \in Places \ {p} : n[2] = p /\ Holds(all, n, o)

\* However often an import is finished, no name is in Drive twice, and no photo, but under two numbers
\* after an add form that left one out, or under two slugs after a row took another than the form's:
\* unless an import began without seeing what was there or on its way, beside another, in another
\* folder, or with a listing that failed (commit.ts:105-133, rug-form.ts:935-937, retry.ts:91-101).
NoPhotoTwice ==
    LET files == {x \in (DOMAIN folders) \X Names \X Places : Holds(x[1], x[2], x[3])}
    IN  ~blind => \A x, y \in files :
            /\ x[1] = y[1] /\ held[x[1]][<<x[2], x[3]>>] = 1
            /\ x[2] = y[2] => x[3] = y[3]
            /\ x[3] = y[3] => \/ x[2] = y[2]
                              \/ skipped /\ x[2][2] # y[2][2]
                              \/ renumbered /\ x[2][1] # y[2][1]

\* An import that stopped half-way is finished when the studio asks often enough
\* (commit.ts:8-14, retry.ts:1-16).
ImportFinishes == []<>(row.status # "pending")

\* "The row goes in first, marked pending, so a failure half-way leaves something visible and
\* retryable rather than orphaned files in Drive" (rug-form.ts:931-932).
NoOrphanedFiles ==
    (~deleted /\ \A q \in Requests : req[q] = Resting) => (row # NoRow \/ \A f \in DOMAIN folders : In(f) = {})

\* "Filenames are deterministic, so a name already in the folder is a photo that already landed"
\* (retry.ts:15-16).
NameIsItsPhoto == \A f \in DOMAIN folders, n \in Names, p \in Places : Holds(f, n, p) => n[2] = p
=============================================================================
