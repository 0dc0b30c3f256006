------------------------------ MODULE AddForm -------------------------------
(***************************************************************************)
(* The studio's "add a product" form (scripts/admin/rug-form.ts, add mode):*)
(* a link is pasted and fetched, the fields are completed, the photos are  *)
(* imported and the row is posted.  The dialog of a fetch covers the page  *)
(* while it is open (fetch-modal.ts); once it is cancelled, or while the   *)
(* photos are awaited, the fields, the photos and Clear all still work.    *)
(***************************************************************************)
EXTENDS Naturals, FiniteSets

CONSTANTS
    PagePhotos,         \* of a supplier's page
    MaxSaves, MaxPastes    \* bounds

ASSUME AddFormConstants == MaxSaves \in Nat /\ MaxPastes \in Nat

VARIABLES
    url,        \* whose link is in the link field: "", "other" (a supplier) or "own" (the studio's store)
    fields,       \* the fields
    strip,      \* the photos on screen, those kept, the one ticked as the texture, if any
    flight,     \* the request awaited, if any, and what add() has in its hands
    dialog,     \* what the dialog of the fetch shows: "closed", "fetching" or "failed"
    manualFrom, \* lastManual, where it is read: whose link may be entered by hand, "" for nobody's
    taken,      \* the rows the server took
    pastes      \* bound

dialogVars == <<dialog, manualFrom>>
addVars == <<url, fields, strip, flight, dialogVars, taken, pastes>>

Idle == [at |-> "idle"]
NoStrip == [shown |-> {}, kept |-> {}, texture |-> {}]

\* "number" is the next SL-nnn; the fields not named here follow `name`.
Blank == [id |-> "", idFrom |-> "form", name |-> FALSE, supplier |-> "", preview |-> FALSE, manual |-> FALSE]

ownStore(f, link) == IF f.preview THEN f.supplier = "own" ELSE link = "own"
idTyped(f) == f.idFrom = "studio" /\ f.id # ""
setId(f, id, from) == [f EXCEPT !.id = id, !.idFrom = from]

\* Mutant of syncIdField: hiding and showing the field leaves the number it had.
syncIdFieldKeepsNumber(f, link) ==
    IF ~ownStore(f, link) /\ f.id = "" THEN setId(f, "number", "allocated") ELSE f

\* The id shows for the own store only, and is never the next number there.
syncIdField(f, link) ==
    IF ownStore(f, link)
    THEN IF f.idFrom = "allocated" THEN setId(f, "", "form") ELSE f
    ELSE IF f.id = "" THEN setId(f, "number", "allocated") ELSE f

AddFormInit ==
    /\ url = "" /\ strip = NoStrip /\ flight = Idle /\ dialog = "closed" /\ manualFrom = "" /\ taken = {} /\ pastes = 0
    /\ fields = setId(Blank, "number", "allocated")

-----------------------------------------------------------------------------
\* What the studio does on the page, whether or not an answer is awaited: everything behind an
\* open dialog is inert.
Reachable == dialog = "closed"

PasteLink ==
    /\ Reachable
    /\ pastes < MaxPastes /\ pastes' = pastes + 1
    /\ \E link \in {"other", "own"} : url' = link /\ fields' = syncIdField(fields, link)
    /\ UNCHANGED <<strip, flight, dialogVars, taken>>

TypeId ==
    /\ Reachable
    /\ ownStore(fields, url)
    /\ \E id \in {"", "typed"} : fields' = setId(fields, id, "studio")
    /\ UNCHANGED <<url, strip, flight, dialogVars, taken, pastes>>

TypeName ==
    /\ Reachable
    /\ fields' = [fields EXCEPT !.name = TRUE]
    /\ UNCHANGED <<url, strip, flight, dialogVars, taken, pastes>>

ChooseSupplier ==
    /\ Reachable
    /\ fields.preview
    /\ \E s \in {"", "other", "own"} : fields' = syncIdField([fields EXCEPT !.supplier = s], url)
    /\ UNCHANGED <<url, strip, flight, dialogVars, taken, pastes>>

\* A texture is one of the photos kept: ticking it keeps it, dropping it unticks it.
PickTexture(p) ==
    /\ Reachable /\ p \in strip.shown
    /\ strip' = [strip EXCEPT !.texture = {p}, !.kept = @ \cup {p}]
    /\ UNCHANGED <<url, fields, flight, dialogVars, taken, pastes>>

ToggleKeep(p) ==
    /\ Reachable /\ p \in strip.shown
    /\ strip' = IF p \notin strip.kept THEN [strip EXCEPT !.kept = @ \cup {p}]
                ELSE [strip EXCEPT !.kept = @ \ {p}, !.texture = @ \ {p}]
    /\ UNCHANGED <<url, fields, flight, dialogVars, taken, pastes>>

reset ==
    /\ url' = "" /\ strip' = NoStrip /\ manualFrom' = ""
    /\ fields' = setId(Blank, "number", "allocated")

btnClear == Reachable /\ reset /\ UNCHANGED <<flight, dialog, taken, pastes>>

-----------------------------------------------------------------------------
\* Fetching.

fetching == dialog' = "fetching"
failed == dialog' = "failed"
close == dialog' = "closed"

fetchUrl ==
    /\ flight.at = "idle" /\ url # "" /\ (fields.id = "" => url = "own")
    /\ flight' = [at |-> "fetch", link |-> url] /\ fetching /\ manualFrom' = ""
    /\ UNCHANGED <<url, fields, strip, taken, pastes>>

btnFetch == Reachable /\ fetchUrl

\* Cancel, or Escape: the request is left to answer.
onCancel ==
    /\ dialog # "closed" /\ close /\ manualFrom' = ""
    /\ UNCHANGED <<url, fields, strip, flight, taken, pastes>>

\* "Try fetching again" fetches whatever link is in the field by then.
onRetry == dialog = "failed" /\ fetchUrl

\* The scrape completes a blank name and replaces the rest, but never an id the studio typed.
applyScrape(link, sku, titled, photos) ==
    LET read == [fields EXCEPT !.manual = FALSE, !.name = @ \/ titled, !.supplier = link]
        named == CASE idTyped(read) -> read
                   [] ~idTyped(read) /\ sku -> setId(read, "sku", "form")
                   [] ~idTyped(read) /\ ~sku /\ link = "own" -> setId(read, "", "form")
                   [] OTHER -> setId(read, "number", "allocated")
    IN  /\ fields' = syncIdField([named EXCEPT !.preview = TRUE], url)
        /\ strip' = [shown |-> photos, kept |-> photos, texture |-> {}]

\* Over what could be read after all the dialog closes; otherwise it opens, cancelled or not.
showFetchError(filled) == IF filled THEN close ELSE failed

\* What was read, all of it or some, is filled in.
FetchAnswer ==
    /\ flight.at = "fetch"
    /\ flight' = Idle
    /\ \/ /\ close \/ showFetchError(TRUE)
          /\ manualFrom' = ""
          /\ \E sku, titled \in BOOLEAN, photos \in {{}, PagePhotos} :
                 applyScrape(flight.link, sku, titled, photos)
       \/ /\ showFetchError(FALSE) /\ manualFrom' \in {"", flight.link}
          /\ UNCHANGED <<fields, strip>>
    /\ UNCHANGED <<url, taken, pastes>>

\* Offered when a fetch has failed: the link that failed is the source, and no photos will be saved.
manualEntry ==
    /\ dialog = "failed" /\ close /\ manualFrom' = ""
    /\ fields' = syncIdField([fields EXCEPT !.manual = TRUE, !.supplier = manualFrom, !.preview = TRUE], url)
    /\ strip' = NoStrip
    /\ UNCHANGED <<url, flight, taken, pastes>>

-----------------------------------------------------------------------------
\* Saving: the photos, then the row.  Ctrl-S saves behind an open dialog, too.

validate ==
    /\ ownStore(fields, url) => fields.id # ""
    /\ fields.name
    /\ ~fields.manual /\ strip.kept # {} => strip.texture # {}

\* What is posted to /api/admin/rugs is read off the page when the photos have answered.
PostRow(imported, complete) ==
    [at |-> "row", id |-> fields.id, name |-> fields.name, supplier |-> fields.supplier, photos |-> imported,
     texture |-> strip.texture \cap imported, complete |-> complete]

add ==
    /\ flight.at = "idle" /\ fields.preview /\ Cardinality(taken) < MaxSaves
    /\ validate
    /\ flight' = IF fields.manual \/ strip.kept = {} THEN PostRow({}, TRUE)
                 ELSE [at |-> "photos", sent |-> strip.kept]
    /\ UNCHANGED <<url, fields, strip, dialogVars, taken, pastes>>

PhotosAnswer ==
    /\ flight.at = "photos"
    /\ \E imported \in SUBSET flight.sent : flight' = PostRow(imported, imported = flight.sent)
    /\ UNCHANGED <<url, fields, strip, dialogVars, taken, pastes>>

\* The server takes a row with a name, and one of the own store only with its id; one without an id
\* gets the next number.
Row(sent) == [id |-> IF sent.id = "" THEN "number" ELSE sent.id, supplier |-> sent.supplier,
              photos |-> sent.photos, texture |-> sent.texture, complete |-> sent.complete]

RowAnswer ==
    /\ flight.at = "row"
    /\ flight' = Idle
    /\ \/ /\ flight.name /\ ~(flight.supplier = "own" /\ flight.id = "")
          /\ taken' = taken \cup {Row(flight)}
          /\ reset \/ UNCHANGED <<url, fields, strip, manualFrom>>      \* answered, or the answer was lost
       \/ UNCHANGED <<url, fields, strip, manualFrom, taken>>           \* refused, or the request was lost
    /\ UNCHANGED <<dialog, pastes>>

AddFormNext ==
    \/ PasteLink \/ TypeId \/ TypeName \/ ChooseSupplier \/ btnClear
    \/ \E p \in PagePhotos : PickTexture(p) \/ ToggleKeep(p)
    \/ btnFetch \/ onCancel \/ onRetry \/ FetchAnswer \/ manualEntry
    \/ add \/ PhotosAnswer \/ RowAnswer

AddFormSpec == AddFormInit /\ [][AddFormNext]_addVars

-----------------------------------------------------------------------------
\* A product of the studio's own store is never filed under the next SL-nnn, whatever was fetched,
\* typed, erased or re-chosen before it, and also while its photos were on their way (rug-form.ts:422-424,
\* rugs/index.ts:44-52).
OwnStoreNeverNumbered == \A r \in taken : r.supplier = "own" => r.id # "number"


\* "A fetched rug is not saved without its texture photograph" (rug-form.ts:904): one whose photos
\* all landed has its texture.
FetchedHasTexture == \A r \in taken : r.complete /\ r.photos # {} => r.texture # {}
=============================================================================
