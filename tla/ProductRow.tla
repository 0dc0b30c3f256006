----------------------------- MODULE ProductRow -----------------------------
(***************************************************************************)
(* One product's row in the sheet and those who edit it at once: the edit  *)
(* form (scripts/admin/rug-form.ts, edit mode), a rename and the Shopify   *)
(* dropdown of the products table (scripts/admin/inline-row.ts), and the   *)
(* retry that finishes the photos.  The first two write the whole row under*)
(* its version, the dropdown writes its cell alone.                        *)
(***************************************************************************)
EXTENDS Naturals

CONSTANTS
    Names,          \* what may be typed as the product's name
    Choices,        \* of the Shopify dropdown
    MaxSends,       \* bound: requests sent
    MaxLost         \* bound: requests or answers lost

ASSUME ProductRowConstants == MaxSends \in Nat /\ MaxLost \in Nat

VARIABLES
    gone,       \* the row has been deleted
    row,        \* the cells; the version of a row is a hash of them, here the cells themselves
    form,       \* the edit form; `shown` is history, the row last put on screen
    title,      \* the rename in the table
    menu,       \* the dropdown in the table
    sends, lost,
    imports,    \* history: the row had photos to import
    trampled    \* history: cells a write changed although its author had not

rowVars == <<gone, row, form, title, menu, sends, lost, imports, trampled>>

Cells == {"name", "choice", "size", "commit"}
None == [at |-> "none"]

ProductRowInit ==
    /\ \E state \in {"", "pending"} :
           /\ row = [name |-> CHOOSE n \in Names : TRUE, choice |-> CHOOSE c \in Choices : TRUE, size |-> "as measured",
                     commit |-> state]
           /\ imports = (state = "pending")
    /\ form = [at |-> "idle", screen |-> row, version |-> row, shown |-> row, dirty |-> FALSE,
               sent |-> None, answer |-> None]
    /\ title = [at |-> "read", shown |-> row.name, typed |-> row.name, read |-> None, answer |-> None]
    /\ menu = [at |-> "read", saved |-> row.choice, value |-> row.choice, answer |-> None]
    /\ gone = FALSE /\ sends = 0 /\ lost = 0 /\ trampled = {}

Differ(a, b) == {c \in Cells : a[c] # b[c]}

Send == sends < MaxSends /\ sends' = sends + 1

\* POST /api/admin/rugs/:id, whole, under the admin lock: no such row, nothing to do, a stale version,
\* or the write.
update(body, version) ==
    CASE gone -> [at |-> "missing"]
      [] ~gone /\ body = row -> [at |-> "unchanged"]
      [] ~gone /\ body # row /\ version # row -> [at |-> "conflict", rug |-> row]
      [] OTHER -> [at |-> "saved", rug |-> body]

Lands(answer) == row' = IF answer.at = "saved" THEN answer.rug ELSE row
Tramples(answer, shown) ==
    trampled' = trampled \cup
        IF answer.at = "saved" THEN Differ(row, answer.rug) \ Differ(shown, answer.rug) ELSE {}

\* A request gets through or not, and so does its answer; without an answer the browser gives up.
Delivered(reached, heard) ==
    /\ heard => reached
    /\ ~heard => lost < MaxLost
    /\ lost' = IF heard THEN lost ELSE lost + 1
Failed == [at |-> "failed"]

-----------------------------------------------------------------------------
\* The edit form.

EditField ==
    /\ form.at # "left"
    /\ \/ \E n \in Names : form' = [form EXCEPT !.screen.name = n, !.dirty = TRUE]
       \/ \E c \in Choices : form' = [form EXCEPT !.screen.choice = c, !.dirty = TRUE]
    /\ UNCHANGED <<gone, row, title, menu, sends, lost, imports, trampled>>

\* Swap writes the fields itself, so the unsaved-work guard does not see it.
btnSwap ==
    /\ form.at # "left"
    /\ form' = [form EXCEPT !.screen.size = IF @ = "swapped" THEN "as measured" ELSE "swapped"]
    /\ UNCHANGED <<gone, row, title, menu, sends, lost, imports, trampled>>

\* collect(): what is on screen, and nothing of the import state, which the server then takes as blank.
save ==
    /\ form.at = "idle" /\ Send
    /\ form' = [form EXCEPT !.at = "sent", !.sent = [form.screen EXCEPT !.commit = ""]]
    /\ UNCHANGED <<gone, row, title, menu, lost, imports, trampled>>

SaveReaches(reached, heard) ==
    LET answer == IF reached THEN update(form.sent, form.version) ELSE Failed
    IN  /\ form.at = "sent" /\ Delivered(reached, heard)
        /\ Lands(answer) /\ Tramples(answer, form.shown)
        /\ form' = [form EXCEPT !.at = "answered", !.answer = IF heard THEN answer ELSE Failed]
        /\ UNCHANGED <<gone, title, menu, sends, imports>>

\* Mutant of SaveAnswer: a conflict moves the version on and keeps what was typed.
SaveAnswerKeepsScreen ==
    LET a == form.answer
        done == [form EXCEPT !.at = "idle", !.sent = None, !.answer = None]
    IN  /\ form.at = "answered"
        /\ form' = CASE a.at = "saved" -> [done EXCEPT !.screen = a.rug, !.version = a.rug, !.shown = a.rug, !.dirty = FALSE]
                     [] a.at = "conflict" -> [done EXCEPT !.version = a.rug]
                     [] OTHER -> done
        /\ UNCHANGED <<gone, row, title, menu, sends, lost, imports, trampled>>

\* Both a save and a conflict put the server's row on screen, over whatever was typed meanwhile.
SaveAnswer ==
    LET a == form.answer
        done == [form EXCEPT !.at = "idle", !.sent = None, !.answer = None]
    IN  /\ form.at = "answered"
        /\ form' = IF a.at \in {"saved", "conflict"}
                   THEN [done EXCEPT !.screen = a.rug, !.version = a.rug, !.shown = a.rug, !.dirty = FALSE]
                   ELSE done
        /\ UNCHANGED <<gone, row, title, menu, sends, lost, imports, trampled>>

\* Delete, once confirmed: only the row the form was filled from.  The form is left with it, unless
\* photos stay behind and the page has to say so.
remove ==
    /\ form.at = "idle" /\ Send
    /\ form' = [form EXCEPT !.at = "deleting"]
    /\ UNCHANGED <<gone, row, title, menu, lost, imports, trampled>>

RemoveReaches(reached, heard) ==
    LET found == reached /\ ~gone /\ row = form.version IN
    /\ form.at = "deleting" /\ Delivered(reached, heard)
    /\ gone' = (gone \/ found)
    /\ trampled' = IF found THEN trampled \cup Differ(row, form.shown) ELSE trampled
    /\ \E at \in IF found /\ heard THEN {"left", "idle"} ELSE {"idle"} : form' = [form EXCEPT !.at = at]
    /\ UNCHANGED <<row, title, menu, sends, imports>>

-----------------------------------------------------------------------------
\* The rename: the row is read again and posted back with the name changed.  Pressing Enter a second
\* time, or Escape, while it saves is left out.

beginEdit ==
    /\ title.at = "read"
    /\ \E n \in Names : title' = [title EXCEPT !.at = "editing", !.typed = n]
    /\ UNCHANGED <<gone, row, form, menu, sends, lost, imports, trampled>>

commit ==
    /\ title.at \in {"editing", "error"}
    /\ IF title.typed = title.shown THEN title' = [title EXCEPT !.at = "read"] /\ UNCHANGED sends
       ELSE Send /\ title' = [title EXCEPT !.at = "reading"]
    /\ UNCHANGED <<gone, row, form, menu, lost, imports, trampled>>

cancel ==
    /\ title.at \in {"editing", "error"}
    /\ title' = [title EXCEPT !.at = "read"]
    /\ UNCHANGED <<gone, row, form, menu, sends, lost, imports, trampled>>

RowIsRead(reached, heard) ==
    /\ title.at = "reading" /\ Delivered(reached, heard)
    /\ title' = IF heard /\ ~gone THEN [title EXCEPT !.at = "posting", !.read = row] ELSE [title EXCEPT !.at = "error"]
    /\ UNCHANGED <<gone, row, form, menu, sends, imports, trampled>>

renameBody == [title.read EXCEPT !.name = title.typed]

RenameReaches(reached, heard) ==
    LET answer == IF reached THEN update(renameBody, title.read) ELSE Failed
        done == heard /\ answer.at \notin {"conflict", "missing"}
    IN  /\ title.at = "posting" /\ Delivered(reached, heard)
        /\ Lands(answer) /\ Tramples(answer, title.read)
        /\ title' = [title EXCEPT !.read = None, !.at = IF done THEN "read" ELSE "error",
                                  !.shown = IF done THEN title.typed ELSE @]
        /\ UNCHANGED <<gone, form, menu, sends, imports>>

-----------------------------------------------------------------------------
\* The dropdown: its one cell, without a version, as it changes; a refusal puts the old answer back.

saveShopify ==
    /\ menu.at = "read" /\ Send
    /\ \E c \in Choices \ {menu.saved} : menu' = [menu EXCEPT !.at = "sent", !.value = c]
    /\ UNCHANGED <<gone, row, form, title, lost, imports, trampled>>

ChoiceAnswered(good) ==
    menu' = IF good THEN [menu EXCEPT !.at = "read", !.saved = menu.value]
            ELSE [menu EXCEPT !.at = "read", !.value = menu.saved]

ChoiceReaches(reached, heard) ==
    /\ menu.at = "sent" /\ Delivered(reached, heard)
    /\ row' = IF reached /\ ~gone THEN [row EXCEPT !.choice = menu.value] ELSE row
    /\ ChoiceAnswered(heard /\ ~gone)
    /\ UNCHANGED <<gone, form, title, sends, imports, trampled>>

\* The retry of another tab lands the photos that were missing.
RetryLands ==
    /\ row.commit = "pending" /\ ~gone
    /\ row' = [row EXCEPT !.commit = "complete"]
    /\ UNCHANGED <<gone, form, title, menu, sends, lost, imports, trampled>>

ProductRowNext ==
    \/ EditField \/ btnSwap \/ save \/ SaveAnswer \/ remove
    \/ beginEdit \/ commit \/ cancel
    \/ saveShopify \/ RetryLands
    \/ \E reached, heard \in BOOLEAN :
           \/ SaveReaches(reached, heard) \/ RemoveReaches(reached, heard) \/ RowIsRead(reached, heard)
           \/ RenameReaches(reached, heard) \/ ChoiceReaches(reached, heard)

ProductRowSpec == ProductRowInit /\ [][ProductRowNext]_rowVars

-----------------------------------------------------------------------------
\* Whoever writes the whole row changes only the cells they edited, however the form, the rename, the
\* dropdown and the retry interleave and whichever answers are lost: what the others saved meanwhile
\* survives, and nobody deletes a row that has changed since they saw it (inline-row.ts:63-65, write.ts:567-573, shopify.ts:4-6).
NothingTrampled == trampled = {}

\* "Blank on a row that never had photos to import" (dto.ts:111): the pending mark, and the Retry it
\* offers, stay on a row until its photos have landed.
PendingStaysVisible == ~gone /\ row.commit = "" => ~imports

\* "Armed by the first real edit and disarmed by fill() and reset()" (rug-form.ts:242-243): what is on
\* screen and not on the server is guarded against leaving the page.
UnsavedWorkGuarded == form.at = "idle" /\ form.screen # form.shown => form.dirty
=============================================================================
