---------------------------- MODULE CataloguePage ----------------------------
(***************************************************************************)
(* A buyer's catalogue page: the strip of collections, the search by name, *)
(* the pager, the phone's dropdown and the popup of a rug, with the address*)
(* bar they share.  Moving back in the history is asked for and happens    *)
(* later, and the page does not wait for it.                               *)
(***************************************************************************)
EXTENDS Integers, Sequences, FiniteSets

CONSTANTS Cards,        \* the cards of the grid, 1 .. n in their order
          Shelves,      \* the collections of the strip, in its order
          Filed,        \* the collections of a card
          Answers,      \* for each text that can be typed, the cards it names
          PAGE_SIZE,    \* the cards of a page
          MaxEntries    \* bound: entries of the history

ASSUME CatalogueConstants ==
    /\ IsFiniteSet(Cards) /\ Cards \subseteq Nat \ {0}
    /\ Shelves \in Seq({Shelves[i] : i \in DOMAIN Shelves})
    /\ PAGE_SIZE \in Nat \ {0}

VARIABLES active,       \* the chosen collection, or "all"
          query,        \* what the grid is searched for
          typed,        \* what stands in the search field
          searching,    \* the search field is open
          page,
          menuOpen,     \* the dropdown of a phone
          rug,          \* the rug in the popup, or 0
          returnTo,     \* the popup knows where it was opened from
          entries,      \* the entries of the history that are this document
          at,           \* the entry shown
          going,        \* ways back asked for and not yet gone
          astray        \* something was pressed on an entry about to be left

gridVars == <<active, query, typed, searching, page, menuOpen>>
popupVars == <<rug, returnTo, entries, at, going, astray>>
catalogueVars == <<gridVars, popupVars>>

All == "all"
Chips == Append(Shelves, All)
trimmed(text) == IF text = "blank" THEN "" ELSE text

\* A page opens on the collection of its address, if it has that one, or on the first.
Opened(name) == IF \E i \in DOMAIN Chips : Chips[i] = name THEN name ELSE Chips[1]

PageInit ==
    /\ entries \in {<<[path |-> 0, state |-> 0, tab |-> name]>> : name \in {"", Shelves[1], "gone"}}
    /\ at = 1 /\ active = Opened(entries[1].tab)
    /\ query = "" /\ typed = "" /\ searching = FALSE /\ page = 1 /\ menuOpen = FALSE
    /\ rug = 0 /\ returnTo = FALSE /\ going = 0 /\ astray = FALSE

-----------------------------------------------------------------------------
nameMatches(card, text) == card \in Answers[text]

matches(card) == IF query # "" THEN nameMatches(card, query) ELSE active = All \/ active \in Filed[card]

Matched == {card \in Cards : matches(card)}
Before(card) == {other \in Matched : other < card}
PagesOf == IF Matched = {} THEN 1 ELSE (Cardinality(Matched) + PAGE_SIZE - 1) \div PAGE_SIZE
OnPage == {card \in Matched : Cardinality(Before(card)) \div PAGE_SIZE = page - 1}

\* At the end of a collection the next one is offered; "All" is none.
Following == {i \in 2 .. Len(Shelves) : Shelves[i - 1] = active}
nextOffered == query = "" /\ page >= PagesOf /\ Following # {}

\* Clicks reach the page when no popup covers it, and close the dropdown wherever they fall.
Press == rug = 0 /\ menuOpen' = FALSE
\* Whatever is pressed while the way back is still to go leaves its trace on the wrong entry.
Hurried == astray' = (astray \/ going > 0)

setActiveOnly(name) == active' = name /\ page' = 1 /\ UNCHANGED entries

setActive(name) ==
    /\ active' = name /\ page' = 1
    /\ entries' = [entries EXCEPT ![at] = [@ EXCEPT !.state = 0, !.tab = name]]

choose(name) ==
    /\ IF query # "" THEN query' = "" /\ typed' = "" /\ searching' = FALSE
                     ELSE UNCHANGED <<query, typed, searching>>
    /\ setActive(name) /\ Hurried
    /\ UNCHANGED <<rug, returnTo, at, going>>

PressTab == Press /\ \E i \in DOMAIN Chips : choose(Chips[i])
PickInMenu == menuOpen /\ PressTab
OpenNext == Press /\ nextOffered /\ choose(Shelves[CHOOSE i \in Following : TRUE])

ToggleMenu == rug = 0 /\ menuOpen' = ~menuOpen /\ UNCHANGED <<active, query, typed, searching, page, popupVars>>

TurnPage ==
    /\ Press /\ page' \in {page - 1, page + 1} \cap 1 .. PagesOf
    /\ UNCHANGED <<active, query, typed, searching, popupVars>>

-----------------------------------------------------------------------------
\* The grid hears of a change of the field, and starts over when it is one for it.
emit(text) ==
    /\ query' = trimmed(text)
    /\ page' = IF query' = query THEN page ELSE 1
    /\ UNCHANGED <<active, popupVars>>

setQuery(text) == typed' = text /\ emit(text)
collapse == searching' = FALSE /\ setQuery("")

ToggleSearch ==
    /\ Press
    /\ IF searching THEN collapse ELSE searching' = TRUE /\ UNCHANGED <<active, query, typed, page, popupVars>>
Type == Press /\ searching /\ UNCHANGED searching /\ \E text \in {"", "blank"} \cup DOMAIN Answers : setQuery(text)
ClearField == Press /\ searching /\ typed # "" /\ UNCHANGED searching /\ setQuery("")
EscapeField == Press /\ searching /\ IF typed # "" THEN UNCHANGED searching /\ setQuery("") ELSE collapse
LeaveField == Press /\ searching /\ typed = "" /\ collapse

-----------------------------------------------------------------------------
\* The popup takes an entry of its own, over whatever lay ahead.
OpenRug ==
    /\ Press /\ at < MaxEntries /\ Hurried
    /\ \E card \in OnPage :
         /\ rug' = card
         /\ entries' = Append(SubSeq(entries, 1, at), [path |-> card, state |-> card, tab |-> active])
    /\ returnTo' = TRUE /\ at' = at + 1
    /\ UNCHANGED <<active, query, typed, searching, page, going>>

onClose ==
    /\ rug' = 0 /\ returnTo' = FALSE
    /\ going' = IF returnTo /\ entries[at].state # 0 THEN going + 1 ELSE going

CloseRug == rug # 0 /\ onClose /\ UNCHANGED <<gridVars, entries, at, astray>>

\* The page hears that the entry changed, and closes the popup without asking the way back again.
onPopState == rug' = 0 /\ returnTo' = FALSE

GoesBack == going > 0 /\ going' = going - 1 /\ at' = at - 1 /\ onPopState
            /\ UNCHANGED <<gridVars, entries, astray>>
\* The browser queues the moves through its history, so the buyer's own come after these.
Back == going = 0 /\ at > 1 /\ at' = at - 1 /\ onPopState /\ UNCHANGED <<gridVars, entries, going, astray>>
\* Forward shows the address of a rug again, and no popup.
Forward == going = 0 /\ at < Len(entries) /\ at' = at + 1 /\ onPopState /\ astray' = TRUE
           /\ UNCHANGED <<gridVars, entries, going>>

\* The catalogue loaded again; on the address of a rug it is the page of that rug.
LoadAgain ==
    /\ going = 0 /\ entries[at].path = 0
    /\ active' = Opened(entries[at].tab)
    /\ query' = "" /\ typed' = "" /\ searching' = FALSE /\ page' = 1 /\ menuOpen' = FALSE
    /\ rug' = 0 /\ returnTo' = FALSE /\ UNCHANGED <<entries, at, going, astray>>

PageNext ==
    \/ PressTab \/ PickInMenu \/ OpenNext \/ ToggleMenu \/ TurnPage
    \/ ToggleSearch \/ Type \/ ClearField \/ EscapeField \/ LeaveField
    \/ OpenRug \/ CloseRug \/ GoesBack \/ Back \/ Forward \/ LoadAgain

PageSpec == PageInit /\ [][PageNext]_catalogueVars

-----------------------------------------------------------------------------
\* The address says what is on screen: the rug in the popup, or the collection a reload or the way
\* back must bring again.  Steps taken while a way back is still to go, and Forward, are the ones
\* the page does not keep up with (filters.ts:9-11, product-dialog.ts:74).
AddressInStep ==
    ~astray /\ going = 0 =>
        /\ rug = entries[at].path
        /\ rug = 0 => Opened(entries[at].tab) = active

\* A closed search never keeps the grid filtered, and the grid is never on a page past its end
\* (search.ts:106, paginate.ts:61).
SearchInStep == query = trimmed(typed) /\ (~searching => typed = "") /\ page \in 1 .. PagesOf

\* However fast the buyer is, the popup never goes with the address of another rug.
PopupHasItsAddress == rug # 0 => entries[at].path = rug

\* What is on screen, what the address bar says and what is typed never part.
PageInStep == AddressInStep /\ SearchInStep /\ PopupHasItsAddress
=============================================================================
