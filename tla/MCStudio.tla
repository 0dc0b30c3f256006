------------------------------- MODULE MCStudio -------------------------------
(***************************************************************************)
(* Six small machines in one run: the compactor of reactions, the studio's *)
(* session, the log of the buyers' visits, a cover on its way into Drive,  *)
(* the sheet as the wall of rugs shows it, and the studio's customers.     *)
(* They share no state, so a behaviour runs one of them, and leaves the    *)
(* others as they start.                                                   *)
(***************************************************************************)
EXTENDS Compaction, AdminSession, VisitLog, CoverPhoto, CatalogueView, CustomersDesk

VARIABLE machine

studioVars == <<machine, compactionVars, sessionVars, visitVars, coverVars, sheetVars, deskVars>>

\* A photo with every choice of its soft and its plain pixels.
CoverPhotographed ==
    \E soft \in kSubset(0, Pixels) \cup kSubset(1, Pixels) : \E plain \in SUBSET (Pixels \ soft) :
        original = [p \in Pixels |-> IF p \in soft THEN "soft" ELSE IF p \in plain THEN "plain" ELSE "rug"]

StudioInit ==
    /\ machine \in {"compactor", "session", "visits", "cover", "sheet", "desk"}
    /\ CompactionInit /\ SessionInit /\ VisitInit /\ SheetInit /\ DeskInit
    /\ \/ machine = "cover" /\ CoverPhotographed
       \/ machine # "cover" /\ vendor = "none" /\ mime = TRUE /\ original = [p \in Pixels |-> "rug"]
    /\ CoverInit

StudioNext ==
    \/ /\ machine = "compactor" /\ CompactionNext
       /\ UNCHANGED <<machine, sessionVars, visitVars, coverVars, sheetVars, deskVars>>
    \/ /\ machine = "session" /\ SessionNext
       /\ UNCHANGED <<machine, compactionVars, visitVars, coverVars, sheetVars, deskVars>>
    \/ /\ machine = "visits" /\ VisitNext
       /\ UNCHANGED <<machine, compactionVars, sessionVars, coverVars, sheetVars, deskVars>>
    \/ /\ machine = "cover" /\ CoverNext
       /\ UNCHANGED <<machine, compactionVars, sessionVars, visitVars, sheetVars, deskVars>>
    \/ /\ machine = "sheet" /\ SheetNext
       /\ UNCHANGED <<machine, compactionVars, sessionVars, visitVars, coverVars, deskVars>>
    \/ /\ machine = "desk" /\ DeskNext
       /\ UNCHANGED <<machine, compactionVars, sessionVars, visitVars, coverVars, sheetVars>>

StudioSpec == StudioInit /\ [][StudioNext]_studioVars

-----------------------------------------------------------------------------
\* Collections spelled in two ways, and products whose handles and words collide.
Kilim == [key |-> "kilim", word |-> "kilim"]
Kilims == [key |-> "kilims", word |-> "kilims"]
WabiSabi == [key |-> "wabi sabi", word |-> "wabi-sabi"]
WabiDash == [key |-> "wabi-sabi", word |-> "wabi-sabi"]

MCNames == {Kilim, Kilims, WabiSabi, WabiDash}

Product(id, handle, names, featured, landscape) ==
    [id |-> id, valid |-> id # "bad", handle |-> handle, word |-> "red", names |-> names,
     featured |-> featured, landscape |-> landscape]

MCProductRows == {
    Product("1", NoHandle, <<Kilim>>, TRUE, TRUE),
    Product("2", <<"red">>, <<Kilims, WabiDash>>, FALSE, TRUE),
    Product("3", <<"red", 2>>, <<>>, TRUE, TRUE),
    Product("4", NoHandle, <<WabiSabi, WabiDash>>, TRUE, FALSE),
    Product("5", <<"blue">>, <<Kilim, More>>, TRUE, TRUE),
    Product("bad", NoHandle, <<Kilim>>, TRUE, TRUE),
    Product("", NoHandle, <<Kilim>>, TRUE, TRUE)}

MCCollectionRows == {
    [name |-> Kilims, slug |-> "", sort |-> 2],
    [name |-> Kilim, slug |-> "kilims", sort |-> 1],
    [name |-> WabiSabi, slug |-> "wabi", sort |-> 1],
    [name |-> More, slug |-> "misc", sort |-> 1]}

MCSingular(slug) == IF slug = "kilims" THEN "kilim" ELSE slug
MCOrder == <<Kilims, WabiSabi>>
MCReference == <<WabiSabi, Kilims, More>>
=============================================================================
